---------------------------- MODULE DraftLemmas ----------------------------
(***************************************************************************)
(* What the run checks of the drafts, for any number of contexts, pages,   *)
(* edits, requests and failing operations.                                 *)
(*                                                                         *)
(* The operators of the coordinator and of the session come first: each    *)
(* takes a coordinator to one that has moved on (Advances), and leaves the *)
(* session it works for coherent with it.  What the actions then do to the *)
(* queue, the disk and the other pages follows from that alone: the line,  *)
(* the requests and the pages are steps from one coordinator, line and set *)
(* of sessions to the next, and each keeps the inductive invariant.  The   *)
(* last two parts add to it what the histories say: what a draft has left  *)
(* behind (PInv), and what the user has given it (RInv).                   *)
(***************************************************************************)
EXTENDS DraftAutosave, FiniteSetTheorems, SequenceTheorems, TLAPS

\* Values of the variables while the texts 0 .. n have been typed.
CapturesTo(n) ==
    [draft : Contexts, rev : Nat, sql : 0 .. n, page : Pages, editor : Nat]

SessionsTo(n) ==
    [open : BOOLEAN, active : BOOLEAN, closing : BOOLEAN, sql : 0 .. n,
     context : Contexts \union {None}, bound : Contexts \union {None},
     savedSql : 0 .. n, savedContext : Contexts \union {None}, editor : Nat,
     deleted : BOOLEAN, failed : BOOLEAN, capture : CapturesTo(n) \union {None},
     origin : Origins \union {None}, transferred : BOOLEAN,
     pending : Contexts \union {None}, state : States, overtaken : BOOLEAN]

WritersTo(n) ==
    [sequence : Nat, latest : [Contexts -> Nat],
     current : [Contexts -> CapturesTo(n) \union {None}],
     unconfirmed : [Contexts -> Nat], retained : [Contexts -> SUBSET Nat],
     timers : SUBSET Contexts, intake : BOOLEAN]

Preferences ==
    [enabled : BOOLEAN, suspended : BOOLEAN, busy : BOOLEAN,
     owed : {"none", "cleanup", "enable"}, confirmed : BOOLEAN]

JobsTo(n) ==
    [op : {"write"}, capture : CapturesTo(n), ids : SUBSET Contexts]
    \union [op : {"delete", "clear", "disable", "enable"}, capture : {None},
            ids : SUBSET Contexts]

ResultsTo(n) ==
    [job : JobsTo(n), code : {"ok", "io", "disabled"}, enabled : BOOLEAN \union {None}]

-----------------------------------------------------------------------------
\* The coordinator is in order: a current write has the latest revision of its
\* draft, and a timer runs only for a current write.
Coordinated(w) ==
    \A d \in Contexts :
      /\ w.latest[d] <= w.sequence
      /\ w.current[d] # None => w.current[d].draft = d /\ w.current[d].rev = w.latest[d]
      /\ d \in w.timers => w.current[d] # None
      /\ w.unconfirmed[d] \in {0, w.latest[d]}

\* From w to v the coordinator has moved on: a draft has kept its revision and
\* at most lost its current write, or has a new revision and a new current
\* write, if any, of page p.
Advances(w, v, p) ==
    /\ w.sequence <= v.sequence
    /\ \A d \in Contexts :
         /\ \/ v.latest[d] = w.latest[d] /\ v.current[d] \in {w.current[d], None}
            \/ /\ v.latest[d] > w.sequence
               /\ v.current[d] # None => v.current[d].page = p
         /\ d \in v.timers /\ v.current[d] = w.current[d] => d \in w.timers

\* A coordinator that is in order and takes texts up to n.
Orderly(n, w) == w \in WritersTo(n) /\ Coordinated(w)

\* The step from w to v, both in order, with the intake left as it is.
Moves(n, w, v, p) == Orderly(n, v) /\ Advances(w, v, p) /\ v.intake = w.intake

\* No current write is of page p.
Freed(w, p) == \A d \in Contexts : w.current[d] # None => w.current[d].page # p

\* The text of a session is the one that was last acknowledged.
Acked(s) == s.sql # 0 /\ s.savedSql = s.sql

\* A session agrees with itself: it has a context while it is open, text has the
\* context it was typed for, and an acknowledged text is that of its origin.
Coherent(w, s) ==
    /\ s.open => s.context \in Contexts
    /\ s.bound # None <=> s.sql # 0
    /\ Acked(s) => /\ s.bound = s.savedContext /\ ~s.deleted
                   /\ s.origin # None /\ s.origin.draft = s.savedContext
    /\ s.origin # None => 0 < s.origin.rev /\ s.origin.rev <= w.sequence

\* Such a session of page p.
Sound(n, w, s, p) ==
    s \in SessionsTo(n) /\ Coherent(w, s) /\ (s.capture # None => s.capture.page = p)

\* The current writes of page p are of the editor of its session.
Owns(w, s, p) ==
    \A d \in Contexts :
      LET cap == w.current[d]
      IN  cap # None /\ cap.page = p =>
            /\ s.open \/ s.closing
            /\ s.open => /\ s.active /\ s.editor = cap.editor /\ s.sql = cap.sql
                         /\ s.origin = [draft |-> d, rev |-> cap.rev]
                         /\ cap.sql # 0 => s.bound = d /\ ~s.deleted

\* The current writes of page p have the revision of the session's origin.
Traces(w, s, p) ==
    \A d \in Contexts :
      LET cap == w.current[d]
      IN  cap # None /\ cap.page = p =>
            s.active /\ s.origin = [draft |-> d, rev |-> cap.rev]

\* Nobody has taken the draft of the session's acknowledged text.
Kept(w, s) == Acked(s) /\ ~s.overtaken /\ w.latest[s.savedContext] = s.origin.rev

\* Nobody takes the draft of the live page's acknowledged text.
Newest(w, s) == Acked(s) /\ ~s.overtaken => w.latest[s.savedContext] = s.origin.rev

\* The worker's side: the disk, the jobs in line and the results not yet applied.
Line == [disk |-> disk, queue |-> queue, entered |-> entered, results |-> results]

\* While nobody has, it is on disk and nothing on its way changes that.
Backed(m, w, s) ==
    Kept(w, s) =>
      LET d == s.savedContext
      IN  /\ m.disk[d] = s.sql
          /\ w.current[d] # None => w.current[d].sql = s.sql
          /\ \A i \in DOMAIN m.queue :
               d \in m.queue[i].ids =>
                 m.queue[i].op = "write" /\ (i = 1 /\ m.entered => m.queue[i].capture.sql = s.sql)

\* No draft gains a write.
Silent(w, v) == \A d \in Contexts : v.current[d] \in {w.current[d], None}

\* "Saved" is never said of a blank editor; and it is said of the text that was
\* acknowledged, in its context.
Meant(s) == s.state = "saved" => s.sql # 0
Honest(s) == s.state = "saved" => Acked(s) /\ s.context = s.savedContext

-----------------------------------------------------------------------------
\* None is no capture, no origin and no context.
LEMMA NoneIsNone ==
  ASSUME NEW n \in Texts
  PROVE  /\ \A c \in CapturesTo(n) : c # None
         /\ \A o \in Origins : o # None
         /\ \A d \in Contexts : d # None
<1>1. CapturesTo(n) \subseteq Captures
  BY DraftParameters DEF CapturesTo, Captures, Texts
<1>2. QED
  BY <1>1, NoneIsNoValue

\* What happens twice happens once.
LEMMA AdvanceTwice ==
  ASSUME NEW n, NEW w, NEW v, NEW u, NEW p, Orderly(n, w), Moves(n, w, v, p), Moves(n, v, u, p)
  PROVE  Moves(n, w, u, p)
<1>1. w.sequence \in Nat /\ v.sequence \in Nat /\ u.sequence \in Nat
  BY DEF Moves, Orderly, WritersTo
<1>2. ASSUME NEW d \in Contexts
      PROVE  /\ \/ u.latest[d] = w.latest[d] /\ u.current[d] \in {w.current[d], None}
                \/ u.latest[d] > w.sequence /\ (u.current[d] # None => u.current[d].page = p)
             /\ d \in u.timers /\ u.current[d] = w.current[d] => d \in w.timers
  <2>1. w.latest[d] \in Nat /\ v.latest[d] \in Nat /\ u.latest[d] \in Nat
    BY DEF Moves, Orderly, WritersTo
  <2>2. QED
    BY <1>1, <2>1 DEF Moves, Orderly, Coordinated, Advances
<1>3. QED
  BY <1>1, <1>2 DEF Moves, Advances

-----------------------------------------------------------------------------
(* The coordinator's operations.                                           *)

LEMMA FenceFields ==
  ASSUME NEW n \in Texts, NEW w, Orderly(n, w), NEW ids, NEW a, NEW b
  PROVE  LET f == Fence(w, ids, a, b)
         IN  /\ f.sequence = w.sequence /\ f.latest = w.latest /\ f.intake = w.intake
             /\ f.timers = w.timers \ ids
             /\ \A d \in Contexts : f.current[d] = IF d \in ids THEN None ELSE w.current[d]
  BY DEF Fence, Orderly, WritersTo

LEMMA FenceMoves ==
  ASSUME NEW n \in Texts, NEW w, NEW p, Orderly(n, w), NEW ids, NEW a, NEW b
  PROVE  Moves(n, w, Fence(w, ids, a, b), p)
<1> DEFINE f == Fence(w, ids, a, b)
<1>1. /\ f.sequence = w.sequence /\ f.latest = w.latest /\ f.intake = w.intake
      /\ f.timers = w.timers \ ids
      /\ \A d \in Contexts : f.current[d] = IF d \in ids THEN None ELSE w.current[d]
  BY FenceFields
<1>2. \A d \in Contexts : f.unconfirmed[d] = IF d \in ids /\ a THEN 0 ELSE w.unconfirmed[d]
  BY SMTT(30) DEF Fence, Orderly, WritersTo
<1>3. f \in WritersTo(n)
  BY DEF Fence, Orderly, WritersTo
<1>4. Coordinated(f)
  BY <1>1, <1>2 DEF Coordinated, Orderly, WritersTo
<1>5. Advances(w, f, p)
  BY <1>1 DEF Advances, Orderly, WritersTo
<1>6. QED
  BY <1>1, <1>3, <1>4, <1>5 DEF Moves, Orderly

LEMMA TrackFields ==
  ASSUME NEW n \in Texts, NEW w, Orderly(n, w), NEW d \in Contexts, NEW a
  PROVE  LET t == Track(w, d, a)
         IN  /\ t.sequence = w.sequence + 1 /\ t.latest[d] = t.sequence
             /\ t.current[d] = None /\ t.timers = w.timers \ {d}
             /\ \A e \in Contexts \ {d} : t.current[e] = w.current[e]
  BY DEF Track, Fence, Orderly, WritersTo

LEMMA TrackMoves ==
  ASSUME NEW n \in Texts, NEW w, NEW p, Orderly(n, w), NEW d \in Contexts, NEW a
  PROVE  Moves(n, w, Track(w, d, a), p)
<1> DEFINE f == Fence(w, {d}, TRUE, FALSE)
           t == Track(w, d, a)
<1>1. /\ f.sequence = w.sequence /\ f.latest = w.latest /\ f.intake = w.intake
      /\ f.timers = w.timers \ {d}
      /\ \A e \in Contexts : f.current[e] = IF e \in {d} THEN None ELSE w.current[e]
  BY DEF Fence, Orderly, WritersTo
<1>3. f \in WritersTo(n) /\ Coordinated(f)
  BY FenceMoves DEF Moves, Orderly
<1> HIDE DEF f
<1>4. t = [f EXCEPT !.sequence = f.sequence + 1, !.latest[d] = f.sequence + 1,
                    !.unconfirmed[d] = IF a THEN f.sequence + 1 ELSE 0]
  BY DEF Track, f
<1>5. /\ t.sequence = w.sequence + 1 /\ t.current = f.current /\ t.timers = f.timers
      /\ t.intake = f.intake /\ t.latest[d] = w.sequence + 1
      /\ t.unconfirmed[d] \in {0, w.sequence + 1}
      /\ \A e \in Contexts \ {d} : t.latest[e] = w.latest[e] /\ t.unconfirmed[e] = f.unconfirmed[e]
  BY <1>1, <1>3, <1>4 DEF WritersTo
<1>6. w.sequence \in Nat
  BY DEF Orderly, WritersTo
<1>7. t \in WritersTo(n)
  <2>1. f.sequence + 1 \in Nat /\ (IF a THEN f.sequence + 1 ELSE 0) \in Nat
    BY <1>1, <1>6
  <2>2. \A i, j \in Nat :
          [f EXCEPT !.sequence = i, !.latest[d] = i, !.unconfirmed[d] = j] \in WritersTo(n)
    BY <1>3 DEF WritersTo
  <2>3. QED
    BY <1>4, <2>1, <2>2
<1>8. \A e \in Contexts : w.latest[e] \in Nat
  BY DEF Orderly, WritersTo
<1>9. Coordinated(t)
  <2> SUFFICES ASSUME NEW e \in Contexts
               PROVE  /\ t.latest[e] <= t.sequence
                      /\ t.current[e] # None => t.current[e].draft = e /\ t.current[e].rev = t.latest[e]
                      /\ e \in t.timers => t.current[e] # None
                      /\ t.unconfirmed[e] \in {0, t.latest[e]}
    BY DEF Coordinated
  <2>1. CASE e = d
    BY <2>1, <1>1, <1>5, <1>6
  <2>2. CASE e # d
    BY <2>2, <1>1, <1>3, <1>5, <1>6, <1>8 DEF Coordinated
  <2>3. QED
    BY <2>1, <2>2
<1>10. Advances(w, t, p)
  BY <1>1, <1>5, <1>6, <1>8 DEF Advances
<1>11. QED
  BY <1>1, <1>5, <1>7, <1>9, <1>10 DEF Moves, Orderly

LEMMA StandsStill ==
  ASSUME NEW n, NEW w, NEW p, Orderly(n, w)
  PROVE  Moves(n, w, w, p)
  BY DEF Moves, Advances, Orderly, WritersTo

(* A session that stays where it is stays coherent.                        *)
LEMMA SoundLater ==
  ASSUME NEW n, NEW w, NEW v, NEW p, NEW q, NEW s, Orderly(n, w), Moves(n, w, v, p), Sound(n, w, s, q)
  PROVE  Sound(n, v, s, q)
<1>1. w.sequence \in Nat /\ v.sequence \in Nat /\ w.sequence <= v.sequence
  BY DEF Moves, Orderly, WritersTo, Advances
<1>2. s.origin # None => s.origin.rev \in Nat
  BY DEF Sound, SessionsTo, Origins
<1>3. QED
  BY <1>1, <1>2 DEF Sound, Coherent

(* What is owed and timed may change without the drafts noticing.          *)
LEMMA OwesMoves ==
  ASSUME NEW n, NEW w, NEW v, NEW p, Orderly(n, w), v \in WritersTo(n),
         v.sequence = w.sequence, v.latest = w.latest, v.current = w.current,
         v.intake = w.intake, v.timers \subseteq w.timers,
         \A d \in Contexts : v.unconfirmed[d] \in {0, w.unconfirmed[d]}
  PROVE  Moves(n, w, v, p)
<1>1. Coordinated(v)
  BY DEF Coordinated, Orderly
<1>2. Advances(w, v, p)
  BY DEF Advances, Orderly, WritersTo
<1>3. QED
  BY <1>1, <1>2 DEF Moves, Orderly

LEMMA RevokeMoves ==
  ASSUME NEW n \in Texts, NEW w, NEW p, NEW s, Orderly(n, w)
  PROVE  /\ Moves(n, w, Revoke(w, s), p)
         /\ Revoke(w, s).latest = w.latest
<1>1. CASE Holds(w, s.capture)
  <2>1. Revoke(w, s) = Fence(w, {s.capture.draft}, TRUE, FALSE)
    BY <1>1 DEF Revoke
  <2>2. Moves(n, w, Revoke(w, s), p)
    BY <2>1, FenceMoves
  <2>3. Fence(w, {s.capture.draft}, TRUE, FALSE).latest = w.latest
    BY DEF Fence, Orderly, WritersTo
  <2>4. QED
    BY <2>1, <2>2, <2>3
<1>2. CASE ~Holds(w, s.capture)
  BY <1>2, StandsStill DEF Revoke
<1>3. QED
  BY <1>1, <1>2

(* Afterwards the page has no current write.                               *)
LEMMA ReleaseMoves ==
  ASSUME NEW n \in Texts, NEW w, NEW p, NEW s, Orderly(n, w), Traces(w, s, p),
         s.origin \in Origins \union {None}
  PROVE  /\ Moves(n, w, Release(w, s), p)
         /\ Release(w, s).latest = w.latest
         /\ Freed(Release(w, s), p)
<1> DEFINE d == s.origin.draft
           r == [w EXCEPT !.retained[d] = @ \ {s.origin.rev}]
<1>1. CASE ~s.active \/ s.origin = None
  <2>1. Release(w, s) = w
    BY <1>1 DEF Release
  <2>2. Freed(w, p)
    BY <1>1, NoneIsNone DEF Traces, Freed, Origins, Orderly, WritersTo, CapturesTo
  <2>3. QED
    BY <2>1, <2>2, StandsStill
<1>2. CASE s.active /\ s.origin # None
  <2>1. d \in Contexts /\ s.origin.rev \in Nat
    BY <1>2 DEF Origins
  <2>2. /\ r.sequence = w.sequence /\ r.latest = w.latest /\ r.current = w.current
        /\ r.timers = w.timers /\ r.intake = w.intake /\ r.unconfirmed = w.unconfirmed
    BY DEF Orderly, WritersTo
  <2>3. r \in WritersTo(n)
    BY <2>1 DEF Orderly, WritersTo
  <2>5. Release(w, s) = IF r.latest[d] = s.origin.rev THEN Fence(r, {d}, TRUE, FALSE) ELSE r
    BY <1>2 DEF Release
  <2> HIDE DEF r, d
  <2>4. Orderly(n, r) /\ Moves(n, w, r, p)
    <3>1. \A e \in Contexts : r.unconfirmed[e] \in {0, w.unconfirmed[e]}
      BY <2>2
    <3>2. Moves(n, w, r, p)
      BY <2>2, <2>3, <3>1, OwesMoves
    <3>3. QED
      BY <3>2 DEF Moves
  <2>9. ASSUME NEW e \in Contexts, w.current[e] # None, w.current[e].page = p
        PROVE  e = d /\ w.latest[e] = s.origin.rev
    <3>1. s.origin = [draft |-> e, rev |-> w.current[e].rev]
      BY <2>9 DEF Traces
    <3>2. w.current[e].rev = w.latest[e]
      BY <2>9 DEF Orderly, Coordinated
    <3>3. QED
      BY <3>1, <3>2 DEF d
  <2>6. CASE r.latest[d] = s.origin.rev
    <3> DEFINE f == Fence(r, {d}, TRUE, FALSE)
    <3>1. Moves(n, r, f, p)
      BY <2>4, FenceMoves
    <3>2. /\ f.latest = r.latest
          /\ \A e \in Contexts : f.current[e] = IF e \in {d} THEN None ELSE r.current[e]
      BY <2>3 DEF Fence, WritersTo
    <3> HIDE DEF f
    <3>3. Moves(n, w, f, p)
      BY <2>4, <3>1, AdvanceTwice
    <3>4. Freed(f, p)
      BY <2>2, <2>9, <3>2 DEF Freed
    <3>5. QED
      BY <2>2, <2>5, <2>6, <3>2, <3>3, <3>4 DEF f
  <2>7. CASE r.latest[d] # s.origin.rev
    <3>1. Freed(w, p)
      BY <2>2, <2>7, <2>9 DEF Freed
    <3>2. QED
      BY <2>2, <2>4, <2>5, <2>7, <3>1 DEF Freed
  <2>8. QED
    BY <2>6, <2>7
<1>3. QED
  BY <1>1, <1>2

LEMMA RetainMoves ==
  ASSUME NEW n \in Texts, NEW w, NEW p, NEW o \in Origins, Orderly(n, w)
  PROVE  /\ Moves(n, w, Retain(w, o), p)
         /\ Retain(w, o).latest = w.latest /\ Retain(w, o).current = w.current
         /\ Retain(w, o).sequence = w.sequence + 1
<1> DEFINE r == Retain(w, o)
<1>1. w.sequence \in Nat /\ o.draft \in Contexts /\ o.rev \in Nat
  BY DEF Orderly, WritersTo, Origins
<1>2. r = [w EXCEPT !.sequence = w.sequence + 1,
                    !.retained[o.draft] = (@ \ {o.rev}) \union {w.sequence + 1}]
  BY DEF Retain
<1>3. r \in WritersTo(n)
  <2>1. w.sequence + 1 \in Nat
    BY <1>1
  <2>2. \A i \in Nat :
          [w EXCEPT !.sequence = i, !.retained[o.draft] = (@ \ {o.rev}) \union {i}] \in WritersTo(n)
    BY <1>1 DEF Orderly, WritersTo
  <2>3. QED
    BY <1>2, <2>1, <2>2
<1>4. /\ r.sequence = w.sequence + 1 /\ r.latest = w.latest /\ r.current = w.current
      /\ r.timers = w.timers /\ r.intake = w.intake /\ r.unconfirmed = w.unconfirmed
  BY <1>2 DEF Orderly, WritersTo
<1> HIDE DEF r
<1>5. \A d \in Contexts : w.latest[d] \in Nat
  BY DEF Orderly, WritersTo
<1>6. Coordinated(r)
  BY <1>1, <1>4, <1>5 DEF Coordinated, Orderly
<1>7. Advances(w, r, p)
  BY <1>1, <1>4 DEF Advances
<1>8. QED
  BY <1>3, <1>4, <1>6, <1>7 DEF Moves, Orderly, r

LEMMA LaunchMoves ==
  ASSUME NEW n, NEW w, NEW p, NEW ids, Orderly(n, w)
  PROVE  /\ Moves(n, w, Launch(w, ids), p)
         /\ Launch(w, ids).latest = w.latest /\ Launch(w, ids).current = w.current
         /\ Launch(w, ids).timers = w.timers \ ids /\ Launch(w, ids).sequence = w.sequence
<1> DEFINE l == Launch(w, ids)
<1>1. /\ l.sequence = w.sequence /\ l.latest = w.latest /\ l.current = w.current
      /\ l.timers = w.timers \ ids /\ l.intake = w.intake /\ l.unconfirmed = w.unconfirmed
  BY DEF Launch, Orderly, WritersTo
<1>2. l \in WritersTo(n)
  BY DEF Launch, Orderly, WritersTo
<1> HIDE DEF l
<1>3. Moves(n, w, l, p)
  BY <1>1, <1>2, OwesMoves
<1>4. QED
  BY <1>1, <1>3 DEF l

LEMMA ConfirmedMoves ==
  ASSUME NEW n, NEW w, NEW p, NEW cap \in CapturesTo(n), NEW code, Orderly(n, w)
  PROVE  /\ Moves(n, w, Confirmed(w, cap, code), p)
         /\ Confirmed(w, cap, code).latest = w.latest /\ Confirmed(w, cap, code).current = w.current
<1> DEFINE c == Confirmed(w, cap, code)
           z == [w EXCEPT !.unconfirmed[cap.draft] = 0]
<1>1. c \in {w, z}
  BY DEF Confirmed
<1>2. /\ z.sequence = w.sequence /\ z.latest = w.latest /\ z.current = w.current
      /\ z.timers = w.timers /\ z.intake = w.intake
      /\ \A d \in Contexts : z.unconfirmed[d] \in {0, w.unconfirmed[d]}
  BY DEF Orderly, WritersTo
<1>3. cap.draft \in Contexts
  BY DEF CapturesTo
<1>4. z \in WritersTo(n)
  BY <1>3 DEF Orderly, WritersTo
<1> HIDE DEF c, z
<1>5. Moves(n, w, z, p)
  BY <1>2, <1>4, OwesMoves
<1>6. Moves(n, w, w, p)
  BY StandsStill
<1>7. QED
  BY <1>1, <1>2, <1>5, <1>6 DEF c

\* From w to v the drafts ids have lost their writes, and the known of them have
\* a new revision.
Destroyed(w, v, known, ids) ==
    \A d \in Contexts :
      /\ v.latest[d] = IF d \in known THEN w.sequence + 1 ELSE w.latest[d]
      /\ v.current[d] = IF d \in ids THEN None ELSE w.current[d]

(* Deletion: known drafts become stale, and those deleted lose their write. *)
LEMMA DestroyMoves ==
  ASSUME NEW n \in Texts, NEW w, NEW p, Orderly(n, w), NEW known, NEW ids,
         known \subseteq Contexts, known \subseteq ids
  PROVE  LET v == Fence(Outdate(w, known), ids, TRUE, TRUE)
         IN  Moves(n, w, v, p) /\ Destroyed(w, v, known, ids)
<1> DEFINE o == Outdate(w, known)
           v == Fence(o, ids, TRUE, TRUE)
<1>1. w.sequence \in Nat /\ \A d \in Contexts : w.latest[d] \in Nat
  BY DEF Orderly, WritersTo
<1>2. /\ o.sequence = w.sequence + 1 /\ o.current = w.current /\ o.timers = w.timers
      /\ o.intake = w.intake /\ o.unconfirmed = w.unconfirmed /\ o.retained = w.retained
      /\ \A d \in Contexts : o.latest[d] = IF d \in known THEN w.sequence + 1 ELSE w.latest[d]
  BY DEF Outdate, Orderly, WritersTo
<1>3. o \in WritersTo(n)
  <2>1. w.sequence + 1 \in Nat
    BY <1>1, SMTT(30)
  <2>2. \A i \in Nat :
          [w EXCEPT !.sequence = i,
                    !.latest = [d \in Contexts |-> IF d \in known THEN i ELSE @[d]]]
            \in WritersTo(n)
    BY <1>1 DEF Orderly, WritersTo
  <2>3. o = [w EXCEPT !.sequence = w.sequence + 1,
                      !.latest = [d \in Contexts |-> IF d \in known THEN w.sequence + 1 ELSE @[d]]]
    BY DEF Outdate
  <2>4. QED
    BY <2>1, <2>2, <2>3
<1> HIDE DEF o
<1>4. /\ v.sequence = w.sequence + 1 /\ v.latest = o.latest /\ v.intake = w.intake
      /\ v.timers = w.timers \ ids
      /\ \A d \in Contexts : v.current[d] = IF d \in ids THEN None ELSE w.current[d]
      /\ \A d \in Contexts : v.unconfirmed[d] = IF d \in ids THEN 0 ELSE w.unconfirmed[d]
  BY <1>2, <1>3, SMTT(30) DEF Fence, WritersTo
<1>5. v \in WritersTo(n)
  BY <1>3 DEF Fence, WritersTo
<1> HIDE DEF v
<1>6. Coordinated(v)
  BY <1>1, <1>2, <1>4 DEF Coordinated, Orderly
<1>7. Advances(w, v, p)
  BY <1>1, <1>2, <1>4 DEF Advances, Orderly, Coordinated
<1>8. Destroyed(w, v, known, ids)
  BY <1>2, <1>4 DEF Destroyed
<1>9. QED
  BY <1>2, <1>4, <1>5, <1>6, <1>7, <1>8 DEF Moves, Orderly, v, o

-----------------------------------------------------------------------------
(* The session's operations.                                               *)

\* A session of page p that the coordinator serves.
Served(n, m, w, s, p) == Sound(n, w, s, p) /\ Owns(w, s, p) /\ Newest(w, s) /\ Backed(m, w, s)

\* The same page, text and acknowledgement, and the session says the same.
Alike(s, t) ==
    /\ t.open = s.open /\ t.active = s.active /\ t.closing = s.closing
    /\ t.sql = s.sql /\ t.savedSql = s.savedSql /\ t.context = s.context
    /\ t.savedContext = s.savedContext /\ t.state = s.state

LEMMA OwnsTraces ==
  ASSUME NEW w, NEW s, NEW p, Owns(w, s, p), s.open
  PROVE  Traces(w, s, p)
  BY DEF Owns, Traces

LEMMA FreedOwns ==
  ASSUME NEW w, NEW s, NEW p, Freed(w, p)
  PROVE  Owns(w, s, p) /\ Traces(w, s, p)
  BY DEF Freed, Owns, Traces

LEMMA ScheduleServes ==
  ASSUME NEW n \in Texts, NEW m, NEW w, NEW r, NEW s, NEW p \in Pages, NEW d \in Contexts,
         Orderly(n, w), Sound(n, w, s, p), Traces(w, s, p), Newest(w, s), Backed(m, w, s),
         s.open, s.active, w.intake, r.enabled, ~r.suspended, s.sql # 0 => s.bound = d /\ ~s.deleted
  PROVE  LET u == ScheduleSession(w, r, s, p, d)
         IN  /\ Moves(n, w, u.w, p) /\ Served(n, m, u.w, u.s, p)
             /\ Alike(s, u.s)
             /\ u.s.capture = u.w.current[d] /\ u.s.capture # None /\ u.s.capture.draft = d
<1> DEFINE u == ScheduleSession(w, r, s, p, d)
           v == Release(w, s)
           t == Track(v, d, s.sql # 0)
           cap == [draft |-> d, rev |-> t.sequence, sql |-> s.sql, page |-> p, editor |-> s.editor]
           new == [draft |-> d, rev |-> cap.rev]
           x == [t EXCEPT !.current[d] = cap, !.timers = @ \union {d}]
           y == [s EXCEPT !.capture = cap, !.origin = new]
<1>1. u = [w |-> x, s |-> y]
  BY DEF ScheduleSession
<1>2. s \in SessionsTo(n) /\ s.origin \in Origins \union {None}
  BY DEF Sound, SessionsTo
<1>3. Moves(n, w, v, p) /\ Freed(v, p) /\ v.latest = w.latest
  BY <1>2, ReleaseMoves
<1>4. Orderly(n, v)
  BY <1>3 DEF Moves
<1> HIDE DEF v
<1>5. Moves(n, v, t, p)
  BY <1>4, TrackMoves
<1>6. /\ t.sequence = v.sequence + 1 /\ t.latest[d] = t.sequence
      /\ t.current[d] = None /\ t.timers = v.timers \ {d}
      /\ \A e \in Contexts \ {d} : t.current[e] = v.current[e]
  BY <1>4, TrackFields
<1>7. Moves(n, w, t, p)
  BY <1>3, <1>5, AdvanceTwice
<1> HIDE DEF t
<1>8. Orderly(n, t) /\ t.sequence \in Nat /\ 0 < t.sequence /\ t \in WritersTo(n)
  BY <1>4, <1>6, <1>7 DEF Moves, Orderly, WritersTo
<1>9. cap \in CapturesTo(n) /\ new \in Origins
  BY <1>2, <1>8 DEF CapturesTo, SessionsTo, Origins
<1>10. cap # None /\ new # None
  BY <1>9, NoneIsNone
<1>11. /\ x.sequence = t.sequence /\ x.latest = t.latest /\ x.intake = t.intake
       /\ x.unconfirmed = t.unconfirmed /\ x.timers = t.timers \union {d}
       /\ x.current[d] = cap /\ \A e \in Contexts \ {d} : x.current[e] = t.current[e]
  BY <1>8 DEF WritersTo
<1>12. x \in WritersTo(n)
  <2>1. \A c \in CapturesTo(n) : [t EXCEPT !.current[d] = c, !.timers = @ \union {d}] \in WritersTo(n)
    BY <1>8 DEF WritersTo
  <2>2. QED
    BY <1>9, <2>1
<1>13. cap.draft = d /\ cap.rev = t.sequence /\ cap.sql = s.sql /\ cap.page = p /\ cap.editor = s.editor
  OBVIOUS
<1>14. new.draft = d /\ new.rev = t.sequence /\ new = [draft |-> d, rev |-> cap.rev]
  OBVIOUS
<1>15. y \in SessionsTo(n)
  <2>1. \A c \in CapturesTo(n), o \in Origins : [s EXCEPT !.capture = c, !.origin = o] \in SessionsTo(n)
    BY <1>2 DEF SessionsTo
  <2>2. QED
    BY <1>9, <2>1
<1>16. y.capture = cap /\ y.origin = new /\ Acked(y) = Acked(s)
  BY <1>2 DEF Acked, SessionsTo
<1>17. y.open = s.open /\ y.active = s.active /\ y.closing = s.closing /\ y.sql = s.sql
       /\ y.bound = s.bound /\ y.savedContext = s.savedContext /\ y.deleted = s.deleted
       /\ y.editor = s.editor /\ y.overtaken = s.overtaken /\ y.context = s.context
  BY <1>2 DEF SessionsTo
<1>18. Alike(s, y)
  BY <1>2 DEF SessionsTo, Alike
<1> HIDE DEF cap, new, x, y
<1>19. Moves(n, w, x, p)
  <2>1. Coordinated(x)
    BY <1>6, <1>8, <1>10, <1>11, <1>13 DEF Orderly, Coordinated
  <2>2. w.sequence \in Nat /\ v.sequence \in Nat /\ w.sequence <= v.sequence
    BY <1>3 DEF Moves, Advances, Orderly, WritersTo
  <2>3. Advances(w, x, p)
    <3> SUFFICES ASSUME NEW e \in Contexts
                 PROVE  /\ \/ x.latest[e] = w.latest[e] /\ x.current[e] \in {w.current[e], None}
                           \/ x.latest[e] > w.sequence /\ (x.current[e] # None => x.current[e].page = p)
                        /\ e \in x.timers /\ x.current[e] = w.current[e] => e \in w.timers
      BY <1>7, <1>11 DEF Moves, Advances
    <3>1. CASE e # d
      BY <3>1, <1>7, <1>11 DEF Moves, Advances
    <3>2. CASE e = d
      <4>1. x.latest[d] > w.sequence /\ x.current[d] = cap
        BY <1>6, <1>11, <2>2
      <4>2. w.current[d] # None => w.current[d].rev = w.latest[d] /\ w.latest[d] <= w.sequence
        BY DEF Orderly, Coordinated
      <4>3. w.latest[d] \in Nat
        BY DEF Orderly, WritersTo
      <4>4. cap.rev > w.sequence
        BY <1>6, <1>13, <2>2
      <4>5. cap # w.current[d]
        BY <4>2, <4>3, <4>4, <2>2, <1>10
      <4>6. QED
        BY <3>2, <4>1, <4>5, <1>13
    <3>3. QED
      BY <3>1, <3>2
  <2>4. QED
    BY <2>1, <2>3, <1>7, <1>11, <1>12 DEF Moves, Orderly
<1>20. Sound(n, x, y, p)
  BY <1>10, <1>11, <1>13, <1>14, <1>15, <1>16, <1>17, <1>8 DEF Sound, Coherent, Acked
<1>21. Owns(x, y, p)
  BY <1>3, <1>6, <1>11, <1>13, <1>14, <1>16, <1>17 DEF Owns, Freed
<1>22. Newest(x, y)
  BY <1>6, <1>11, <1>14, <1>16, <1>17 DEF Newest, Sound, Coherent, Acked
<1>23. Backed(m, x, y)
  <2>1. SUFFICES ASSUME Kept(x, y) PROVE Backed(m, x, y)
    BY DEF Backed
  <2>2. Kept(w, s) /\ s.savedContext = d
    BY <2>1, <1>16, <1>17 DEF Kept, Newest, Sound, Coherent, Acked
  <2>3. QED
    BY <2>2, <1>11, <1>13, <1>17 DEF Backed
<1>24. u.w = x /\ u.s = y
  BY <1>1
<1>25. Served(n, m, x, y, p)
  BY <1>20, <1>21, <1>22, <1>23 DEF Served
<1> HIDE DEF u
<1>26. QED
  BY <1>10, <1>11, <1>13, <1>16, <1>18, <1>19, <1>24, <1>25 DEF u

(* A move that gives no draft a new revision leaves a session as it was.    *)
LEMMA StaysServed ==
  ASSUME NEW n, NEW m, NEW w, NEW z, NEW p, NEW q, NEW s, Orderly(n, w), Moves(n, w, z, p),
         z.latest = w.latest, Sound(n, w, s, q), Backed(m, w, s)
  PROVE  /\ Sound(n, z, s, q) /\ Backed(m, z, s) /\ Silent(w, z)
         /\ (Newest(w, s) => Newest(z, s))
         /\ (Traces(w, s, q) => Traces(z, s, q)) /\ (Owns(w, s, q) => Owns(z, s, q))
<1>1. Sound(n, z, s, q)
  BY SoundLater
<1>2. Newest(w, s) => Newest(z, s)
  BY DEF Newest
<1>3. Silent(w, z)
  <2>1. ASSUME NEW e \in Contexts PROVE w.latest[e] \in Nat /\ w.sequence \in Nat /\ w.latest[e] <= w.sequence
    BY DEF Orderly, Coordinated, WritersTo
  <2>2. QED
    BY <2>1 DEF Silent, Moves, Advances
<1>4. Backed(m, z, s)
  <2>1. SUFFICES ASSUME Kept(z, s) PROVE Backed(m, z, s)
    BY DEF Backed
  <2>2. Kept(w, s)
    BY <2>1 DEF Kept
  <2>3. s.savedContext \in Contexts
    BY <2>2 DEF Kept, Sound, Coherent, SessionsTo, Origins
  <2>4. QED
    BY <2>2, <2>3, <1>3 DEF Backed, Silent
<1>5. (Traces(w, s, q) => Traces(z, s, q)) /\ (Owns(w, s, q) => Owns(z, s, q))
  BY <1>3 DEF Silent, Traces, Owns
<1>6. QED
  BY <1>1, <1>2, <1>3, <1>4, <1>5

(* Every current write of the page is gone afterwards, if drafts are on.   *)
LEMMA RetainServes ==
  ASSUME NEW n \in Texts, NEW m, NEW w, NEW r, NEW s, NEW p \in Pages,
         Orderly(n, w), Sound(n, w, s, p), Traces(w, s, p), Newest(w, s), Backed(m, w, s),
         s.open, w.intake, r.enabled
  PROVE  LET u == RetainUnscheduled(w, r, s)
         IN  /\ Moves(n, w, u.w, p) /\ Served(n, m, u.w, u.s, p) /\ Silent(w, u.w)
             /\ Alike(s, u.s)
<1> DEFINE u == RetainUnscheduled(w, r, s)
           v == Release(w, s)
           d == Home(s)
           t == Track(v, d, Unsaved(s, d))
           new == [draft |-> d, rev |-> t.sequence]
           y == [s EXCEPT !.origin = new]
<1>1. s \in SessionsTo(n) /\ s.origin \in Origins \union {None}
  BY DEF Sound, SessionsTo
<1>2. Moves(n, w, v, p) /\ Freed(v, p) /\ v.latest = w.latest
  BY <1>1, ReleaseMoves
<1>3. Alike(s, s)
  BY DEF Alike
<1>4. ASSUME NEW z, Moves(n, w, z, p), z.latest = w.latest
      PROVE  Sound(n, z, s, p) /\ Newest(z, s) /\ Backed(m, z, s) /\ Silent(w, z)
  BY <1>4, StaysServed
<1>5. CASE ~s.active \/ (s.origin # None /\ w.latest[s.origin.draft] # s.origin.rev)
  <2>1. u.w = w /\ u.s = s
    BY <1>5 DEF RetainUnscheduled
  <2>2. Freed(w, p)
    <3>1. ASSUME NEW e \in Contexts, w.current[e] # None, w.current[e].page = p PROVE FALSE
      <4>1. s.active /\ s.origin = [draft |-> e, rev |-> w.current[e].rev]
        BY <3>1 DEF Traces
      <4>2. w.current[e].rev = w.latest[e]
        BY <3>1 DEF Orderly, Coordinated
      <4>3. QED
        BY <4>1, <4>2, <1>5
    <3>2. QED
      BY <3>1 DEF Freed
  <2>3. Moves(n, w, w, p)
    BY StandsStill
  <2>4. Owns(w, s, p)
    BY <2>2, FreedOwns
  <2>5. Sound(n, w, s, p) /\ Newest(w, s) /\ Backed(m, w, s) /\ Silent(w, w)
    BY <1>4, <2>3
  <2> HIDE DEF u
  <2>6. QED
    BY <2>1, <2>3, <2>4, <2>5, <1>3 DEF Served, u
<1>6. CASE s.active /\ ~(s.origin # None /\ w.latest[s.origin.draft] # s.origin.rev) /\ s.sql = 0
  <2>1. u.w = v /\ u.s = s
    BY <1>6 DEF RetainUnscheduled
  <2>2. Owns(v, s, p)
    BY <1>2, FreedOwns
  <2>3. Sound(n, v, s, p) /\ Newest(v, s) /\ Backed(m, v, s) /\ Silent(w, v)
    BY <1>2, <1>4
  <2> HIDE DEF u, v
  <2>4. QED
    BY <2>1, <1>2, <2>2, <2>3, <1>3 DEF Served, u
<1>7. CASE s.active /\ ~(s.origin # None /\ w.latest[s.origin.draft] # s.origin.rev) /\ s.sql # 0
  <2>1. u.w = t /\ u.s = y
    BY <1>7 DEF RetainUnscheduled
  <2>2. d = s.bound /\ d \in Contexts
    BY <1>1, <1>7 DEF Home, Sound, Coherent, SessionsTo
  <2>3. Orderly(n, v)
    BY <1>2 DEF Moves
  <2>4. Sound(n, v, s, p) /\ Silent(w, v)
    BY <1>2, <1>4
  <2> HIDE DEF v, d
  <2>5. Moves(n, v, t, p)
    BY <2>2, <2>3, TrackMoves
  <2>6. /\ t.sequence = v.sequence + 1 /\ t.latest[d] = t.sequence /\ t.current[d] = None
        /\ \A e \in Contexts \ {d} : t.current[e] = v.current[e]
    BY <2>2, <2>3, TrackFields
  <2>7. Moves(n, w, t, p)
    BY <1>2, <2>5, AdvanceTwice
  <2> HIDE DEF t
  <2>8. t.sequence \in Nat /\ 0 < t.sequence
    BY <2>3, <2>6 DEF Orderly, WritersTo
  <2>9. new \in Origins /\ new.draft = d /\ new.rev = t.sequence
    BY <2>2, <2>8 DEF Origins
  <2>10. new # None
    BY <2>9, NoneIsNone
  <2>11. y \in SessionsTo(n) /\ y.origin = new /\ Alike(s, y)
    <3>1. \A o \in Origins : [s EXCEPT !.origin = o] \in SessionsTo(n)
      BY <1>1 DEF SessionsTo
    <3>2. QED
      BY <1>1, <2>9, <3>1, ZenonT(60) DEF SessionsTo, Alike
  <2>12. /\ y.open = s.open /\ y.sql = s.sql /\ y.savedSql = s.savedSql /\ y.bound = s.bound
         /\ y.savedContext = s.savedContext /\ y.deleted = s.deleted /\ y.capture = s.capture
         /\ y.overtaken = s.overtaken /\ y.context = s.context
    BY <1>1 DEF SessionsTo
  <2> HIDE DEF new, y
  <2>13. Sound(n, t, y, p)
    BY <2>2, <2>8, <2>9, <2>10, <2>11, <2>12 DEF Sound, Coherent, Acked
  <2>14. Owns(t, y, p)
    <3>1. Freed(t, p)
      BY <1>2, <2>6 DEF Freed
    <3>2. QED
      BY <3>1, FreedOwns
  <2>15. Newest(t, y)
    BY <2>2, <2>6, <2>9, <2>11, <2>12 DEF Newest, Sound, Coherent, Acked
  <2>16. Backed(m, t, y)
    <3>1. SUFFICES ASSUME Kept(t, y) PROVE Backed(m, t, y)
      BY DEF Backed
    <3>2. Kept(w, s) /\ s.savedContext = d
      BY <3>1, <2>2, <2>12 DEF Kept, Newest, Sound, Coherent, Acked
    <3>3. QED
      BY <3>2, <2>6, <2>12 DEF Backed
  <2>17. Silent(w, t)
    BY <2>4, <2>6 DEF Silent
  <2> HIDE DEF u
  <2>18. QED
    BY <2>1, <2>7, <2>11, <2>13, <2>14, <2>15, <2>16, <2>17 DEF Served, u
<1>8. QED
  BY <1>5, <1>6, <1>7

(* What a session says does not change what it has.                        *)
LEMMA SayingServes ==
  ASSUME NEW n \in Texts, NEW m, NEW w, NEW s, NEW p, Served(n, m, w, s, p), NEW state \in States
  PROVE  Served(n, m, w, [s EXCEPT !.state = state], p)
<1> DEFINE y == [s EXCEPT !.state = state]
<1>1. s \in SessionsTo(n)
  BY DEF Served, Sound
<1>2. y \in SessionsTo(n)
  BY <1>1 DEF SessionsTo
<1>3. /\ y.open = s.open /\ y.active = s.active /\ y.closing = s.closing /\ y.sql = s.sql
      /\ y.savedSql = s.savedSql /\ y.bound = s.bound /\ y.savedContext = s.savedContext
      /\ y.deleted = s.deleted /\ y.capture = s.capture /\ y.origin = s.origin
      /\ y.overtaken = s.overtaken /\ y.context = s.context /\ y.editor = s.editor
  BY <1>1 DEF SessionsTo
<1> HIDE DEF y
<1>4. Sound(n, w, y, p)
  BY <1>2, <1>3 DEF Served, Sound, Coherent, Acked
<1>5. Owns(w, y, p)
  BY <1>3 DEF Served, Owns
<1>6. Newest(w, y) /\ Backed(m, w, y)
  BY <1>3 DEF Served, Newest, Backed, Kept, Acked
<1>7. QED
  BY <1>4, <1>5, <1>6 DEF Served, y

(* Both return a coordinator and a session, whose state the caller sets.    *)
LEMMA SayingAfter ==
  ASSUME NEW x, NEW a, NEW c, x = [w |-> a, s |-> c], NEW state
  PROVE  /\ x.w = a /\ x.s = c
         /\ [x EXCEPT !.s.state = state].w = a
         /\ [x EXCEPT !.s.state = state].s = [c EXCEPT !.state = state]
  OBVIOUS

LEMMA ReturnsBoth ==
  ASSUME NEW w, NEW r, NEW s, NEW p, NEW d
  PROVE  /\ \E a, c : ScheduleSession(w, r, s, p, d) = [w |-> a, s |-> c]
         /\ \E a, c : RetainUnscheduled(w, r, s) = [w |-> a, s |-> c]
<1>1. \E a, c : ScheduleSession(w, r, s, p, d) = [w |-> a, s |-> c]
  BY DEF ScheduleSession
<1>2. \E a, c : RetainUnscheduled(w, r, s) = [w |-> a, s |-> c]
  BY DEF RetainUnscheduled
<1>3. QED
  BY <1>1, <1>2

(* What an edit, or the saving of a text again, makes of the session.       *)
LEMMA EditedServes ==
  ASSUME NEW n \in Texts, NEW m, NEW w, NEW r, NEW s, NEW p \in Pages, NEW text \in 0 .. n,
         Orderly(n, w), Served(n, m, w, s, p), s.open, s.active, w.intake,
         r.enabled \in BOOLEAN, text = s.sql \/ text = 0 \/ text # s.savedSql,
         ~r.enabled => Freed(w, p)
  PROVE  LET u == Edited(w, r, s, p, text)
         IN  /\ Moves(n, w, u.w, p) /\ Served(n, m, u.w, u.s, p)
             /\ (~r.enabled \/ r.suspended => Silent(w, u.w))
             /\ u.s.state # "saved" /\ u.s.open /\ u.s.active /\ u.s.closing = s.closing
<1> DEFINE u == Edited(w, r, s, p, text)
           e == Retyped(s, text)
           v == Revoke(w, e)
           b == BlankOrigin(w, s)
<1>1. s \in SessionsTo(n)
  BY DEF Served, Sound
<1>2. Home(s) \in Contexts
  BY <1>1 DEF Home, Served, Sound, Coherent, SessionsTo
<1>3. /\ e.open /\ e.active /\ e.closing = s.closing /\ e.sql = text /\ e.context = s.context
      /\ e.bound = (IF text = 0 THEN None ELSE Home(s)) /\ e.savedSql = s.savedSql
      /\ e.savedContext = s.savedContext /\ e.editor = s.editor + 1 /\ e.deleted = FALSE
      /\ e.capture = s.capture /\ e.origin = s.origin
      /\ e.overtaken = (s.overtaken /\ text = s.sql)
  BY <1>1 DEF Retyped, SessionsTo
<1>4. e \in SessionsTo(n)
  <2>1. s.editor + 1 \in Nat /\ (s.overtaken /\ text = s.sql) \in BOOLEAN
        /\ (IF text = 0 THEN None ELSE Home(s)) \in Contexts \union {None}
    BY <1>1, <1>2 DEF SessionsTo
  <2>2. \A i \in Nat, o \in BOOLEAN, c \in Contexts \union {None} :
          [s EXCEPT !.sql = text, !.editor = i, !.failed = FALSE, !.deleted = FALSE,
                    !.pending = None, !.bound = c, !.overtaken = o] \in SessionsTo(n)
    BY <1>1, ZenonT(60) DEF SessionsTo
  <2>3. QED
    BY <2>1, <2>2 DEF Retyped
<1>5. u = IF ~e.active \/ ~r.enabled THEN [w |-> v, s |-> [e EXCEPT !.state = "off"]]
          ELSE IF r.suspended THEN [RetainUnscheduled(v, r, e) EXCEPT !.s.state = "error"]
          ELSE IF text = 0 /\ b = None
          THEN [w |-> Release(v, e), s |-> [e EXCEPT !.capture = None, !.state = "empty"]]
          ELSE IF text = 0 THEN [ScheduleSession(w, r, e, p, b) EXCEPT !.s.state = "pending"]
          ELSE IF NeedsGuard(e) THEN [RetainUnscheduled(v, r, e) EXCEPT !.s.state = "context_required"]
          ELSE [ScheduleSession(w, r, e, p, e.context) EXCEPT !.s.state = "pending"]
  BY DEF Edited
<1> HIDE DEF e, u
<1>6. /\ Sound(n, w, e, p) /\ Newest(w, e) /\ Backed(m, w, e) /\ Traces(w, e, p)
  <2>1. Acked(e) => Acked(s) /\ e.sql = s.sql /\ e.bound = s.bound /\ (e.overtaken <=> s.overtaken)
    BY <1>1, <1>2, <1>3 DEF Acked, Served, Sound, Coherent, Home, SessionsTo
  <2>2. Sound(n, w, e, p)
    <3>1. e.bound # None <=> e.sql # 0
      BY <1>2, <1>3, NoneIsNone
    <3>2. QED
      BY <1>1, <1>3, <1>4, <2>1, <3>1 DEF Served, Sound, Coherent
  <2>3. Newest(w, e) /\ Backed(m, w, e)
    BY <1>3, <2>1 DEF Served, Newest, Backed, Kept
  <2>4. Traces(w, e, p)
    BY <1>3, OwnsTraces DEF Served, Traces
  <2>5. QED
    BY <2>2, <2>3, <2>4
<1>7. Moves(n, w, v, p) /\ v.latest = w.latest
  BY RevokeMoves
<1>8. Orderly(n, v) /\ v.intake
  BY <1>7 DEF Moves
<1> HIDE DEF v
<1>9. Sound(n, v, e, p) /\ Newest(v, e) /\ Backed(m, v, e) /\ Traces(v, e, p) /\ Silent(w, v)
  BY <1>6, <1>7, StaysServed
<1>10. ASSUME NEW x, Moves(n, v, x, p) PROVE Moves(n, w, x, p)
  BY <1>7, <1>10, AdvanceTwice
<1>11. ASSUME NEW x, Silent(v, x) PROVE Silent(w, x)
  BY <1>9, <1>11 DEF Silent
<1> DEFINE Goal ==
       /\ Moves(n, w, u.w, p) /\ Served(n, m, u.w, u.s, p)
       /\ (~r.enabled \/ r.suspended => Silent(w, u.w))
       /\ u.s.state # "saved" /\ u.s.open /\ u.s.active /\ u.s.closing = s.closing
\* Whatever the coordinator did, the session then says something else.
<1>12. ASSUME NEW x, NEW f \in SessionsTo(n), NEW state \in States \ {"saved"},
             u.w = x, u.s = [f EXCEPT !.state = state],
             Moves(n, w, x, p), Served(n, m, x, f, p), ~r.enabled \/ r.suspended => Silent(w, x),
             f.open, f.active, f.closing = s.closing
      PROVE  Goal
  <2>1. Served(n, m, x, u.s, p)
    BY <1>12, SayingServes
  <2>2. u.s.state = state /\ u.s.open = f.open /\ u.s.active = f.active /\ u.s.closing = f.closing
    BY <1>12 DEF SessionsTo
  <2>3. QED
    BY <1>12, <2>1, <2>2
<1> SUFFICES Goal
  BY DEF u, Goal
<1> HIDE DEF Goal
<1>13. CASE ~r.enabled
  <2>1. u.w = v /\ u.s = [e EXCEPT !.state = "off"]
    BY <1>5, <1>13
  <2>2. Owns(v, e, p)
    BY <1>9, <1>13, FreedOwns DEF Freed, Silent
  <2>3. Served(n, m, v, e, p)
    BY <1>9, <2>2 DEF Served
  <2>4. QED
    BY <1>3, <1>4, <1>7, <1>9, <1>12, <2>1, <2>3 DEF States
<1>14. ASSUME r.enabled, NEW state \in States \ {"saved"}, u = [RetainUnscheduled(v, r, e) EXCEPT !.s.state = state]
      PROVE  Goal
  <2> DEFINE x == RetainUnscheduled(v, r, e)
  <2>1. /\ Moves(n, v, x.w, p) /\ Served(n, m, x.w, x.s, p) /\ Silent(v, x.w)
        /\ Alike(e, x.s)
    BY <1>3, <1>8, <1>9, <1>14, RetainServes
  <2>2. u.w = x.w /\ u.s = [x.s EXCEPT !.state = state]
    <3>1. PICK a, c : x = [w |-> a, s |-> c]
      BY ReturnsBoth
    <3> HIDE DEF x
    <3>2. QED
      BY <1>14, <3>1, SayingAfter DEF x
  <2> HIDE DEF x
  <2>3. x.s \in SessionsTo(n)
    BY <2>1 DEF Served, Sound
  <2>4. x.s.open = e.open /\ x.s.active = e.active /\ x.s.closing = e.closing
    BY <2>1 DEF Alike
  <2>5. QED
    BY <1>3, <1>10, <1>11, <1>12, <1>14, <2>1, <2>2, <2>3, <2>4
<1>15. ASSUME r.enabled, ~r.suspended, NEW d \in Contexts, text # 0 => e.bound = d,
             u = [ScheduleSession(w, r, e, p, d) EXCEPT !.s.state = "pending"]
      PROVE  Goal
  <2> DEFINE x == ScheduleSession(w, r, e, p, d)
  <2>1. /\ Moves(n, w, x.w, p) /\ Served(n, m, x.w, x.s, p)
        /\ Alike(e, x.s)
    <3>1. e.sql # 0 => e.bound = d /\ ~e.deleted
      BY <1>3, <1>15
    <3>2. e.open /\ e.active /\ w.intake
      BY <1>3
    <3>3. Sound(n, w, e, p) /\ Traces(w, e, p) /\ Newest(w, e) /\ Backed(m, w, e)
      BY <1>6
    <3>4. QED
      BY <1>15, <3>1, <3>2, <3>3, ScheduleServes
  <2>2. u.w = x.w /\ u.s = [x.s EXCEPT !.state = "pending"]
    <3>1. PICK a, c : x = [w |-> a, s |-> c]
      BY ReturnsBoth
    <3> HIDE DEF x
    <3>2. QED
      BY <1>15, <3>1, SayingAfter DEF x
  <2> HIDE DEF x
  <2>3. x.s \in SessionsTo(n)
    BY <2>1 DEF Served, Sound
  <2>4. x.s.open = e.open /\ x.s.active = e.active /\ x.s.closing = e.closing
    BY <2>1 DEF Alike
  <2>5. "pending" \in States \ {"saved"} /\ x.s.closing = s.closing /\ x.s.open /\ x.s.active
    BY <1>3, <2>4 DEF States
  <2>6. QED
    BY <1>12, <1>15, <2>1, <2>2, <2>3, <2>5
<1>16. CASE r.enabled /\ r.suspended
  BY <1>3, <1>5, <1>14, <1>16 DEF States
<1>17. CASE r.enabled /\ ~r.suspended /\ text = 0 /\ b = None
  <2> DEFINE x == Release(v, e)
             f == [e EXCEPT !.capture = None]
  <2>1. u.w = x /\ u.s = [f EXCEPT !.state = "empty"]
    BY <1>3, <1>5, <1>17
  <2>2. Moves(n, v, x, p) /\ x.latest = v.latest /\ Freed(x, p)
    <3>1. e.origin \in Origins \union {None}
      BY <1>4 DEF SessionsTo
    <3>2. QED
      BY <1>8, <1>9, <3>1, ReleaseMoves
  <2> HIDE DEF x
  <2>3. Sound(n, x, e, p) /\ Newest(x, e) /\ Backed(m, x, e) /\ Silent(v, x)
    BY <1>8, <1>9, <2>2, StaysServed
  <2>4. f \in SessionsTo(n) /\ f.capture = None
    BY <1>4 DEF SessionsTo
  <2>5. /\ f.open = e.open /\ f.active = e.active /\ f.closing = e.closing /\ f.sql = e.sql
        /\ f.savedSql = e.savedSql /\ f.bound = e.bound /\ f.savedContext = e.savedContext
        /\ f.deleted = e.deleted /\ f.origin = e.origin
        /\ f.overtaken = e.overtaken /\ f.context = e.context /\ f.editor = e.editor
    BY <1>4 DEF SessionsTo
  <2> HIDE DEF f
  <2>6. Sound(n, x, f, p)
    BY <2>3, <2>4, <2>5 DEF Sound, Coherent, Acked
  <2>7. Newest(x, f) /\ Backed(m, x, f)
    BY <2>3, <2>5 DEF Newest, Backed, Kept, Acked
  <2>8. Owns(x, f, p)
    BY <2>2, FreedOwns
  <2>9. Served(n, m, x, f, p)
    BY <2>6, <2>7, <2>8 DEF Served
  <2>10. Moves(n, w, x, p) /\ Silent(w, x)
    BY <1>10, <1>11, <2>2, <2>3
  <2>11. "empty" \in States \ {"saved"} /\ f.closing = s.closing /\ f.open /\ f.active
    BY <1>3, <2>5 DEF States
  <2>12. QED
    BY <1>12, <2>1, <2>4, <2>9, <2>10, <2>11
<1>18. CASE r.enabled /\ ~r.suspended /\ text = 0 /\ b # None
  <2>1. b \in Contexts
    BY <1>1, <1>18 DEF BlankOrigin, Holds, SessionsTo, CapturesTo
  <2>2. u = [ScheduleSession(w, r, e, p, b) EXCEPT !.s.state = "pending"]
    BY <1>3, <1>5, <1>18
  <2> HIDE DEF b
  <2>3. QED
    BY <1>15, <1>18, <2>1, <2>2
<1>19. CASE r.enabled /\ ~r.suspended /\ text # 0 /\ NeedsGuard(e)
  BY <1>3, <1>5, <1>14, <1>19 DEF States
<1>20. CASE r.enabled /\ ~r.suspended /\ text # 0 /\ ~NeedsGuard(e)
  <2>1. u = [ScheduleSession(w, r, e, p, e.context) EXCEPT !.s.state = "pending"]
    BY <1>3, <1>5, <1>20
  <2>2. e.context \in Contexts
    BY <1>3, <1>6 DEF Sound, Coherent
  <2>3. e.bound = e.context
    BY <1>2, <1>3, <1>20, NoneIsNone DEF NeedsGuard
  <2>4. QED
    BY <1>15, <1>20, <2>1, <2>2, <2>3
<1>21. QED
  BY <1>13, <1>16, <1>17, <1>18, <1>19, <1>20

(* A restored editor that becomes the live one is served like any other.    *)
LEMMA ClaimServes ==
  ASSUME NEW n \in Texts, NEW m, NEW w, NEW r, NEW s0, NEW p \in Pages,
         Orderly(n, w), Sound(n, w, s0, p), Backed(m, w, s0), Freed(w, p),
         s0.open, s0.active, w.intake
  PROVE  LET u == Claim(w, r, s0, p)
         IN  /\ Moves(n, w, u.w, p) /\ Served(n, m, u.w, u.s, p)
             /\ (~r.enabled \/ r.suspended => Silent(w, u.w))
             /\ (Honest(s0) => Honest(u.s)) /\ (Meant(s0) => Meant(u.s))
             /\ u.s.open /\ u.s.active /\ u.s.closing = s0.closing
<1> DEFINE u == Claim(w, r, s0, p)
           s == [s0 EXCEPT !.transferred = FALSE]
           c == IF s.sql = 0 /\ s.pending # None THEN s.pending ELSE Home(s)
           Goal == /\ Moves(n, w, u.w, p) /\ Served(n, m, u.w, u.s, p)
                   /\ (~r.enabled \/ r.suspended => Silent(w, u.w))
                   /\ (Honest(s0) => Honest(u.s)) /\ (Meant(s0) => Meant(u.s))
                   /\ u.s.open /\ u.s.active /\ u.s.closing = s0.closing
<1>1. s0 \in SessionsTo(n)
  BY DEF Sound
<1>2. s \in SessionsTo(n)
  BY <1>1 DEF SessionsTo
<1>3. /\ Alike(s0, s) /\ s.bound = s0.bound /\ s.capture = s0.capture /\ s.origin = s0.origin
      /\ s.deleted = s0.deleted /\ s.overtaken = s0.overtaken
  BY <1>1 DEF SessionsTo, Alike
<1>4. u = IF ~r.enabled
          THEN [w |-> w, s |-> [s EXCEPT !.overtaken = @ \/ Superseded(w, s)]]
          ELSE IF ~w.intake \/ s.deleted THEN [w |-> w, s |-> s]
          ELSE IF Superseded(w, s)
          THEN IF s.sql = 0 THEN [w |-> w, s |-> s]
               ELSE [w |-> Retain(w, s.origin),
                     s |-> [s EXCEPT !.savedSql = 0, !.savedContext = None, !.failed = TRUE,
                                     !.origin.rev = Retain(w, s.origin).sequence,
                                     !.state = IF NeedsGuard(s)
                                               THEN "context_required" ELSE "error"]]
          ELSE IF s.state = "pending" /\ ~r.suspended /\ ~NeedsGuard(s)
          THEN ScheduleSession(w, r, s, p, c)
          ELSE RetainUnscheduled(w, r, s)
  BY DEF Claim
<1> SUFFICES Goal
  BY DEF u, Goal
<1> HIDE DEF s, u
<1>5. Sound(n, w, s, p) /\ Backed(m, w, s) /\ Traces(w, s, p) /\ Owns(w, s, p)
  <2>1. Sound(n, w, s, p)
    BY <1>2, <1>3 DEF Sound, Coherent, Acked, Alike
  <2>2. Backed(m, w, s)
    BY <1>3 DEF Backed, Kept, Acked, Alike
  <2>3. QED
    BY <2>1, <2>2, FreedOwns
<1>6. /\ (Honest(s0) => Honest(s)) /\ (Meant(s0) => Meant(s))
      /\ s.open /\ s.active /\ s.closing = s0.closing
  BY <1>3 DEF Honest, Meant, Acked, Alike
<1>7. Moves(n, w, w, p) /\ Silent(w, w)
  BY StandsStill DEF Silent
<1>8. ASSUME u.w = w, u.s = s, Newest(w, s) PROVE Goal
  BY <1>5, <1>6, <1>7, <1>8 DEF Served
<1>9. ASSUME NEW x, NEW y, Alike(s, y)
      PROVE  /\ (Honest(s0) => Honest(y)) /\ (Meant(s0) => Meant(y))
             /\ y.open /\ y.active /\ y.closing = s0.closing
  BY <1>6, <1>9 DEF Honest, Meant, Acked, Alike
<1>10. ~Superseded(w, s) => Newest(w, s)
  BY <1>5 DEF Superseded, Newest, Sound, Coherent
<1>11. CASE ~r.enabled
  <2> DEFINE o == (s.overtaken \/ Superseded(w, s))
             y == [s EXCEPT !.overtaken = o]
  <2>1. u.w = w /\ u.s = y
    BY <1>4, <1>11
  <2>2. o \in BOOLEAN /\ (~o => ~Superseded(w, s) /\ ~s.overtaken)
    BY <1>2 DEF SessionsTo
  <2> HIDE DEF o
  <2>3. y \in SessionsTo(n)
    BY <1>2, <2>2 DEF SessionsTo
  <2>4. /\ Alike(s, y) /\ y.bound = s.bound /\ y.capture = s.capture /\ y.origin = s.origin
        /\ y.deleted = s.deleted /\ y.overtaken = o
    BY <1>2 DEF SessionsTo, Alike
  <2> HIDE DEF y
  <2>5. Sound(n, w, y, p)
    BY <1>5, <2>3, <2>4 DEF Sound, Coherent, Acked, Alike
  <2>6. Newest(w, y)
    BY <1>10, <2>2, <2>4 DEF Newest, Acked, Alike
  <2>7. Backed(m, w, y)
    BY <1>5, <2>2, <2>4 DEF Backed, Kept, Acked, Alike
  <2>8. Owns(w, y, p)
    BY FreedOwns
  <2>9. QED
    BY <1>7, <1>9, <2>1, <2>4, <2>5, <2>6, <2>7, <2>8 DEF Served
<1>12. CASE r.enabled /\ s.deleted
  <2>1. Newest(w, s)
    BY <1>5, <1>12 DEF Newest, Sound, Coherent
  <2>2. QED
    BY <1>4, <1>8, <1>12, <2>1
<1>13. CASE r.enabled /\ ~s.deleted /\ Superseded(w, s) /\ s.sql = 0
  <2>1. Newest(w, s)
    BY <1>13 DEF Newest, Acked
  <2>2. QED
    BY <1>4, <1>8, <1>13, <2>1
<1>14. CASE r.enabled /\ ~s.deleted /\ Superseded(w, s) /\ s.sql # 0
  <2> DEFINE t == Retain(w, s.origin)
             state == IF NeedsGuard(s) THEN "context_required" ELSE "error"
             y == [s EXCEPT !.savedSql = 0, !.savedContext = None, !.failed = TRUE,
                            !.origin.rev = t.sequence, !.state = state]
  <2>1. u.w = t /\ u.s = y
    BY <1>4, <1>14
  <2>2. s.origin \in Origins
    BY <1>2, <1>14 DEF SessionsTo, Superseded
  <2>3. /\ Moves(n, w, t, p) /\ t.latest = w.latest /\ t.current = w.current
        /\ t.sequence = w.sequence + 1
    BY <2>2, RetainMoves
  <2> HIDE DEF t
  <2>4. t.sequence \in Nat /\ 0 < t.sequence /\ state \in States /\ state # "saved"
    BY <2>3 DEF Orderly, WritersTo, States
  <2> HIDE DEF state
  <2>5. [s.origin EXCEPT !.rev = t.sequence] \in Origins
    BY <2>2, <2>4 DEF Origins
  <2>6. [s.origin EXCEPT !.rev = t.sequence].rev = t.sequence
    BY <2>2 DEF Origins
  <2>7. y \in SessionsTo(n)
    <3>1. \A o \in Origins, i \in 0 .. n, k \in States :
            [s EXCEPT !.savedSql = i, !.savedContext = None, !.failed = TRUE,
                      !.origin = o, !.state = k] \in SessionsTo(n)
      BY <1>2 DEF SessionsTo
    <3>2. 0 \in 0 .. n
      BY DraftParameters DEF Texts
    <3>3. y = [s EXCEPT !.savedSql = 0, !.savedContext = None, !.failed = TRUE,
                        !.origin = [s.origin EXCEPT !.rev = t.sequence], !.state = state]
      BY <1>2 DEF SessionsTo
    <3>4. QED
      BY <2>4, <2>5, <3>1, <3>2, <3>3
  <2>8. /\ y.open = s.open /\ y.active = s.active /\ y.closing = s.closing /\ y.sql = s.sql
        /\ y.context = s.context /\ y.bound = s.bound /\ y.capture = s.capture
        /\ y.savedSql = 0 /\ y.state = state /\ y.origin.rev = t.sequence
    BY <1>2, <2>2, <2>6 DEF SessionsTo
  <2> HIDE DEF y
  <2>9. ~Acked(y)
    BY <1>14, <2>8 DEF Acked
  <2>10. Sound(n, t, y, p)
    BY <1>5, <2>4, <2>7, <2>8, <2>9 DEF Sound, Coherent
  <2>11. Newest(t, y) /\ Backed(m, t, y)
    BY <2>9 DEF Newest, Backed, Kept
  <2>12. Owns(t, y, p)
    <3>1. Freed(t, p)
      BY <2>3 DEF Freed
    <3>2. QED
      BY <3>1, FreedOwns
  <2>13. Silent(w, t)
    BY <2>3 DEF Silent
  <2>14. Honest(y) /\ Meant(y)
    BY <2>4, <2>8 DEF Honest, Meant
  <2>15. QED
    BY <1>6, <2>1, <2>3, <2>8, <2>10, <2>11, <2>12, <2>13, <2>14 DEF Served
<1>15. CASE r.enabled /\ ~s.deleted /\ ~Superseded(w, s) /\ s.state = "pending" /\ ~r.suspended /\ ~NeedsGuard(s)
  <2>1. u = ScheduleSession(w, r, s, p, c)
    BY <1>4, <1>15
  <2>2. c \in Contexts /\ (s.sql # 0 => s.bound = c)
    BY <1>2, <1>5, <1>6 DEF Sound, Coherent, SessionsTo, Home
  <2> HIDE DEF c
  <2>3. Moves(n, w, u.w, p) /\ Served(n, m, u.w, u.s, p) /\ Alike(s, u.s)
    BY <1>5, <1>6, <1>10, <1>15, <2>1, <2>2, ScheduleServes
  <2>4. QED
    BY <1>9, <1>15, <2>3
<1>16. CASE r.enabled /\ ~s.deleted /\ ~Superseded(w, s) /\ ~(s.state = "pending" /\ ~r.suspended /\ ~NeedsGuard(s))
  <2>1. u = RetainUnscheduled(w, r, s)
    BY <1>4, <1>16
  <2>2. Moves(n, w, u.w, p) /\ Served(n, m, u.w, u.s, p) /\ Silent(w, u.w) /\ Alike(s, u.s)
    BY <1>5, <1>6, <1>10, <1>16, <2>1, RetainServes
  <2>3. QED
    BY <1>9, <2>2
<1>17. QED
  BY <1>11, <1>12, <1>13, <1>14, <1>15, <1>16

\* A page that goes away has nothing to start.
StartsNothing(w, s, u) == u.w = w /\ u.s = s /\ u.jobs = << >>

\* Or else the coordinator is at v by then, and its timer for d stops: if it ran,
\* the write is the page's only job.
StartsFrom(n, m, w, r, s, p, u, v, d) ==
    /\ Moves(n, w, v, p) /\ Served(n, m, v, u.s, p) /\ Alike(s, u.s) /\ s.active
    /\ (~r.enabled \/ r.suspended => Silent(w, v))
    /\ u.w = Launch(v, {d})
    /\ u.jobs = IF d \in v.timers THEN <<WriteJob(v.current[d])>> ELSE << >>

(* A page that goes away starts the write it waits for, or a new one after  *)
(* a failed one, if it still holds the draft; otherwise nothing happens.    *)
LEMMA PrepareFinalServes ==
  ASSUME NEW n \in Texts, NEW m, NEW w, NEW r, NEW s, NEW p \in Pages,
         Orderly(n, w), Sound(n, w, s, p), Owns(w, s, p), Backed(m, w, s), s.open
  PROVE  LET u == PrepareFinal(w, r, s, p)
         IN  \/ StartsNothing(w, s, u)
             \/ \E v : \E d \in Contexts : StartsFrom(n, m, w, r, s, p, u, v, d)
<1> DEFINE u == PrepareFinal(w, r, s, p)
           cap == s.capture
           f == IF s.failed THEN ScheduleSession(w, r, s, p, cap.draft) ELSE [w |-> w, s |-> s]
           d == f.s.capture.draft
           Some == \E v : \E e \in Contexts : StartsFrom(n, m, w, r, s, p, u, v, e)
<1> SUFFICES StartsNothing(w, s, u) \/ Some
  OBVIOUS
<1>1. CASE ~w.intake \/ r.suspended \/ s.deleted \/ ~Holds(w, cap) \/ cap.editor # s.editor
  BY <1>1 DEF PrepareFinal, StartsNothing
<1>2. CASE ~(~w.intake \/ r.suspended \/ s.deleted \/ ~Holds(w, cap) \/ cap.editor # s.editor)
  <2>1. u = [w |-> Launch(f.w, {d}), s |-> f.s,
             jobs |-> IF d \in f.w.timers THEN <<WriteJob(f.s.capture)>> ELSE << >>]
    BY <1>2 DEF PrepareFinal
  <2>2. s \in SessionsTo(n) /\ cap \in CapturesTo(n) /\ cap # None /\ w.current[cap.draft] = cap
    BY <1>2 DEF Sound, SessionsTo, Holds
  <2>3. cap.draft \in Contexts /\ cap.page = p
    BY <2>2 DEF CapturesTo, Sound
  <2>4. /\ s.active /\ s.sql = cap.sql /\ s.origin = [draft |-> cap.draft, rev |-> cap.rev]
        /\ (s.sql # 0 => s.bound = cap.draft)
    BY <2>2, <2>3 DEF Owns
  <2>5. cap.rev = w.latest[cap.draft]
    BY <2>2, <2>3 DEF Orderly, Coordinated
  <2>6. Newest(w, s)
    BY <2>4, <2>5, SMTT(30) DEF Newest, Sound, Coherent
  <2>7. /\ Moves(n, w, f.w, p) /\ Served(n, m, f.w, f.s, p) /\ Alike(s, f.s)
        /\ (~r.enabled \/ r.suspended => Silent(w, f.w))
        /\ f.s.capture = f.w.current[d] /\ d \in Contexts
    <3>1. CASE f.w = w /\ f.s = s
      <4>1. Alike(s, s) /\ Moves(n, w, w, p) /\ Silent(w, w)
        BY StandsStill DEF Alike, Silent
      <4>2. Served(n, m, w, s, p)
        BY <2>6 DEF Served
      <4> HIDE DEF f
      <4>3. QED
        BY <2>2, <2>3, <3>1, <4>1, <4>2
    <3>2. CASE s.failed /\ r.enabled
      <4>1. f = ScheduleSession(w, r, s, p, cap.draft)
        BY <3>2
      <4>2. Traces(w, s, p)
        BY OwnsTraces
      <4>3. /\ Moves(n, w, f.w, p) /\ Served(n, m, f.w, f.s, p) /\ Alike(s, f.s)
            /\ f.s.capture = f.w.current[cap.draft] /\ f.s.capture # None /\ f.s.capture.draft = cap.draft
        BY <1>2, <2>3, <2>4, <2>6, <3>2, <4>1, <4>2, ScheduleServes
      <4> HIDE DEF f
      <4>4. QED
        BY <1>2, <2>3, <3>2, <4>3
    <3>3. CASE ~s.failed
      <4>1. f = [w |-> w, s |-> s]
        BY <3>3
      <4> HIDE DEF f
      <4>2. QED
        BY <3>1, <4>1
    <3>4. CASE s.failed /\ ~r.enabled
      <4>1. f = [w |-> w, s |-> s]
        BY <3>4 DEF ScheduleSession
      <4> HIDE DEF f
      <4>2. QED
        BY <3>1, <4>1
    <3>5. QED
      BY <3>2, <3>3, <3>4
  <2> HIDE DEF f
  <2>8. u.w = Launch(f.w, {d}) /\ u.s = f.s
        /\ u.jobs = IF d \in f.w.timers THEN <<WriteJob(f.w.current[d])>> ELSE << >>
    BY <2>1, <2>7
  <2> HIDE DEF u, d
  <2>9. Some
    BY <2>4, <2>7, <2>8 DEF StartsFrom
  <2> HIDE DEF Some
  <2>10. QED
    BY <2>9
<1>3. QED
  BY <1>1, <1>2

-----------------------------------------------------------------------------
(* The inductive invariant, as a property of the coordinator w, the        *)
(* worker's side m, the preference r, the sessions and the snapshot.       *)

Stored(n, m) ==
    /\ m.disk \in [Contexts -> 0 .. n] /\ m.entered \in BOOLEAN
    /\ m.queue \in Seq(JobsTo(n)) /\ m.results \in Seq(ResultsTo(n))
    /\ m.entered => m.queue # << >> /\ m.queue[1].op = "write"

\* A write in line has its own draft only; while it is wanted nothing behind it
\* touches that draft; and no timer will start it again.
Lined(w, m) ==
    \A i \in DOMAIN m.queue : m.queue[i].op = "write" =>
      LET cap == m.queue[i].capture
      IN  /\ cap.rev <= w.sequence /\ m.queue[i].ids = {cap.draft}
          /\ Holds(w, cap) => \A j \in DOMAIN m.queue : i < j => cap.draft \notin m.queue[j].ids
          /\ \A d \in w.timers : cap # w.current[d]

\* The answer to a write that is still wanted is true of the disk, and nothing in
\* line touches its draft.
Awaited(w, m) ==
    \A i \in DOMAIN m.results : m.results[i].job.op = "write" =>
      LET cap == m.results[i].job.capture
      IN  /\ cap.rev <= w.sequence
          /\ Holds(w, cap) =>
               /\ \A j \in DOMAIN m.queue : cap.draft \notin m.queue[j].ids
               /\ m.results[i].code = "ok" => m.disk[cap.draft] = cap.sql
          /\ \A d \in w.timers : cap # w.current[d]

\* At most one request is with the worker, and while it is to change the
\* preference, saving is suspended.
Asked(job, r) ==
    job.op # "write" => r.busy /\ (job.op \in {"disable", "enable"} => r.suspended)

Requested(m, r) ==
    /\ \A i \in DOMAIN m.queue : m.queue[i].op # "write" =>
         /\ Asked(m.queue[i], r)
         /\ \A j \in DOMAIN m.queue : m.queue[j].op # "write" => i = j
         /\ \A j \in DOMAIN m.results : m.results[j].job.op = "write"
    /\ \A i \in DOMAIN m.results : m.results[i].job.op # "write" =>
         /\ Asked(m.results[i].job, r)
         /\ \A j \in DOMAIN m.results : m.results[j].job.op # "write" => i = j

\* While drafts are off or saving is suspended no write is current.
Quiet(w, r) == r.suspended \/ ~r.enabled => \A d \in Contexts : w.current[d] = None

\* A page, open or not: the live one is newest, and one that says "saved" means
\* its own text in its own context, unless it is live while drafts are off.
Tended(n, m, w, r, s, p) ==
    /\ Sound(n, w, s, p) /\ Owns(w, s, p) /\ Backed(m, w, s)
    /\ s.open => Meant(s)
    /\ s.open /\ s.active => Newest(w, s)
    /\ s.open /\ (r.enabled \/ ~s.active) => Honest(s)

\* The snapshot is a session that a page may take over.
Carried(n, m, w, x) ==
    x # None => /\ x \in [page : Nat, s : SessionsTo(n)]
                /\ x.s.capture = None /\ Sound(n, w, x.s, x.page) /\ Backed(m, w, x.s)
                /\ Honest(x.s) /\ x.s.open

OneLive(ss) ==
    \A p, q \in Pages : ss[p].open /\ ss[p].active /\ ss[q].open /\ ss[q].active => p = q

InvOf(n, w, m, r, ss, x) ==
    /\ Orderly(n, w) /\ Stored(n, m) /\ Lined(w, m) /\ Awaited(w, m)
    /\ r \in Preferences /\ Requested(m, r) /\ Quiet(w, r)
    /\ ss \in [Pages -> SessionsTo(n)] /\ OneLive(ss)
    /\ \A p \in Pages : Tended(n, m, w, r, ss[p], p)
    /\ Carried(n, m, w, x)

IInv ==
    /\ edits \in 0 .. MaxEdits /\ allowed \in BOOLEAN
    /\ report \in [phase : {"open", "draining", "done"}, count : 0 .. Cardinality(Contexts)]
    /\ Running => writer.intake
    /\ InvOf(edits + 1, writer, Line, pref, session, snapshot)

-----------------------------------------------------------------------------
(* How the parts follow the coordinator.                                   *)

\* A write that is known is not held again, nor timed again.
LEMMA NotRevived ==
  ASSUME NEW n, NEW w, NEW v, NEW p, Orderly(n, w), Moves(n, w, v, p),
         NEW cap \in CapturesTo(n), cap.rev <= w.sequence
  PROVE  /\ Holds(v, cap) => Holds(w, cap) /\ v.latest[cap.draft] = w.latest[cap.draft]
         /\ (\A d \in w.timers : cap # w.current[d]) => \A d \in v.timers : cap # v.current[d]
<1>1. w.sequence \in Nat /\ v.sequence \in Nat /\ cap.rev \in Nat /\ cap.draft \in Contexts
  BY DEF Moves, Orderly, WritersTo, CapturesTo
<1>2. ASSUME NEW d \in Contexts, v.current[d] = cap, cap # None
      PROVE  w.current[d] = cap /\ v.latest[d] = w.latest[d] /\ cap.draft = d
  <2>1. cap.rev = v.latest[d] /\ cap.draft = d
    BY <1>2 DEF Moves, Orderly, Coordinated
  <2>2. v.latest[d] \in Nat
    BY DEF Moves, Orderly, WritersTo
  <2>3. QED
    BY <1>1, <1>2, <2>1, <2>2 DEF Moves, Advances
<1>3. Holds(v, cap) => Holds(w, cap) /\ v.latest[cap.draft] = w.latest[cap.draft]
  BY <1>1, <1>2 DEF Holds
<1>4. ASSUME \A d \in w.timers : cap # w.current[d], NEW d \in v.timers, cap = v.current[d] PROVE FALSE
  <2>1. d \in Contexts /\ cap # None
    BY <1>4 DEF Moves, Orderly, WritersTo, Coordinated
  <2>2. w.current[d] = cap
    BY <1>2, <1>4, <2>1
  <2>3. d \in w.timers
    BY <1>4, <2>1, <2>2 DEF Moves, Advances
  <2>4. QED
    BY <1>4, <2>2, <2>3
<1>5. QED
  BY <1>3, <1>4

LEMMA JobsAndResults ==
  ASSUME NEW n, NEW m, Stored(n, m)
  PROVE  /\ \A i \in DOMAIN m.queue :
              /\ m.queue[i] \in JobsTo(n)
              /\ m.queue[i].op = "write" => m.queue[i].capture \in CapturesTo(n)
         /\ \A i \in DOMAIN m.results :
              /\ m.results[i] \in ResultsTo(n) /\ m.results[i].job \in JobsTo(n)
              /\ m.results[i].job.op = "write" => m.results[i].job.capture \in CapturesTo(n)
<1>1. \A i \in DOMAIN m.queue : m.queue[i] \in JobsTo(n)
  BY DEF Stored
<1>2. \A i \in DOMAIN m.results : m.results[i] \in ResultsTo(n) /\ m.results[i].job \in JobsTo(n)
  <2>1. \A x \in ResultsTo(n) : x.job \in JobsTo(n)
    BY DEF ResultsTo
  <2>2. QED
    BY <2>1 DEF Stored
<1>3. \A j \in JobsTo(n) : j.op = "write" => j.capture \in CapturesTo(n)
  BY DEF JobsTo
<1>4. QED
  BY <1>1, <1>2, <1>3

LEMMA LineMoves ==
  ASSUME NEW n, NEW m, NEW w, NEW v, NEW p, Orderly(n, w), Moves(n, w, v, p), Stored(n, m),
         Lined(w, m), Awaited(w, m)
  PROVE  Lined(v, m) /\ Awaited(v, m)
<1>1. w.sequence \in Nat /\ v.sequence \in Nat /\ w.sequence <= v.sequence
  BY DEF Moves, Advances, Orderly, WritersTo
<1>2. \A cap \in CapturesTo(n) : cap.rev <= w.sequence => cap.rev <= v.sequence
  BY <1>1 DEF CapturesTo
<1>3. Lined(v, m)
  <2> SUFFICES ASSUME NEW i \in DOMAIN m.queue, m.queue[i].op = "write", NEW cap, cap = m.queue[i].capture
               PROVE  /\ cap.rev <= v.sequence /\ m.queue[i].ids = {cap.draft}
                      /\ Holds(v, cap) => \A j \in DOMAIN m.queue : i < j => cap.draft \notin m.queue[j].ids
                      /\ \A d \in v.timers : cap # v.current[d]
    BY DEF Lined
  <2>1. cap \in CapturesTo(n)
    BY JobsAndResults
  <2>2. /\ cap.rev <= w.sequence /\ m.queue[i].ids = {cap.draft}
        /\ Holds(w, cap) => \A j \in DOMAIN m.queue : i < j => cap.draft \notin m.queue[j].ids
        /\ \A d \in w.timers : cap # w.current[d]
    BY DEF Lined
  <2>3. QED
    BY <1>2, <2>1, <2>2, NotRevived
<1>4. Awaited(v, m)
  <2> SUFFICES ASSUME NEW i \in DOMAIN m.results, m.results[i].job.op = "write",
                      NEW cap, cap = m.results[i].job.capture
               PROVE  /\ cap.rev <= v.sequence
                      /\ Holds(v, cap) =>
                           /\ \A j \in DOMAIN m.queue : cap.draft \notin m.queue[j].ids
                           /\ m.results[i].code = "ok" => m.disk[cap.draft] = cap.sql
                      /\ \A d \in v.timers : cap # v.current[d]
    BY DEF Awaited
  <2>1. cap \in CapturesTo(n)
    BY JobsAndResults
  <2>2. /\ cap.rev <= w.sequence
        /\ Holds(w, cap) =>
             /\ \A j \in DOMAIN m.queue : cap.draft \notin m.queue[j].ids
             /\ m.results[i].code = "ok" => m.disk[cap.draft] = cap.sql
        /\ \A d \in w.timers : cap # w.current[d]
    BY DEF Awaited
  <2>3. QED
    BY <1>2, <2>1, <2>2, NotRevived
<1>5. QED
  BY <1>3, <1>4

(* What a session that nobody acts for may rely on.                        *)
LEMMA BackedMoves ==
  ASSUME NEW n, NEW m, NEW w, NEW v, NEW p, NEW q, NEW s, Orderly(n, w), Moves(n, w, v, p),
         Sound(n, w, s, q), Backed(m, w, s)
  PROVE  Backed(m, v, s)
<1>1. SUFFICES ASSUME Kept(v, s) PROVE Backed(m, v, s)
  BY DEF Backed
<1> DEFINE d == s.savedContext
<1>2. /\ d \in Contexts /\ v.latest[d] = s.origin.rev /\ s.origin.rev <= w.sequence
      /\ s.origin.rev \in Nat /\ w.sequence \in Nat
  BY <1>1 DEF Kept, Sound, Coherent, SessionsTo, Origins, Orderly, WritersTo
<1>3. v.latest[d] = w.latest[d] /\ v.current[d] \in {w.current[d], None}
  BY <1>2 DEF Moves, Advances
<1>4. Kept(w, s)
  BY <1>1, <1>3 DEF Kept
<1>5. QED
  BY <1>3, <1>4 DEF Backed

LEMMA OthersTended ==
  ASSUME NEW n, NEW m, NEW w, NEW v, NEW r, NEW z, NEW p, NEW q, NEW s, p # q,
         Orderly(n, w), Moves(n, w, v, p), Tended(n, m, w, r, s, q),
         s.open /\ s.active => v.latest = w.latest /\ (z.enabled => r.enabled)
  PROVE  Tended(n, m, v, z, s, q)
<1>1. Sound(n, v, s, q)
  BY SoundLater DEF Tended
<1>2. Backed(m, v, s)
  BY BackedMoves DEF Tended
<1>3. Owns(v, s, q)
  <2>1. \A d \in Contexts : v.current[d] # None /\ v.current[d].page = q => v.current[d] = w.current[d]
    BY DEF Moves, Advances
  <2>2. QED
    BY <2>1 DEF Tended, Owns
<1>4. s.open /\ s.active => Newest(v, s)
  BY DEF Tended, Newest
<1>5. s.open /\ (z.enabled \/ ~s.active) => Honest(s)
  BY DEF Tended
<1>6. QED
  BY <1>1, <1>2, <1>3, <1>4, <1>5 DEF Tended

LEMMA CarriedMoves ==
  ASSUME NEW n, NEW m, NEW w, NEW v, NEW p, NEW x, Orderly(n, w), Moves(n, w, v, p), Carried(n, m, w, x)
  PROVE  Carried(n, m, v, x)
<1>1. SUFFICES ASSUME x # None PROVE Sound(n, v, x.s, x.page) /\ Backed(m, v, x.s)
  BY DEF Carried
<1>2. Sound(n, w, x.s, x.page) /\ Backed(m, w, x.s)
  BY <1>1 DEF Carried
<1>3. QED
  BY <1>2, SoundLater, BackedMoves

(* A step of page p that leaves the line alone.                            *)
LEMMA PageMoves ==
  ASSUME NEW n, NEW m, NEW w, NEW v, NEW r, NEW z, NEW ss, NEW x, NEW p \in Pages, NEW t,
         InvOf(n, w, m, r, ss, x), Moves(n, w, v, p), Tended(n, m, v, z, t, p),
         z \in Preferences, Requested(m, z), Quiet(v, z),
         \A q \in Pages \ {p} : ss[q].open /\ ss[q].active =>
           v.latest = w.latest /\ (z.enabled => r.enabled) /\ ~(t.open /\ t.active)
  PROVE  InvOf(n, v, m, z, [ss EXCEPT ![p] = t], x)
<1> DEFINE tt == [ss EXCEPT ![p] = t]
<1>1. Orderly(n, w) /\ Orderly(n, v)
  BY DEF InvOf, Moves
<1>2. Stored(n, m) /\ Lined(v, m) /\ Awaited(v, m)
  BY <1>1, LineMoves DEF InvOf
<1>3. t \in SessionsTo(n)
  BY DEF Tended, Sound
<1>4. tt \in [Pages -> SessionsTo(n)] /\ tt[p] = t /\ \A q \in Pages \ {p} : tt[q] = ss[q]
  BY <1>3 DEF InvOf
<1> HIDE DEF tt
<1>5. OneLive(tt)
  BY <1>4 DEF OneLive, InvOf
<1>6. ASSUME NEW q \in Pages PROVE Tended(n, m, v, z, tt[q], q)
  <2>1. CASE q = p
    BY <1>4, <2>1
  <2>2. CASE q # p
    <3>1. Tended(n, m, w, r, ss[q], q)
      BY DEF InvOf
    <3>2. ss[q].open /\ ss[q].active => v.latest = w.latest /\ (z.enabled => r.enabled)
      BY <2>2
    <3>3. Tended(n, m, v, z, ss[q], q)
      BY <1>1, <2>2, <3>1, <3>2, OthersTended
    <3>4. QED
      BY <1>4, <2>2, <3>3
  <2>3. QED
    BY <2>1, <2>2
<1>7. Carried(n, m, v, x)
  BY <1>1, CarriedMoves DEF InvOf
<1>8. QED
  BY <1>1, <1>2, <1>4, <1>5, <1>6, <1>7 DEF InvOf, tt

(* A step of nobody: every page stays as it is.                            *)
LEMMA NobodyMoves ==
  ASSUME NEW n, NEW m, NEW w, NEW v, NEW r, NEW ss, NEW x, NEW p,
         InvOf(n, w, m, r, ss, x), Moves(n, w, v, p), v.latest = w.latest
  PROVE  InvOf(n, v, m, r, ss, x)
<1>1. Orderly(n, w) /\ Orderly(n, v)
  BY DEF InvOf, Moves
<1>2. Stored(n, m) /\ Lined(v, m) /\ Awaited(v, m)
  BY <1>1, LineMoves DEF InvOf
<1>3. ASSUME NEW q \in Pages PROVE Tended(n, m, v, r, ss[q], q)
  <2>1. Tended(n, m, w, r, ss[q], q)
    BY DEF InvOf
  <2>2. Sound(n, v, ss[q], q) /\ Backed(m, v, ss[q]) /\ Owns(v, ss[q], q)
        /\ (Newest(w, ss[q]) => Newest(v, ss[q]))
    BY <1>1, <2>1, StaysServed DEF Tended
  <2>3. QED
    BY <2>1, <2>2 DEF Tended
<1>4. Carried(n, m, v, x)
  BY <1>1, CarriedMoves DEF InvOf
<1>5. Quiet(v, r)
  <2>1. Silent(w, v)
    <3>1. ASSUME NEW e \in Contexts PROVE w.latest[e] \in Nat /\ w.sequence \in Nat /\ w.latest[e] <= w.sequence
      BY <1>1 DEF Orderly, Coordinated, WritersTo
    <3>2. QED
      BY <3>1 DEF Silent, Moves, Advances
  <2>2. QED
    BY <2>1 DEF Quiet, Silent, InvOf
<1>6. QED
  BY <1>1, <1>2, <1>3, <1>4, <1>5 DEF InvOf

LEMMA SilentQuiet ==
  ASSUME NEW w, NEW v, NEW r, Quiet(w, r), ~r.enabled \/ r.suspended => Silent(w, v)
  PROVE  Quiet(v, r)
  BY DEF Quiet, Silent

-----------------------------------------------------------------------------
(* The line.                                                               *)

\* The line of k is that of m, followed by writes of these drafts, each once.
Longer(n, w, ids, m, k) ==
    /\ k.disk = m.disk /\ k.entered = m.entered /\ k.results = m.results
    /\ k.queue \in Seq(JobsTo(n))
    /\ \A i \in DOMAIN m.queue : i \in DOMAIN k.queue /\ k.queue[i] = m.queue[i]
    /\ \A i \in DOMAIN k.queue : i \notin DOMAIN m.queue =>
         /\ \E d \in ids : k.queue[i] = WriteJob(w.current[d])
         /\ \A j \in DOMAIN m.queue : j < i
    /\ \A i, j \in DOMAIN k.queue :
         i \notin DOMAIN m.queue /\ j \notin DOMAIN m.queue /\ k.queue[i] = k.queue[j] => i = j

(* Writes of drafts whose timers run are put in line, in any order, and     *)
(* the timers stop.                                                        *)
LEMMA WritesStart ==
  ASSUME NEW n, NEW m, NEW k, NEW w, NEW v, NEW r, NEW ss, NEW x, NEW ids, ids \subseteq w.timers,
         InvOf(n, w, m, r, ss, x), v = Launch(w, ids),
         Longer(n, w, ids, m, k)
  PROVE  InvOf(n, v, k, r, ss, x)
<1> USE DEF Longer
<1>1. Orderly(n, w) /\ Stored(n, m) /\ Lined(w, m) /\ Awaited(w, m)
  BY DEF InvOf
<1>2. /\ Moves(n, w, v, 0) /\ v.latest = w.latest /\ v.current = w.current
      /\ v.timers = w.timers \ ids /\ v.sequence = w.sequence
  BY <1>1, LaunchMoves
<1>3. InvOf(n, v, m, r, ss, x)
  BY <1>2, NobodyMoves
<1>4. ASSUME NEW i \in DOMAIN k.queue, i \notin DOMAIN m.queue
      PROVE  \E d \in ids :
               LET cap == w.current[d]
               IN  /\ d \in Contexts /\ d \in w.timers /\ d \notin v.timers
                   /\ cap \in CapturesTo(n) /\ cap # None /\ cap.draft = d /\ cap.rev <= w.sequence
                   /\ k.queue[i].op = "write" /\ k.queue[i].capture = cap /\ k.queue[i].ids = {d}
                   /\ k.queue[i] = WriteJob(cap)
  <2>1. PICK d \in ids : k.queue[i] = WriteJob(w.current[d])
    BY <1>4
  <2>2. d \in w.timers /\ d \in Contexts /\ d \notin v.timers
    BY <1>1, <1>2 DEF Orderly, WritersTo
  <2>3. w.current[d] \in CapturesTo(n) \union {None}
    BY <1>1, <2>2 DEF Orderly, WritersTo
  <2>4. /\ w.current[d] # None /\ w.current[d].draft = d /\ w.current[d].rev = w.latest[d]
        /\ w.latest[d] <= w.sequence
    BY <1>1, <2>2 DEF Orderly, Coordinated
  <2>5. /\ k.queue[i].op = "write" /\ k.queue[i].capture = w.current[d]
        /\ k.queue[i].ids = {w.current[d].draft}
    BY <2>1 DEF WriteJob
  <2>6. w.current[d] \in CapturesTo(n) /\ w.current[d].rev <= w.sequence
    BY <2>3, <2>4
  <2>7. QED
    BY <2>1, <2>2, <2>4, <2>5, <2>6
<1>5. Stored(n, k)
  BY <1>1 DEF Stored
<1>6. Lined(v, m) /\ Awaited(v, m)
  BY <1>3 DEF InvOf
<1>7. \A i \in DOMAIN k.queue : i \in Nat
  OBVIOUS
<1>8. ASSUME NEW d \in v.timers PROVE w.current[d] # None /\ w.current[d].draft = d
  BY <1>1, <1>2 DEF Orderly, Coordinated, WritersTo
\* A write that was known before is not of a draft whose timer ran.
<1>9. ASSUME NEW cap, \A d \in w.timers : cap # w.current[d], Holds(v, cap),
             NEW j \in DOMAIN k.queue, j \notin DOMAIN m.queue
      PROVE  cap.draft \notin k.queue[j].ids
  BY <1>2, <1>4, <1>9 DEF Holds
<1>10. Lined(v, k)
  <2> SUFFICES ASSUME NEW i \in DOMAIN k.queue, k.queue[i].op = "write", NEW cap, cap = k.queue[i].capture
               PROVE  /\ cap.rev <= v.sequence /\ k.queue[i].ids = {cap.draft}
                      /\ Holds(v, cap) => \A j \in DOMAIN k.queue : i < j => cap.draft \notin k.queue[j].ids
                      /\ \A d \in v.timers : cap # v.current[d]
    BY DEF Lined
  <2>1. CASE i \in DOMAIN m.queue
    <3>1. /\ cap.rev <= v.sequence /\ m.queue[i].ids = {cap.draft}
          /\ Holds(v, cap) => \A j \in DOMAIN m.queue : i < j => cap.draft \notin m.queue[j].ids
          /\ \A d \in v.timers : cap # v.current[d]
      BY <1>6, <2>1 DEF Lined
    <3>2. \A d \in w.timers : cap # w.current[d]
      BY <1>1, <2>1 DEF Lined
    <3>3. QED
      BY <1>9, <2>1, <3>1, <3>2
  <2>2. CASE i \notin DOMAIN m.queue
    <3>1. PICK d \in ids :
            /\ d \in Contexts /\ d \notin v.timers /\ cap # None /\ cap.draft = d /\ cap.rev <= w.sequence
            /\ k.queue[i].ids = {d} /\ k.queue[i] = WriteJob(w.current[d])
      BY <1>4, <2>2
    <3>2. ASSUME NEW j \in DOMAIN k.queue, i < j, d \in k.queue[j].ids PROVE FALSE
      <4>1. i \in Nat /\ j \in Nat
        BY <1>7
      <4>2. j \notin DOMAIN m.queue
        BY <2>2, <3>2, <4>1
      <4>3. k.queue[j] = k.queue[i]
        BY <1>4, <3>1, <3>2, <4>2
      <4>4. i = j
        BY <2>2, <4>2, <4>3
      <4>5. QED
        BY <3>2, <4>1, <4>4
    <3>3. \A e \in v.timers : cap # v.current[e]
      BY <1>2, <1>8, <3>1
    <3>4. QED
      BY <1>2, <3>1, <3>2, <3>3
  <2>3. QED
    BY <2>1, <2>2
<1>11. Awaited(v, k)
  <2> SUFFICES ASSUME NEW i \in DOMAIN m.results, m.results[i].job.op = "write",
                      NEW cap, cap = m.results[i].job.capture
               PROVE  /\ cap.rev <= v.sequence
                      /\ Holds(v, cap) =>
                           /\ \A j \in DOMAIN k.queue : cap.draft \notin k.queue[j].ids
                           /\ m.results[i].code = "ok" => m.disk[cap.draft] = cap.sql
                      /\ \A d \in v.timers : cap # v.current[d]
    BY DEF Awaited
  <2>1. /\ cap.rev <= v.sequence
        /\ Holds(v, cap) =>
             /\ \A j \in DOMAIN m.queue : cap.draft \notin m.queue[j].ids
             /\ m.results[i].code = "ok" => m.disk[cap.draft] = cap.sql
        /\ \A d \in v.timers : cap # v.current[d]
    BY <1>6 DEF Awaited
  <2>2. \A d \in w.timers : cap # w.current[d]
    BY <1>1 DEF Awaited
  <2>3. QED
    BY <1>9, <2>1, <2>2
<1>12. Requested(k, r)
  <2>1. \A i \in DOMAIN k.queue : k.queue[i].op # "write" => i \in DOMAIN m.queue
    BY <1>4
  <2>2. Requested(m, r)
    BY DEF InvOf
  <2>3. QED
    BY <2>1, <2>2 DEF Requested
<1>13. ASSUME NEW s, Backed(m, v, s), s.savedContext \in Contexts PROVE Backed(k, v, s)
  <2>1. SUFFICES ASSUME Kept(v, s) PROVE Backed(k, v, s)
    BY DEF Backed
  <2> DEFINE d == s.savedContext
  <2>2. /\ m.disk[d] = s.sql /\ (v.current[d] # None => v.current[d].sql = s.sql)
        /\ \A i \in DOMAIN m.queue : d \in m.queue[i].ids =>
             m.queue[i].op = "write" /\ (i = 1 /\ m.entered => m.queue[i].capture.sql = s.sql)
    BY <1>13, <2>1 DEF Backed
  <2>3. ASSUME NEW i \in DOMAIN k.queue, i \notin DOMAIN m.queue, d \in k.queue[i].ids
        PROVE  k.queue[i].op = "write" /\ k.queue[i].capture.sql = s.sql
    BY <1>2, <1>4, <2>2, <2>3
  <2>4. QED
    BY <2>2, <2>3 DEF Backed
<1>14. ASSUME NEW s, NEW p, Sound(n, v, s, p), Backed(m, v, s) PROVE Backed(k, v, s)
  <2>1. Kept(v, s) => s.savedContext \in Contexts
    BY <1>14 DEF Kept, Sound, Coherent, SessionsTo, Origins
  <2>2. CASE Kept(v, s)
    BY <1>13, <1>14, <2>1, <2>2
  <2>3. CASE ~Kept(v, s)
    BY <2>3 DEF Backed
  <2>4. QED
    BY <2>2, <2>3
<1>15. ASSUME NEW p \in Pages PROVE Tended(n, k, v, r, ss[p], p)
  BY <1>3, <1>14 DEF InvOf, Tended
<1>16. Carried(n, k, v, x)
  BY <1>3, <1>14 DEF InvOf, Carried
<1>17. QED
  BY <1>3, <1>5, <1>10, <1>11, <1>12, <1>15, <1>16 DEF InvOf

\* The sequence z is q, followed by t.
Follows(S, q, t, z) ==
    /\ z \in Seq(S) /\ Len(q) \in Nat /\ \A i \in DOMAIN z : i \in Nat
    /\ \A i \in DOMAIN q : i \in DOMAIN z /\ z[i] = q[i]
    /\ \A i \in DOMAIN z : i \notin DOMAIN q =>
         /\ i - Len(q) \in DOMAIN t /\ z[i] = t[i - Len(q)]
         /\ \A j \in DOMAIN q : j < i

LEMMA Joined ==
  ASSUME NEW S, NEW q \in Seq(S), NEW t \in Seq(S), NEW z, z = q \o t
  PROVE  Follows(S, q, t, z)
<1>1. /\ z \in Seq(S) /\ Len(z) = Len(q) + Len(t)
      /\ \A i \in 1 .. Len(q) + Len(t) : z[i] = IF i <= Len(q) THEN q[i] ELSE t[i - Len(q)]
  BY ConcatProperties
<1>2. Len(q) \in Nat /\ Len(t) \in Nat
  BY LenProperties
<1>3. DOMAIN q = 1 .. Len(q) /\ DOMAIN t = 1 .. Len(t) /\ DOMAIN z = 1 .. Len(z)
  BY <1>1, LenProperties
<1> DEFINE l == Len(q)
           c == Len(t)
<1>4. DOMAIN z = 1 .. l + c
  BY <1>1, <1>3
<1> HIDE DEF l, c
<1>5. l \in Nat /\ c \in Nat
  BY <1>2 DEF l, c
<1>6. DOMAIN q = 1 .. l /\ DOMAIN t = 1 .. c
  BY <1>3 DEF l, c
<1>7. \A i \in 1 .. l + c : z[i] = IF i <= l THEN q[i] ELSE t[i - l]
  BY <1>1 DEF l, c
<1>8. \A i \in DOMAIN q : i \in DOMAIN z /\ z[i] = q[i]
  BY <1>4, <1>5, <1>6, <1>7
<1>9. ASSUME NEW i \in DOMAIN z, i \notin DOMAIN q
      PROVE  /\ i - l \in DOMAIN t /\ z[i] = t[i - l]
             /\ \A j \in DOMAIN q : j < i
  <2>1. i \in Nat /\ l < i /\ i <= l + c
    BY <1>4, <1>5, <1>6, <1>9
  <2>2. i - l \in 1 .. c
    BY <1>5, <2>1
  <2>3. z[i] = t[i - l]
    BY <1>4, <1>5, <1>7, <2>1
  <2>4. \A j \in DOMAIN q : j < i
    BY <1>5, <1>6, <2>1
  <2>5. QED
    BY <1>6, <2>2, <2>3, <2>4
<1>10. \A i \in DOMAIN z : i \in Nat
  BY <1>4
<1>11. QED
  BY <1>1, <1>2, <1>8, <1>9, <1>10 DEF l, Follows

\* The writes of some drafts whose timers run, each once.
Starts(w, ids, jobs) ==
    /\ ids \subseteq w.timers
    /\ \A i \in DOMAIN jobs : \E d \in ids : jobs[i] = WriteJob(w.current[d])
    /\ \A i, j \in DOMAIN jobs : jobs[i] = jobs[j] => i = j

(* They are put in line.                                                   *)
LEMMA WritesLonger ==
  ASSUME NEW n, NEW m, NEW k, NEW w, NEW ids, NEW jobs, Starts(w, ids, jobs),
         k.disk = m.disk, k.entered = m.entered, k.results = m.results,
         Follows(JobsTo(n), m.queue, jobs, k.queue)
  PROVE  Longer(n, w, ids, m, k)
<1> DEFINE l == Len(m.queue)
<1>1. /\ k.queue \in Seq(JobsTo(n)) /\ l \in Nat /\ \A i \in DOMAIN k.queue : i \in Nat
      /\ \A i \in DOMAIN m.queue : i \in DOMAIN k.queue /\ k.queue[i] = m.queue[i]
      /\ \A i \in DOMAIN k.queue : i \notin DOMAIN m.queue =>
           /\ i - l \in DOMAIN jobs /\ k.queue[i] = jobs[i - l]
           /\ \A j \in DOMAIN m.queue : j < i
  BY DEF Follows
<1> HIDE DEF l
<1>2. \A i \in DOMAIN k.queue : i \notin DOMAIN m.queue =>
        /\ \E e \in ids : k.queue[i] = WriteJob(w.current[e])
        /\ \A j \in DOMAIN m.queue : j < i
  BY <1>1 DEF Starts
<1>3. ASSUME NEW i \in DOMAIN k.queue, NEW j \in DOMAIN k.queue,
             i \notin DOMAIN m.queue, j \notin DOMAIN m.queue, k.queue[i] = k.queue[j]
      PROVE  i = j
  <2>1. i - l = j - l
    BY <1>1, <1>3 DEF Starts
  <2>2. QED
    BY <1>1, <2>1
<1>4. QED
  BY <1>1, <1>2, <1>3 DEF Longer

LEMMA WritesFollow ==
  ASSUME NEW n, NEW m, NEW k, NEW w, NEW r, NEW ss, NEW x, NEW ids, NEW jobs,
         InvOf(n, w, m, r, ss, x), Starts(w, ids, jobs),
         k.disk = m.disk, k.entered = m.entered, k.results = m.results,
         Follows(JobsTo(n), m.queue, jobs, k.queue)
  PROVE  InvOf(n, Launch(w, ids), k, r, ss, x)
<1>1. Longer(n, w, ids, m, k)
  BY WritesLonger
<1>2. ids \subseteq w.timers
  BY DEF Starts
<1>3. QED
  BY <1>1, <1>2, WritesStart

LEMMA TimedWrites ==
  ASSUME NEW n, NEW w, Orderly(n, w)
  PROVE  /\ \A d \in w.timers : WriteJob(w.current[d]) \in JobsTo(n)
         /\ \A d, e \in w.timers : WriteJob(w.current[d]) = WriteJob(w.current[e]) => d = e
<1>1. \A e \in w.timers : w.current[e] \in CapturesTo(n) /\ w.current[e].draft = e
  BY DEF Orderly, Coordinated, WritersTo
<1>2. ASSUME NEW d \in w.timers PROVE WriteJob(w.current[d]) \in JobsTo(n)
  <2>1. ASSUME NEW cap \in CapturesTo(n) PROVE WriteJob(cap) \in JobsTo(n)
    <3>1. cap.draft \in Contexts
      BY DEF CapturesTo
    <3>2. QED
      BY <3>1 DEF WriteJob, JobsTo
  <2>2. QED
    BY <1>1, <2>1
<1>3. ASSUME NEW d \in w.timers, NEW e \in w.timers, WriteJob(w.current[d]) = WriteJob(w.current[e])
      PROVE  d = e
  <2>1. WriteJob(w.current[d]).capture = WriteJob(w.current[e]).capture
    BY <1>3
  <2>2. w.current[d] = w.current[e]
    BY <2>1 DEF WriteJob
  <2>3. QED
    BY <1>1, <2>2
<1>4. QED
  BY <1>2, <1>3

(* One write, if its draft's timer runs.                                   *)
LEMMA OneWrite ==
  ASSUME NEW n, NEW w, NEW d, Orderly(n, w), NEW jobs,
         jobs = IF d \in w.timers THEN <<WriteJob(w.current[d])>> ELSE << >>
  PROVE  jobs \in Seq(JobsTo(n)) /\ Starts(w, {d} \cap w.timers, jobs)
<1>1. CASE d \in w.timers
  <2> DEFINE a == WriteJob(w.current[d])
  <2>1. a \in JobsTo(n)
    BY <1>1, TimedWrites
  <2>2. jobs = <<a>>
    BY <1>1
  <2>3. jobs \in Seq(JobsTo(n)) /\ \A i \in DOMAIN jobs : i = 1 /\ jobs[i] = a
    <3> HIDE DEF a
    <3>1. QED
      BY <2>1, <2>2
  <2>4. QED
    BY <1>1, <2>3 DEF Starts
<1>2. CASE d \notin w.timers
  BY <1>2 DEF Starts
<1>3. QED
  BY <1>1, <1>2

LEMMA OneLaunched ==
  ASSUME NEW w, NEW d
  PROVE  Launch(w, {d} \cap w.timers) = Launch(w, {d})
<1>1. w.timers \ {d} = w.timers \ ({d} \cap w.timers)
  OBVIOUS
<1>2. QED
  BY <1>1 DEF Launch

(* Every timer that runs, in any order.                                    *)
LEMMA AllWrites ==
  ASSUME NEW n, NEW w, NEW order \in SetToSeqs(w.timers), Orderly(n, w), NEW jobs,
         jobs = [i \in DOMAIN order |-> WriteJob(w.current[order[i]])]
  PROVE  jobs \in Seq(JobsTo(n)) /\ Starts(w, w.timers, jobs)
<1> DEFINE c == Cardinality(w.timers)
<1>1. w.timers \subseteq Contexts
  BY DEF Orderly, WritersTo
<1>2. c \in Nat
  BY <1>1, DraftParameters, FS_Subset, FS_CardinalityType
<1>3. /\ order \in [1 .. c -> w.timers]
      /\ \A i, j \in 1 .. c : order[i] = order[j] => i = j
  BY DEF SetToSeqs
<1> HIDE DEF c
<1>4. DOMAIN jobs = 1 .. c /\ \A i \in 1 .. c : jobs[i] = WriteJob(w.current[order[i]])
  BY <1>3
<1>5. \A i \in 1 .. c : jobs[i] \in JobsTo(n)
  BY <1>3, <1>4, TimedWrites
<1>6. jobs \in [1 .. c -> JobsTo(n)]
  BY <1>3, <1>5
<1>7. jobs \in Seq(JobsTo(n))
  BY <1>2, <1>6, SeqDef
<1>8. \A i \in DOMAIN jobs : \E e \in w.timers : jobs[i] = WriteJob(w.current[e])
  BY <1>3, <1>4
<1>9. ASSUME NEW i \in DOMAIN jobs, NEW j \in DOMAIN jobs, jobs[i] = jobs[j] PROVE i = j
  <2>1. order[i] \in w.timers /\ order[j] \in w.timers
    BY <1>3, <1>4
  <2>2. WriteJob(w.current[order[i]]) = WriteJob(w.current[order[j]])
    BY <1>4, <1>9
  <2>3. order[i] = order[j]
    BY <2>1, <2>2, TimedWrites
  <2>4. QED
    BY <1>3, <1>4, <2>3
<1>10. QED
  BY <1>7, <1>8, <1>9 DEF Starts

-----------------------------------------------------------------------------
(* Jobs and results come and go.                                           *)

\* The sequence t is q without its first element.
Shortened(S, q, t) ==
    /\ t \in Seq(S) /\ 1 \in DOMAIN q
    /\ \A i \in DOMAIN t : i \in Nat /\ 0 < i /\ i + 1 \in DOMAIN q /\ t[i] = q[i + 1]

\* The sequence z is q with one more element, e.
Grown(S, q, e, z) ==
    /\ z \in Seq(S)
    /\ \A i \in DOMAIN q : i \in DOMAIN z /\ z[i] = q[i]
    /\ \A i \in DOMAIN z : i \notin DOMAIN q => i = Len(q) + 1 /\ z[i] = e

LEMMA TailShortens ==
  ASSUME NEW S, NEW q \in Seq(S), q # << >>
  PROVE  Shortened(S, q, Tail(q)) /\ Head(q) = q[1]
<1>1. /\ Tail(q) \in Seq(S) /\ Len(Tail(q)) = Len(q) - 1 /\ Len(q) \in Nat
      /\ \A i \in 1 .. Len(Tail(q)) : Tail(q)[i] = q[i + 1]
      /\ Len(q) # 0
  BY HeadTailProperties, EmptySeq, LenProperties
<1>2. DOMAIN q = 1 .. Len(q) /\ DOMAIN Tail(q) = 1 .. Len(q) - 1
  BY <1>1, LenProperties
<1>3. QED
  BY <1>1, <1>2 DEF Shortened

LEMMA AppendGrows ==
  ASSUME NEW S, NEW q \in Seq(S), NEW e \in S
  PROVE  Grown(S, q, e, Append(q, e))
<1>1. /\ Append(q, e) \in Seq(S) /\ Len(Append(q, e)) = Len(q) + 1 /\ Len(q) \in Nat
      /\ \A i \in 1 .. Len(q) : Append(q, e)[i] = q[i]
      /\ Append(q, e)[Len(q) + 1] = e
  BY AppendProperties, LenProperties
<1>2. DOMAIN q = 1 .. Len(q) /\ DOMAIN Append(q, e) = 1 .. Len(q) + 1
  BY <1>1, LenProperties
<1>3. QED
  BY <1>1, <1>2 DEF Grown

(* Only the worker's side, or what is believed of the preference, changes. *)
LEMMA LineChanges ==
  ASSUME NEW n, NEW m, NEW k, NEW w, NEW r, NEW z, NEW ss, NEW x,
         InvOf(n, w, m, r, ss, x), Stored(n, k), Lined(w, k), Awaited(w, k),
         z \in Preferences, Requested(k, z), Quiet(w, z), z.enabled => r.enabled,
         \A s, p : Sound(n, w, s, p) /\ Backed(m, w, s) => Backed(k, w, s)
  PROVE  InvOf(n, w, k, z, ss, x)
<1>1. \A p \in Pages : Tended(n, k, w, z, ss[p], p)
  BY DEF InvOf, Tended
<1>2. Carried(n, k, w, x)
  BY DEF InvOf, Carried
<1>3. QED
  BY <1>1, <1>2 DEF InvOf

LEMMA KeptContext ==
  ASSUME NEW n, NEW w, NEW s, NEW p, Sound(n, w, s, p), Kept(w, s)
  PROVE  s.savedContext \in Contexts
  BY DEF Kept, Sound, Coherent, SessionsTo, Origins

(* The worker gets past the last check of a write.                         *)
LEMMA JobEnters ==
  ASSUME NEW n, NEW m, NEW k, NEW w, NEW r, NEW ss, NEW x,
         InvOf(n, w, m, r, ss, x), m.queue # << >>, m.queue[1].op = "write",
         Holds(w, m.queue[1].capture),
         k.disk = m.disk, k.queue = m.queue, k.results = m.results, k.entered = TRUE
  PROVE  InvOf(n, w, k, r, ss, x)
<1>1. Stored(n, k)
  BY DEF InvOf, Stored
<1>2. Lined(w, k) /\ Awaited(w, k) /\ Requested(k, r)
  BY DEF InvOf, Lined, Awaited, Requested
<1>3. ASSUME NEW s, NEW p, Sound(n, w, s, p), Backed(m, w, s) PROVE Backed(k, w, s)
  <2> SUFFICES ASSUME Kept(w, s) PROVE Backed(k, w, s)
    BY DEF Backed
  <2> DEFINE d == s.savedContext
  <2>1. 1 \in DOMAIN m.queue
    BY TailShortens DEF InvOf, Stored, Shortened
  <2>2. m.queue[1].ids = {m.queue[1].capture.draft}
    BY <2>1 DEF InvOf, Lined
  <2>3. d \in m.queue[1].ids => m.queue[1].capture.sql = s.sql
    BY <1>3, <2>2 DEF Backed, Holds
  <2>4. QED
    BY <1>3, <2>3 DEF Backed
<1>4. QED
  BY <1>1, <1>2, <1>3, LineChanges DEF InvOf

\* The result of a job.
ResultOf(job, code, told) == [job |-> job, code |-> code, enabled |-> told]

\* From m to k the oldest job has left the line: it may have written or removed
\* the records of its drafts, and its result, if any, awaits the event loop.
Leaves(n, m, k, job, code, told) ==
    /\ job = m.queue[1] /\ Shortened(JobsTo(n), m.queue, k.queue) /\ k.entered = FALSE
    /\ \/ k.results = m.results
       \/ Grown(ResultsTo(n), m.results, ResultOf(job, code, told), k.results)
    /\ k.disk \in [Contexts -> 0 .. n]
    /\ \A d \in Contexts : d \notin job.ids => k.disk[d] = m.disk[d]
    /\ job.op = "write" =>
         LET cap == job.capture
         IN  /\ \/ k.disk[cap.draft] = m.disk[cap.draft]
                \/ m.entered /\ k.disk[cap.draft] = cap.sql
             /\ code = "ok" => k.disk[cap.draft] = cap.sql

(* The worker is done with a job.                                          *)
LEMMA JobLeaves ==
  ASSUME NEW n, NEW m, NEW k, NEW w, NEW r, NEW ss, NEW x, NEW job, NEW code, NEW told,
         InvOf(n, w, m, r, ss, x), Leaves(n, m, k, job, code, told)
  PROVE  InvOf(n, w, k, r, ss, x)
<1> USE DEF Leaves
<1> DEFINE e == ResultOf(job, code, told)
<1>1. /\ k.queue \in Seq(JobsTo(n)) /\ 1 \in DOMAIN m.queue
      /\ \A i \in DOMAIN k.queue :
           i \in Nat /\ 0 < i /\ i + 1 \in DOMAIN m.queue /\ k.queue[i] = m.queue[i + 1]
  BY DEF Shortened
<1>2. /\ k.results \in Seq(ResultsTo(n))
      /\ \A i \in DOMAIN k.results :
           \/ i \in DOMAIN m.results /\ k.results[i] = m.results[i]
           \/ i \notin DOMAIN m.results /\ i = Len(m.results) + 1 /\ k.results[i] = e
  <2>1. m.results \in Seq(ResultsTo(n))
    BY DEF InvOf, Stored
  <2>2. QED
    BY <2>1 DEF Grown
<1>3. e.job = job /\ e.code = code
  BY DEF ResultOf
<1> HIDE DEF e
<1>4. Stored(n, k)
  BY <1>1, <1>2 DEF Stored
<1>5. Lined(w, m) /\ Awaited(w, m) /\ Requested(m, r)
  BY DEF InvOf
<1>6. job.op = "write" => job.capture \in CapturesTo(n) /\ job.capture.draft \in Contexts
  <2>1. job.op = "write" => job.capture \in CapturesTo(n)
    BY <1>1, JobsAndResults DEF InvOf
  <2>2. QED
    BY <2>1 DEF CapturesTo
<1>7. Lined(w, k)
  <2> SUFFICES ASSUME NEW i \in DOMAIN k.queue, k.queue[i].op = "write", NEW cap, cap = k.queue[i].capture
               PROVE  /\ cap.rev <= w.sequence /\ k.queue[i].ids = {cap.draft}
                      /\ Holds(w, cap) => \A j \in DOMAIN k.queue : i < j => cap.draft \notin k.queue[j].ids
                      /\ \A d \in w.timers : cap # w.current[d]
    BY DEF Lined
  <2>1. PICK h \in DOMAIN m.queue : h = i + 1 /\ k.queue[i] = m.queue[h]
    BY <1>1
  <2>2. /\ cap.rev <= w.sequence /\ m.queue[h].ids = {cap.draft}
        /\ Holds(w, cap) => \A j \in DOMAIN m.queue : h < j => cap.draft \notin m.queue[j].ids
        /\ \A d \in w.timers : cap # w.current[d]
    BY <1>5, <2>1 DEF Lined
  <2>3. ASSUME Holds(w, cap), NEW j \in DOMAIN k.queue, i < j PROVE cap.draft \notin k.queue[j].ids
    <3>1. PICK g \in DOMAIN m.queue : g = j + 1 /\ k.queue[j] = m.queue[g]
      BY <1>1
    <3>2. i \in Nat /\ j \in Nat
      BY <1>1
    <3>3. h < g
      BY <2>1, <2>3, <3>1, <3>2
    <3>4. QED
      BY <2>2, <2>3, <3>1, <3>3
  <2>4. QED
    BY <2>1, <2>2, <2>3
<1>8. Awaited(w, k)
  <2> SUFFICES ASSUME NEW i \in DOMAIN k.results, k.results[i].job.op = "write",
                      NEW cap, cap = k.results[i].job.capture
               PROVE  /\ cap.rev <= w.sequence
                      /\ Holds(w, cap) =>
                           /\ \A j \in DOMAIN k.queue : cap.draft \notin k.queue[j].ids
                           /\ k.results[i].code = "ok" => k.disk[cap.draft] = cap.sql
                      /\ \A d \in w.timers : cap # w.current[d]
    BY DEF Awaited
  <2>1. CASE i \in DOMAIN m.results /\ k.results[i] = m.results[i]
    <3>1. /\ cap.rev <= w.sequence
          /\ Holds(w, cap) =>
               /\ \A j \in DOMAIN m.queue : cap.draft \notin m.queue[j].ids
               /\ m.results[i].code = "ok" => m.disk[cap.draft] = cap.sql
          /\ \A d \in w.timers : cap # w.current[d]
      BY <1>5, <2>1 DEF Awaited
    <3>2. cap.draft \in Contexts
      <4>1. cap \in CapturesTo(n)
        BY <2>1, JobsAndResults, SMTT(30) DEF InvOf
      <4>2. QED
        BY <4>1 DEF CapturesTo
    <3>3. QED
      BY <1>1, <2>1, <3>1, <3>2
  <2>2. CASE k.results[i] = e
    <3>1. job.op = "write" /\ cap = job.capture /\ k.results[i].code = code
      BY <1>3, <2>2, SMTT(30)
    <3>2. /\ cap.rev <= w.sequence
          /\ Holds(w, cap) => \A j \in DOMAIN m.queue : 1 < j => cap.draft \notin m.queue[j].ids
          /\ \A d \in w.timers : cap # w.current[d]
      BY <1>1, <1>5, <3>1 DEF Lined
    <3>3. ASSUME Holds(w, cap), NEW j \in DOMAIN k.queue PROVE cap.draft \notin k.queue[j].ids
      <4>1. PICK g \in DOMAIN m.queue : g = j + 1 /\ k.queue[j] = m.queue[g]
        BY <1>1
      <4>2. j \in Nat /\ 0 < j
        BY <1>1
      <4>3. 1 < g
        BY <4>1, <4>2
      <4>4. QED
        BY <3>2, <3>3, <4>1, <4>3
    <3>4. QED
      BY <3>1, <3>2, <3>3
  <2>3. QED
    BY <1>2, <2>1, <2>2
<1>9. Requested(k, r)
  <2>1. ASSUME NEW i \in DOMAIN k.queue, k.queue[i].op # "write"
        PROVE  /\ Asked(k.queue[i], r)
               /\ \A j \in DOMAIN k.queue : k.queue[j].op # "write" => i = j
               /\ \A j \in DOMAIN k.results : k.results[j].job.op = "write"
    <3>1. i + 1 \in DOMAIN m.queue /\ k.queue[i] = m.queue[i + 1] /\ i \in Nat /\ 0 < i
      BY <1>1
    <3>2. /\ Asked(k.queue[i], r)
          /\ \A j \in DOMAIN m.queue : m.queue[j].op # "write" => i + 1 = j
          /\ \A j \in DOMAIN m.results : m.results[j].job.op = "write"
      BY <1>5, <2>1, <3>1 DEF Requested
    <3>3. job.op = "write"
      BY <1>1, <3>1, <3>2
    <3>4. ASSUME NEW j \in DOMAIN k.queue, k.queue[j].op # "write" PROVE i = j
      BY <1>1, <3>1, <3>2, <3>4
    <3>5. QED
      BY <1>2, <1>3, <3>2, <3>3, <3>4
  <2>2. ASSUME NEW i \in DOMAIN k.results, k.results[i].job.op # "write"
        PROVE  /\ Asked(k.results[i].job, r)
               /\ \A j \in DOMAIN k.results : k.results[j].job.op # "write" => i = j
    <3>1. CASE i \in DOMAIN m.results /\ k.results[i] = m.results[i]
      <4>1. /\ Asked(k.results[i].job, r)
            /\ \A j \in DOMAIN m.results : m.results[j].job.op # "write" => i = j
        BY <1>5, <2>2, <3>1 DEF Requested
      <4>2. job.op = "write"
        BY <1>1, <1>5, <2>2, <3>1 DEF Requested
      <4>3. QED
        BY <1>2, <1>3, <4>1, <4>2
    <3>2. CASE i \notin DOMAIN m.results /\ i = Len(m.results) + 1 /\ k.results[i] = e
      <4>1. job.op # "write"
        BY <1>3, <2>2, <3>2
      <4>2. Asked(job, r) /\ \A j \in DOMAIN m.results : m.results[j].job.op = "write"
        BY <1>1, <1>5, <4>1 DEF Requested
      <4>3. QED
        BY <1>2, <1>3, <3>2, <4>2
    <3>3. QED
      BY <1>2, <3>1, <3>2
  <2>3. QED
    BY <2>1, <2>2 DEF Requested
<1>10. ASSUME NEW s, NEW p, Sound(n, w, s, p), Backed(m, w, s) PROVE Backed(k, w, s)
  <2> SUFFICES ASSUME Kept(w, s) PROVE Backed(k, w, s)
    BY DEF Backed
  <2> DEFINE d == s.savedContext
  <2>1. d \in Contexts
    BY <1>10, KeptContext
  <2>2. /\ m.disk[d] = s.sql
        /\ w.current[d] # None => w.current[d].sql = s.sql
        /\ \A i \in DOMAIN m.queue :
             d \in m.queue[i].ids =>
               m.queue[i].op = "write" /\ (i = 1 /\ m.entered => m.queue[i].capture.sql = s.sql)
    BY <1>10 DEF Backed
  <2> HIDE DEF d
  <2>3. k.disk[d] = s.sql
    <3>1. CASE d \notin job.ids
      BY <2>1, <2>2, <3>1
    <3>2. CASE d \in job.ids
      <4>1. job.op = "write" /\ (m.entered => job.capture.sql = s.sql)
        BY <1>1, <2>2, <3>2
      <4>2. job.capture.draft = d
        BY <1>1, <1>5, <3>2, <4>1 DEF Lined
      <4>3. QED
        BY <2>2, <4>1, <4>2
    <3>3. QED
      BY <3>1, <3>2
  <2>4. \A i \in DOMAIN k.queue : d \in k.queue[i].ids => k.queue[i].op = "write"
    BY <1>1, <2>2
  <2>5. QED
    BY <2>2, <2>3, <2>4 DEF Backed, d
<1>11. QED
  BY <1>4, <1>7, <1>8, <1>9, <1>10, LineChanges DEF InvOf

(* The event loop takes the oldest result.  After that of a request, none  *)
(* is with the worker any more.                                            *)
LEMMA ResultLeaves ==
  ASSUME NEW n, NEW m, NEW k, NEW w, NEW r, NEW ss, NEW x,
         InvOf(n, w, m, r, ss, x), Shortened(ResultsTo(n), m.results, k.results),
         k.disk = m.disk, k.queue = m.queue, k.entered = m.entered
  PROVE  /\ InvOf(n, w, k, r, ss, x)
         /\ m.results[1].job.op # "write" => \A z : Requested(k, z)
<1>1. /\ k.results \in Seq(ResultsTo(n)) /\ 1 \in DOMAIN m.results
      /\ \A i \in DOMAIN k.results :
           i \in Nat /\ 0 < i /\ i + 1 \in DOMAIN m.results /\ k.results[i] = m.results[i + 1]
  BY DEF Shortened
<1>2. Lined(w, m) /\ Awaited(w, m) /\ Requested(m, r) /\ Stored(n, m)
  BY DEF InvOf
<1>3. Stored(n, k) /\ Lined(w, k)
  BY <1>1, <1>2 DEF Stored, Lined
<1>4. Awaited(w, k)
  <2> SUFFICES ASSUME NEW i \in DOMAIN k.results, k.results[i].job.op = "write"
               PROVE  LET cap == k.results[i].job.capture
                      IN  /\ cap.rev <= w.sequence
                          /\ Holds(w, cap) =>
                               /\ \A j \in DOMAIN k.queue : cap.draft \notin k.queue[j].ids
                               /\ k.results[i].code = "ok" => k.disk[cap.draft] = cap.sql
                          /\ \A d \in w.timers : cap # w.current[d]
    BY DEF Awaited
  <2>1. PICK j \in DOMAIN m.results : k.results[i] = m.results[j]
    BY <1>1
  <2>2. LET cap == m.results[j].job.capture
        IN  /\ cap.rev <= w.sequence
            /\ Holds(w, cap) =>
                 /\ \A q \in DOMAIN m.queue : cap.draft \notin m.queue[q].ids
                 /\ m.results[j].code = "ok" => m.disk[cap.draft] = cap.sql
            /\ \A d \in w.timers : cap # w.current[d]
    BY <1>2, <2>1 DEF Awaited
  <2>3. QED
    BY <2>1, <2>2
<1>5. Requested(k, r)
  <2>1. ASSUME NEW i \in DOMAIN k.results, k.results[i].job.op # "write"
        PROVE  /\ Asked(k.results[i].job, r)
               /\ \A j \in DOMAIN k.results : k.results[j].job.op # "write" => i = j
    <3>1. PICK h \in DOMAIN m.results : h = i + 1 /\ k.results[i] = m.results[h] /\ i \in Nat
      BY <1>1
    <3>2. /\ Asked(m.results[h].job, r)
          /\ \A j \in DOMAIN m.results : m.results[j].job.op # "write" => h = j
      BY <1>2, <2>1, <3>1 DEF Requested
    <3>3. ASSUME NEW j \in DOMAIN k.results, k.results[j].job.op # "write" PROVE i = j
      <4>1. PICK g \in DOMAIN m.results : g = j + 1 /\ k.results[j] = m.results[g] /\ j \in Nat
        BY <1>1
      <4>2. h = g
        BY <3>2, <3>3, <4>1
      <4>3. QED
        BY <3>1, <4>1, <4>2
    <3>4. QED
      BY <3>1, <3>2, <3>3
  <2>2. \A i \in DOMAIN k.queue : k.queue[i].op # "write" =>
          /\ Asked(k.queue[i], r)
          /\ \A j \in DOMAIN k.queue : k.queue[j].op # "write" => i = j
          /\ \A j \in DOMAIN k.results : k.results[j].job.op = "write"
    BY <1>1, <1>2 DEF Requested
  <2>3. QED
    BY <2>1, <2>2 DEF Requested
<1>6. ASSUME m.results[1].job.op # "write", NEW z PROVE Requested(k, z)
  <2>1. \A i \in DOMAIN k.queue : k.queue[i].op = "write"
    BY <1>1, <1>2, <1>6 DEF Requested
  <2>2. ASSUME NEW i \in DOMAIN k.results PROVE k.results[i].job.op = "write"
    <3>1. PICK h \in DOMAIN m.results : h = i + 1 /\ k.results[i] = m.results[h] /\ i \in Nat /\ 0 < i
      BY <1>1
    <3>2. h # 1
      BY <3>1
    <3>3. QED
      BY <1>1, <1>2, <1>6, <3>1, <3>2 DEF Requested
  <2>3. QED
    BY <2>1, <2>2 DEF Requested
<1>7. \A s : Backed(m, w, s) => Backed(k, w, s)
  BY DEF Backed
<1>8. QED
  BY <1>3, <1>4, <1>5, <1>6, <1>7, LineChanges DEF InvOf

\* The line of k is that of m with one more job.
Joins(n, m, e, k) ==
    /\ k.disk = m.disk /\ k.entered = m.entered /\ k.results = m.results
    /\ Grown(JobsTo(n), m.queue, e, k.queue)

(* A request is put in line, its drafts having lost their current writes.  *)
LEMMA RequestJoins ==
  ASSUME NEW n, NEW m, NEW k, NEW v, NEW r, NEW z, NEW e \in JobsTo(n),
         Stored(n, m), Lined(v, m), Awaited(v, m), Requested(m, r), ~r.busy,
         e.op # "write", Asked(e, z), \A d \in Contexts : d \in e.ids => v.current[d] = None,
         Joins(n, m, e, k)
  PROVE  /\ Stored(n, k) /\ Lined(v, k) /\ Awaited(v, k) /\ Requested(k, z)
         /\ \A s : Backed(m, v, s) /\ (Kept(v, s) => s.savedContext \notin e.ids) => Backed(k, v, s)
<1> USE DEF Joins
<1>1. /\ k.queue \in Seq(JobsTo(n))
      /\ \A i \in DOMAIN m.queue : i \in DOMAIN k.queue /\ k.queue[i] = m.queue[i]
      /\ \A i \in DOMAIN k.queue : i \notin DOMAIN m.queue => i = Len(m.queue) + 1 /\ k.queue[i] = e
  BY DEF Grown
<1>2. Stored(n, k)
  <2>1. m.queue # << >> => 1 \in DOMAIN m.queue
    BY TailShortens DEF Stored, Shortened
  <2>2. QED
    BY <1>1, <2>1 DEF Stored
<1>3. ASSUME NEW cap \in CapturesTo(n), Holds(v, cap) PROVE cap.draft \notin e.ids
  BY <1>3 DEF Holds, CapturesTo
<1>4. Lined(v, k)
  <2> SUFFICES ASSUME NEW i \in DOMAIN k.queue, k.queue[i].op = "write", NEW cap, cap = k.queue[i].capture
               PROVE  /\ cap.rev <= v.sequence /\ k.queue[i].ids = {cap.draft}
                      /\ Holds(v, cap) => \A j \in DOMAIN k.queue : i < j => cap.draft \notin k.queue[j].ids
                      /\ \A d \in v.timers : cap # v.current[d]
    BY DEF Lined
  <2>1. i \in DOMAIN m.queue /\ k.queue[i] = m.queue[i]
    BY <1>1
  <2>2. cap \in CapturesTo(n)
    BY <2>1, JobsAndResults
  <2>3. /\ cap.rev <= v.sequence /\ m.queue[i].ids = {cap.draft}
        /\ Holds(v, cap) => \A j \in DOMAIN m.queue : i < j => cap.draft \notin m.queue[j].ids
        /\ \A d \in v.timers : cap # v.current[d]
    BY <2>1 DEF Lined
  <2>4. QED
    BY <1>1, <1>3, <2>1, <2>2, <2>3
<1>5. Awaited(v, k)
  <2> SUFFICES ASSUME NEW i \in DOMAIN m.results, m.results[i].job.op = "write",
                      NEW cap, cap = m.results[i].job.capture
               PROVE  /\ cap.rev <= v.sequence
                      /\ Holds(v, cap) =>
                           /\ \A j \in DOMAIN k.queue : cap.draft \notin k.queue[j].ids
                           /\ m.results[i].code = "ok" => m.disk[cap.draft] = cap.sql
                      /\ \A d \in v.timers : cap # v.current[d]
    BY DEF Awaited
  <2>1. cap \in CapturesTo(n)
    BY JobsAndResults
  <2>2. /\ cap.rev <= v.sequence
        /\ Holds(v, cap) =>
             /\ \A j \in DOMAIN m.queue : cap.draft \notin m.queue[j].ids
             /\ m.results[i].code = "ok" => m.disk[cap.draft] = cap.sql
        /\ \A d \in v.timers : cap # v.current[d]
    BY DEF Awaited
  <2>3. QED
    BY <1>1, <1>3, <2>1, <2>2
<1>6. /\ \A i \in DOMAIN m.queue : m.queue[i].op = "write"
      /\ \A i \in DOMAIN m.results : m.results[i].job.op = "write"
  BY DEF Requested, Asked
<1>7. Requested(k, z)
  BY <1>1, <1>6 DEF Requested
<1>8. ASSUME NEW s, Backed(m, v, s), Kept(v, s) => s.savedContext \notin e.ids PROVE Backed(k, v, s)
  <2> SUFFICES ASSUME Kept(v, s) PROVE Backed(k, v, s)
    BY DEF Backed
  <2> DEFINE d == s.savedContext
  <2>1. /\ m.disk[d] = s.sql /\ d \notin e.ids
        /\ v.current[d] # None => v.current[d].sql = s.sql
        /\ \A i \in DOMAIN m.queue :
             d \in m.queue[i].ids =>
               m.queue[i].op = "write" /\ (i = 1 /\ m.entered => m.queue[i].capture.sql = s.sql)
    BY <1>8 DEF Backed
  <2> HIDE DEF d
  <2>2. \A i \in DOMAIN k.queue :
          d \in k.queue[i].ids =>
            k.queue[i].op = "write" /\ (i = 1 /\ k.entered => k.queue[i].capture.sql = s.sql)
    BY <1>1, <2>1
  <2>3. QED
    BY <2>1, <2>2 DEF Backed, d
<1>9. QED
  BY <1>2, <1>4, <1>5, <1>7, <1>8

-----------------------------------------------------------------------------
(* Requests.                                                               *)

(* Nobody keeps a draft that is deleted.                                   *)
LEMMA DestroyedIsNotKept ==
  ASSUME NEW n, NEW w, NEW v, NEW p, NEW s, NEW known, NEW ids,
         Orderly(n, w), Sound(n, w, s, p), Destroyed(w, v, known, ids), Kept(v, s),
         \A d \in ids : d \in known \/ w.latest[d] = 0
  PROVE  s.savedContext \notin ids
<1>1. /\ s.savedContext \in Contexts /\ s.origin.rev \in Nat
      /\ 0 < s.origin.rev /\ s.origin.rev <= w.sequence /\ w.sequence \in Nat
  BY DEF Kept, Sound, Coherent, SessionsTo, Origins, Orderly, WritersTo
<1>2. v.latest[s.savedContext] = s.origin.rev
  BY DEF Kept
<1>3. QED
  BY <1>1, <1>2 DEF Destroyed

LEMMA TombstoneTended ==
  ASSUME NEW n \in Texts, NEW k, NEW m, NEW w, NEW v, NEW r, NEW z, NEW s, NEW p, NEW known, NEW ids,
         known \subseteq ids, Destroyed(w, v, known, ids), Orderly(n, w), Moves(n, w, v, p),
         Tended(n, m, w, r, s, p), Backed(k, v, s), z.enabled => r.enabled
  PROVE  Tended(n, k, v, z, Tombstone(s, ids), p)
<1> DEFINE t == Tombstone(s, ids)
<1>1. Sound(n, v, s, p)
  BY SoundLater DEF Tended
<1>2. s \in SessionsTo(n) /\ Owns(w, s, p)
  BY DEF Tended, Sound
<1>3. CASE ~s.open \/ Home(s) \notin ids
  <2>1. t = s
    BY <1>3 DEF Tombstone
  <2>2. Owns(v, s, p)
    BY <1>2 DEF Owns, Destroyed
  <2>3. s.open /\ s.active => Newest(v, s)
    <3>1. ASSUME s.open, s.active, Acked(s) PROVE v.latest[s.savedContext] = w.latest[s.savedContext]
      <4>1. s.savedContext \in Contexts /\ s.savedContext = s.bound /\ s.bound # None
        BY <1>1, <3>1 DEF Sound, Coherent, Acked, SessionsTo, Origins
      <4>2. s.savedContext \notin ids
        BY <1>3, <3>1, <4>1 DEF Home
      <4>3. QED
        BY <4>1, <4>2 DEF Destroyed
    <3>2. QED
      BY <3>1 DEF Newest, Tended
  <2>4. QED
    BY <1>1, <2>1, <2>2, <2>3 DEF Tended
<1>4. CASE s.open /\ Home(s) \in ids
  <2>1. t = [s EXCEPT !.deleted = TRUE, !.pending = None, !.savedSql = 0,
                      !.savedContext = None, !.state = "empty"]
    BY <1>4 DEF Tombstone
  <2>2. /\ t.open = s.open /\ t.active = s.active /\ t.closing = s.closing /\ t.sql = s.sql
        /\ t.context = s.context /\ t.bound = s.bound /\ t.capture = s.capture
        /\ t.origin = s.origin /\ t.editor = s.editor /\ t.savedSql = 0 /\ t.state = "empty"
    BY <1>2, <2>1 DEF SessionsTo
  <2>3. t \in SessionsTo(n)
    <3>1. 0 \in 0 .. n
      BY DraftParameters DEF Texts
    <3>2. QED
      BY <1>2, <2>1, <3>1, ZenonT(60) DEF SessionsTo, States
  <2> HIDE DEF t
  <2>4. ~Acked(t)
    BY <2>2 DEF Acked
  <2>5. Sound(n, v, t, p)
    BY <1>1, <2>2, <2>3, <2>4 DEF Sound, Coherent
  <2>6. Owns(v, t, p)
    <3> SUFFICES ASSUME NEW d \in Contexts, v.current[d] # None, v.current[d].page = p
                 PROVE  /\ t.open \/ t.closing
                        /\ t.open => /\ t.active /\ t.editor = v.current[d].editor
                                     /\ t.sql = v.current[d].sql
                                     /\ t.origin = [draft |-> d, rev |-> v.current[d].rev]
                                     /\ v.current[d].sql # 0 => t.bound = d /\ ~t.deleted
      BY DEF Owns
    <3>1. d \notin ids /\ v.current[d] = w.current[d]
      BY DEF Destroyed
    <3>2. /\ s.active /\ s.editor = v.current[d].editor /\ s.sql = v.current[d].sql
          /\ s.origin = [draft |-> d, rev |-> v.current[d].rev]
          /\ v.current[d].sql # 0 => s.bound = d
      BY <1>2, <1>4, <3>1 DEF Owns
    <3>3. v.current[d].sql = 0
      BY <1>4, <3>1, <3>2, NoneIsNone DEF Home
    <3>4. QED
      BY <1>4, <2>2, <3>2, <3>3
  <2>7. Newest(v, t) /\ Backed(k, v, t) /\ Honest(t) /\ Meant(t)
    BY <2>2, <2>4 DEF Newest, Backed, Kept, Honest, Meant
  <2>8. QED
    BY <2>5, <2>6, <2>7 DEF Tended, t
<1>5. QED
  BY <1>3, <1>4

LEMMA AllFenced ==
  ASSUME NEW n \in Texts, NEW w, NEW v, NEW p, Orderly(n, w), v = Fence(w, Contexts, FALSE, FALSE)
  PROVE  Moves(n, w, v, p) /\ v.latest = w.latest /\ \A d \in Contexts : v.current[d] = None
<1>1. ASSUME NEW a, NEW b PROVE Moves(n, w, Fence(w, Contexts, a, b), p)
  BY FenceMoves
<1>2. Moves(n, w, Fence(w, Contexts, FALSE, FALSE), p)
  BY <1>1, Zenon
<1>3. v.latest = w.latest /\ \A d \in Contexts : v.current[d] = None
  BY DEF Fence, Orderly, WritersTo
<1>4. QED
  BY <1>2, <1>3, Zenon

(* A request that destroys drafts.                                         *)
LEMMA DestroyKeeps ==
  ASSUME NEW n \in Texts, NEW m, NEW k, NEW w, NEW r, NEW z, NEW ss, NEW x,
         NEW e \in JobsTo(n), NEW known, NEW v,
         InvOf(n, w, m, r, ss, x), ~r.busy, e.op # "write", Asked(e, z), z \in Preferences,
         known \subseteq e.ids, \A d \in e.ids : d \in known \/ w.latest[d] = 0,
         Destroyed(w, v, known, e.ids), \A p : Moves(n, w, v, p),
         z.enabled = r.enabled, z.suspended /\ ~r.suspended => e.ids = Contexts,
         Joins(n, m, e, k)
  PROVE  InvOf(n, v, k, z, [p \in Pages |-> Tombstone(ss[p], e.ids)], x)
<1> DEFINE tt == [p \in Pages |-> Tombstone(ss[p], e.ids)]
<1>1. e.ids \in SUBSET Contexts
  BY DEF JobsTo
<1>2. /\ Orderly(n, w) /\ Stored(n, m) /\ Lined(w, m) /\ Awaited(w, m) /\ Requested(m, r)
      /\ Quiet(w, r) /\ ss \in [Pages -> SessionsTo(n)] /\ OneLive(ss)
  BY DEF InvOf
<1>4. Lined(v, m) /\ Awaited(v, m)
  BY <1>2, LineMoves
<1>5. \A d \in Contexts : d \in e.ids => v.current[d] = None
  BY DEF Destroyed
<1>6. /\ Stored(n, k) /\ Lined(v, k) /\ Awaited(v, k) /\ Requested(k, z)
      /\ \A s : Backed(m, v, s) /\ (Kept(v, s) => s.savedContext \notin e.ids) => Backed(k, v, s)
  BY <1>2, <1>4, <1>5, RequestJoins
<1>7. Quiet(v, z)
  BY <1>2 DEF Quiet, Destroyed
<1>8. ASSUME NEW s, NEW p, Sound(n, w, s, p), Backed(m, w, s) PROVE Backed(k, v, s)
  <2>1. Backed(m, v, s)
    BY <1>2, <1>8, BackedMoves
  <2>2. Kept(v, s) => s.savedContext \notin e.ids
    BY <1>2, <1>8, DestroyedIsNotKept
  <2>3. QED
    BY <1>6, <2>1, <2>2
<1>9. ASSUME NEW p \in Pages PROVE Tended(n, k, v, z, Tombstone(ss[p], e.ids), p)
  <2>1. Tended(n, m, w, r, ss[p], p)
    BY DEF InvOf
  <2>2. Backed(k, v, ss[p])
    BY <1>8, <2>1 DEF Tended
  <2>3. QED
    BY <1>2, <2>1, <2>2, TombstoneTended
<1>10. \A p \in Pages : tt[p] = Tombstone(ss[p], e.ids)
  OBVIOUS
<1>11. tt \in [Pages -> SessionsTo(n)]
  <2>1. \A p \in Pages : Tombstone(ss[p], e.ids) \in SessionsTo(n)
    BY <1>9 DEF Tended, Sound
  <2>2. QED
    BY <2>1
<1>12. OneLive(tt)
  <2>1. ASSUME NEW p \in Pages PROVE tt[p].open = ss[p].open /\ tt[p].active = ss[p].active
    <3>1. ss[p] \in SessionsTo(n)
      BY <1>2
    <3>2. QED
      BY <1>10, <3>1 DEF Tombstone, SessionsTo
  <2>2. QED
    BY <1>2, <2>1 DEF OneLive
<1> HIDE DEF tt
<1>13. Carried(n, k, v, x)
  <2>1. Carried(n, m, v, x)
    BY <1>2, CarriedMoves DEF InvOf
  <2>2. x # None => Backed(k, v, x.s)
    BY <1>8 DEF InvOf, Carried
  <2>3. QED
    BY <2>1, <2>2 DEF Carried
<1>14. \A p \in Pages : Tended(n, k, v, z, tt[p], p)
  BY <1>9, <1>10
<1>15. QED
  BY <1>6, <1>7, <1>11, <1>12, <1>13, <1>14 DEF InvOf, Moves, tt

(* Drafts are switched on: every current write is fenced first.            *)
LEMMA EnableKeeps ==
  ASSUME NEW n \in Texts, NEW m, NEW k, NEW w, NEW r, NEW z, NEW ss, NEW x,
         NEW e \in JobsTo(n), NEW v,
         InvOf(n, w, m, r, ss, x), ~r.busy, e.op # "write", e.ids = {}, Asked(e, z), z \in Preferences,
         Moves(n, w, v, 0), v.latest = w.latest, \A d \in Contexts : v.current[d] = None, z.enabled => r.enabled,
         Joins(n, m, e, k)
  PROVE  InvOf(n, v, k, z, ss, x)
<1>1. InvOf(n, v, m, r, ss, x)
  BY NobodyMoves
<1>2. /\ Stored(n, k) /\ Lined(v, k) /\ Awaited(v, k) /\ Requested(k, z)
      /\ \A s : Backed(m, v, s) /\ (Kept(v, s) => s.savedContext \notin e.ids) => Backed(k, v, s)
  BY <1>1, RequestJoins DEF InvOf
<1>3. Quiet(v, z)
  BY DEF Quiet
<1>4. \A s : Backed(m, v, s) => Backed(k, v, s)
  BY <1>2
<1>5. QED
  BY <1>1, <1>2, <1>3, <1>4, LineChanges

-----------------------------------------------------------------------------
(* The pages.                                                              *)

(* An empty session.                                                       *)
LEMMA NewIsTended ==
  ASSUME NEW n \in Texts, NEW m, NEW w, NEW r, NEW p, NEW s, NEW o \in BOOLEAN, NEW a \in BOOLEAN,
         NEW c \in Contexts \union {None}, o => c \in Contexts, s = NewSession(o, a, c), Freed(w, p)
  PROVE  /\ Sound(n, w, s, p) /\ Backed(m, w, s) /\ Honest(s) /\ s.capture = None
         /\ Tended(n, m, w, r, s, p)
<1>1. /\ s.open = o /\ s.active = a /\ s.sql = 0 /\ s.context = c /\ s.bound = None
      /\ s.capture = None /\ s.origin = None /\ s.state = "off"
  BY DEF NewSession
<1>2. s \in SessionsTo(n)
  <2>1. 0 \in 0 .. n
    BY DraftParameters DEF Texts
  <2>2. QED
    BY <2>1 DEF NewSession, SessionsTo, States
<1>3. ~Acked(s)
  BY <1>1 DEF Acked
<1>4. Sound(n, w, s, p)
  BY <1>1, <1>2, <1>3 DEF Sound, Coherent
<1>5. Backed(m, w, s) /\ Honest(s) /\ Meant(s) /\ Newest(w, s)
  BY <1>1, <1>3 DEF Backed, Kept, Honest, Meant, Newest
<1>6. Owns(w, s, p)
  BY FreedOwns
<1>7. QED
  BY <1>1, <1>4, <1>5, <1>6 DEF Tended

(* A page that is gone.                                                    *)
LEMMA RetiredIsTended ==
  ASSUME NEW n \in Texts, NEW m, NEW w, NEW r, NEW p
  PROVE  Tended(n, m, w, r, Retired, p) /\ Retired.open = FALSE
<1>1. /\ Retired.open = FALSE /\ Retired.closing = TRUE /\ Retired.sql = 0 /\ Retired.bound = None
      /\ Retired.capture = None /\ Retired.origin = None
  BY DEF Retired, Detached, NewSession
<1>2. Retired \in SessionsTo(n)
  <2>1. 0 \in 0 .. n
    BY DraftParameters DEF Texts
  <2>2. QED
    BY <2>1 DEF Retired, Detached, NewSession, SessionsTo, States
<1>3. ~Acked(Retired)
  BY <1>1 DEF Acked
<1>4. Sound(n, w, Retired, p)
  BY <1>1, <1>2, <1>3 DEF Sound, Coherent
<1>5. Backed(m, w, Retired) /\ Owns(w, Retired, p)
  BY <1>1, <1>3 DEF Backed, Kept, Owns
<1>6. QED
  BY <1>1, <1>4, <1>5 DEF Tended

LEMMA Reopened ==
  ASSUME NEW n, NEW x, x \in SessionsTo(n), NEW i \in Nat, NEW a \in BOOLEAN
  PROVE  [x EXCEPT !.open = TRUE, !.active = a, !.closing = FALSE, !.editor = i,
                   !.transferred = TRUE] \in SessionsTo(n)
  BY ZenonT(60) DEF SessionsTo

(* A page takes the snapshot over.                                         *)
LEMMA InstalledIsSound ==
  ASSUME NEW n \in Texts, NEW m, NEW w, NEW p, NEW q, NEW s, NEW x, s.editor \in Nat, s.active \in BOOLEAN,
         Sound(n, w, x, q), x.capture = None, x.open, Backed(m, w, x), Honest(x)
  PROVE  LET t == Installed(s, x)
         IN  /\ Sound(n, w, t, p) /\ Backed(m, w, t) /\ Honest(t)
             /\ t.open /\ t.active = s.active
<1> DEFINE i == IF s.editor > x.editor THEN s.editor ELSE x.editor
           y == [x EXCEPT !.open = TRUE, !.active = s.active, !.closing = FALSE, !.editor = i,
                          !.transferred = TRUE]
           z == [y EXCEPT !.state = "context_required"]
           t == Installed(s, x)
<1>1. x \in SessionsTo(n)
  BY DEF Sound
<1>2. t = IF pref.enabled /\ NeedsGuard(y) THEN z ELSE y
  BY DEF Installed
<1>3. i \in Nat
  BY <1>1 DEF SessionsTo
<1> HIDE DEF i
<1>4. y \in SessionsTo(n) /\ z \in SessionsTo(n)
  <2>1. y \in SessionsTo(n)
    BY <1>1, <1>3, Reopened, Zenon
  <2> HIDE DEF y
  <2>2. QED
    BY <2>1 DEF SessionsTo, States
<1>5. /\ t.open /\ t.active = s.active /\ t.sql = x.sql /\ t.savedSql = x.savedSql
      /\ t.context = x.context /\ t.savedContext = x.savedContext /\ t.bound = x.bound
      /\ t.capture = x.capture /\ t.origin = x.origin /\ t.deleted = x.deleted
      /\ t.overtaken = x.overtaken /\ (t.state = x.state \/ t.state = "context_required")
      /\ t \in SessionsTo(n)
  <2>1. CASE pref.enabled /\ NeedsGuard(y)
    BY <1>1, <1>2, <1>4, <2>1 DEF SessionsTo
  <2>2. CASE ~(pref.enabled /\ NeedsGuard(y))
    BY <1>1, <1>2, <1>4, <2>2 DEF SessionsTo
  <2>3. QED
    BY <2>1, <2>2
<1> HIDE DEF y, z, t
<1>6. Acked(t) <=> Acked(x)
  BY <1>5 DEF Acked
<1>7. Sound(n, w, t, p)
  <2>1. Coherent(w, x)
    BY DEF Sound
  <2>2. Coherent(w, t)
    BY <1>5, <1>6, <2>1 DEF Coherent
  <2>3. QED
    BY <1>5, <2>2 DEF Sound
<1>8. Backed(m, w, t)
  BY <1>5, <1>6 DEF Backed, Kept
<1>9. Honest(t)
  BY <1>5, <1>6 DEF Honest
<1>10. QED
  BY <1>5, <1>7, <1>8, <1>9 DEF t

(* A new text is typed.                                                    *)
LEMMA MoreTexts ==
  ASSUME NEW n \in Nat
  PROVE  /\ 0 .. n \subseteq 0 .. n + 1
         /\ CapturesTo(n) \subseteq CapturesTo(n + 1)
         /\ SessionsTo(n) \subseteq SessionsTo(n + 1)
         /\ WritersTo(n) \subseteq WritersTo(n + 1)
         /\ JobsTo(n) \subseteq JobsTo(n + 1)
         /\ ResultsTo(n) \subseteq ResultsTo(n + 1)
<1> DEFINE N == 0 .. n
           M == 0 .. n + 1
<1>1. N \subseteq M
  OBVIOUS
<1> HIDE DEF N, M
<1>2. CapturesTo(n) \subseteq CapturesTo(n + 1)
  <2> SUFFICES ASSUME NEW c \in CapturesTo(n) PROVE c \in CapturesTo(n + 1)
    OBVIOUS
  <2>1. c.sql \in N
    BY DEF CapturesTo, N
  <2>2. c.sql \in 0 .. n + 1
    BY <1>1, <2>1 DEF M
  <2>3. QED
    BY <2>2, ZenonT(60) DEF CapturesTo
<1>3. SessionsTo(n) \subseteq SessionsTo(n + 1)
  <2> SUFFICES ASSUME NEW s \in SessionsTo(n) PROVE s \in SessionsTo(n + 1)
    OBVIOUS
  <2>1. s.sql \in N /\ s.savedSql \in N /\ s.capture \in CapturesTo(n) \union {None}
    BY DEF SessionsTo, N
  <2>2. s.sql \in M /\ s.savedSql \in M /\ s.capture \in CapturesTo(n + 1) \union {None}
    BY <1>1, <1>2, <2>1
  <2>3. s.sql \in 0 .. n + 1 /\ s.savedSql \in 0 .. n + 1
    BY <2>2 DEF M
  <2>4. QED
    BY <2>2, <2>3, ZenonT(60) DEF SessionsTo
<1>4. WritersTo(n) \subseteq WritersTo(n + 1)
  <2> SUFFICES ASSUME NEW w \in WritersTo(n) PROVE w \in WritersTo(n + 1)
    OBVIOUS
  <2>1. w.current \in [Contexts -> CapturesTo(n) \union {None}]
    BY DEF WritersTo
  <2>2. w.current \in [Contexts -> CapturesTo(n + 1) \union {None}]
    BY <1>2, <2>1
  <2>3. QED
    BY <2>2, ZenonT(60) DEF WritersTo
<1>5. JobsTo(n) \subseteq JobsTo(n + 1)
  BY <1>1, <1>2 DEF JobsTo, N, M
<1>6. ResultsTo(n) \subseteq ResultsTo(n + 1)
  BY <1>5 DEF ResultsTo
<1>7. QED
  BY <1>1, <1>2, <1>3, <1>4, <1>5, <1>6 DEF N, M

LEMMA MoreIsKept ==
  ASSUME NEW n \in Nat, NEW w, NEW m, NEW r, NEW ss, NEW x, InvOf(n, w, m, r, ss, x)
  PROVE  InvOf(n + 1, w, m, r, ss, x)
<1>1. Orderly(n + 1, w)
  BY MoreTexts DEF InvOf, Orderly
<1>2. Stored(n + 1, m)
  <2>1. m.queue \in Seq(JobsTo(n + 1)) /\ m.results \in Seq(ResultsTo(n + 1))
    BY MoreTexts, SeqMonotonic DEF InvOf, Stored
  <2>2. [Contexts -> 0 .. n] \subseteq [Contexts -> 0 .. n + 1]
    BY MoreTexts
  <2>3. QED
    BY <2>1, <2>2 DEF InvOf, Stored
<1>3. \A s, p : Sound(n, w, s, p) => Sound(n + 1, w, s, p)
  BY MoreTexts DEF Sound
<1>4. \A p \in Pages : Tended(n + 1, m, w, r, ss[p], p)
  BY <1>3 DEF InvOf, Tended
<1>5. Carried(n + 1, m, w, x)
  <2>1. [page : Nat, s : SessionsTo(n)] \subseteq [page : Nat, s : SessionsTo(n + 1)]
    BY MoreTexts
  <2>2. QED
    BY <1>3, <2>1 DEF InvOf, Carried
<1>6. ss \in [Pages -> SessionsTo(n + 1)]
  BY MoreTexts DEF InvOf
<1>7. QED
  BY <1>1, <1>2, <1>4, <1>5, <1>6 DEF InvOf

(* Shutdown closes the intake.                                             *)
LEMMA IntakeCloses ==
  ASSUME NEW n, NEW w, NEW v, NEW m, NEW r, NEW ss, NEW x, InvOf(n, w, m, r, ss, x),
         v = [w EXCEPT !.intake = FALSE]
  PROVE  InvOf(n, v, m, r, ss, x)
<1>1. w \in WritersTo(n)
  BY DEF InvOf, Orderly
<1>2. v \in WritersTo(n)
  BY <1>1 DEF WritersTo
<1>3. /\ v.sequence = w.sequence /\ v.latest = w.latest /\ v.current = w.current
      /\ v.unconfirmed = w.unconfirmed /\ v.timers = w.timers
  BY <1>1 DEF WritersTo
<1>4. Orderly(n, v)
  BY <1>2, <1>3 DEF InvOf, Orderly, Coordinated
<1>5. Lined(v, m) /\ Awaited(v, m) /\ Quiet(v, r)
  BY <1>3 DEF InvOf, Lined, Awaited, Quiet, Holds
<1>6. \A s, p : Sound(n, w, s, p) => Sound(n, v, s, p)
  BY <1>3 DEF Sound, Coherent
<1>7. \A s : Backed(m, w, s) => Backed(m, v, s)
  BY <1>3 DEF Backed, Kept
<1>8. \A p \in Pages : Tended(n, m, v, r, ss[p], p)
  <2>1. \A s, p : Owns(w, s, p) => Owns(v, s, p)
    BY <1>3 DEF Owns
  <2>2. \A s : Newest(w, s) => Newest(v, s)
    BY <1>3 DEF Newest
  <2>3. QED
    BY <1>6, <1>7, <2>1, <2>2 DEF InvOf, Tended
<1>9. Carried(n, m, v, x)
  BY <1>6, <1>7 DEF InvOf, Carried
<1>10. QED
  BY <1>4, <1>5, <1>8, <1>9 DEF InvOf

(* A session that has to wait for its context says that instead.           *)
LEMMA GuardedTended ==
  ASSUME NEW n \in Texts, NEW m, NEW w, NEW r, NEW s, NEW p, Served(n, m, w, s, p),
         s.open, s.active, Meant(s), r.enabled /\ ~NeedsGuard(s) => Honest(s)
  PROVE  LET t == IF NeedsGuard(s) THEN [s EXCEPT !.state = "context_required"] ELSE s
         IN  Tended(n, m, w, r, t, p) /\ t.open /\ t.active
<1>1. s \in SessionsTo(n)
  BY DEF Served, Sound
<1>2. CASE NeedsGuard(s)
  <2> DEFINE t == [s EXCEPT !.state = "context_required"]
  <2>1. t.open /\ t.active /\ t.state = "context_required"
    BY <1>1 DEF SessionsTo
  <2>2. Served(n, m, w, t, p)
    BY SayingServes DEF States
  <2> HIDE DEF t
  <2>3. Tended(n, m, w, r, t, p)
    BY <2>1, <2>2 DEF Tended, Served, Meant, Honest
  <2>4. QED
    BY <1>2, <2>1, <2>3 DEF t
<1>3. CASE ~NeedsGuard(s)
  BY <1>3 DEF Tended, Served
<1>4. QED
  BY <1>2, <1>3

LEMMA Acknowledged ==
  ASSUME NEW n, NEW s \in SessionsTo(n), NEW j \in 0 .. n, NEW d \in Contexts,
         NEW a \in CapturesTo(n) \union {None}, NEW say \in States
  PROVE  [s EXCEPT !.failed = FALSE, !.overtaken = FALSE, !.savedSql = j, !.savedContext = d,
                   !.capture = a, !.state = say] \in SessionsTo(n)
<1>1. d \in Contexts \union {None}
  OBVIOUS
<1>2. QED
  BY <1>1, ZenonT(60) DEF SessionsTo

LEMMA Failed ==
  ASSUME NEW n, NEW s \in SessionsTo(n), NEW a \in States
  PROVE  [s EXCEPT !.failed = TRUE, !.state = a] \in SessionsTo(n)
BY ZenonT(60) DEF SessionsTo

(* A page learns what became of its write.                                 *)
LEMMA CompletedTended ==
  ASSUME NEW n \in Texts, NEW k, NEW w, NEW v, NEW r, NEW s, NEW cap \in CapturesTo(n), NEW code, NEW p,
         p = cap.page, Orderly(n, w), Tended(n, k, w, r, s, p),
         Moves(n, w, v, p), v.latest = w.latest, v.current = w.current,
         s.open, Holds(w, cap),
         \A j \in DOMAIN k.queue : cap.draft \notin k.queue[j].ids,
         code = "ok" => k.disk[cap.draft] = cap.sql, r.enabled
  PROVE  LET t == Completed(s, cap, code)
         IN  Tended(n, k, v, r, t, p) /\ t.open /\ t.active
<1> DEFINE d == cap.draft
           t == Completed(s, cap, code)
           a == IF cap.sql = 0 THEN None ELSE s.capture
           say == IF cap.sql = 0 THEN "empty" ELSE "saved"
           y == [s EXCEPT !.failed = FALSE, !.overtaken = FALSE, !.savedSql = cap.sql,
                          !.savedContext = d, !.capture = a, !.state = say]
           z == [s EXCEPT !.failed = TRUE, !.state = "error"]
           u == IF code = "ok" THEN y ELSE IF code = "io" THEN z ELSE s
           Guarded(e) == IF NeedsGuard(e) THEN [e EXCEPT !.state = "context_required"] ELSE e
<1>1. s \in SessionsTo(n) /\ d \in Contexts /\ cap.sql \in 0 .. n /\ cap.page = p
      /\ w.current[d] = cap /\ cap # None /\ v.current[d] = cap
  BY NoneIsNone DEF Tended, Sound, CapturesTo, Holds
<1>2. /\ s.active /\ s.sql = cap.sql /\ s.origin = [draft |-> d, rev |-> cap.rev]
      /\ (cap.sql # 0 => s.bound = d /\ ~s.deleted)
  BY <1>1 DEF Tended, Owns
<1>3. t = Guarded(u)
  BY DEF Completed
<1>4. a \in CapturesTo(n) \union {None} /\ say \in States /\ (a = s.capture \/ a = None)
      /\ (cap.sql # 0 => say = "saved") /\ (cap.sql = 0 => say = "empty")
  BY <1>1 DEF SessionsTo, States
<1> HIDE DEF a, say
<1>5. y \in SessionsTo(n) /\ z \in SessionsTo(n)
  BY <1>1, <1>4, Acknowledged, Failed, ZenonT(60) DEF States
<1>6. /\ y.open /\ y.active /\ y.closing = s.closing /\ y.sql = s.sql /\ y.context = s.context
      /\ y.bound = s.bound /\ y.savedSql = cap.sql /\ y.savedContext = d /\ y.editor = s.editor
      /\ y.deleted = s.deleted /\ y.capture = a /\ y.origin = s.origin /\ y.state = say
      /\ y.overtaken = FALSE
  BY <1>1, <1>2 DEF SessionsTo
<1>7. /\ z.state = "error" /\ z.open /\ z.active /\ z.closing = s.closing /\ z.sql = s.sql
      /\ z.savedSql = s.savedSql /\ z.bound = s.bound /\ z.savedContext = s.savedContext
      /\ z.deleted = s.deleted /\ z.capture = s.capture /\ z.origin = s.origin
      /\ z.overtaken = s.overtaken /\ z.context = s.context /\ z.editor = s.editor
  BY <1>1, <1>2 DEF SessionsTo
<1> HIDE DEF y, z
<1>8. Served(n, k, v, s, p) /\ Meant(s) /\ Honest(s)
  <2>1. Sound(n, v, s, p) /\ Newest(v, s) /\ Owns(v, s, p) /\ Backed(k, v, s)
    BY <1>2, StaysServed DEF Tended
  <2>2. QED
    BY <1>2, <2>1 DEF Tended, Served
<1>9. ASSUME code = "ok" PROVE Served(n, k, v, y, p) /\ Meant(y) /\ (~NeedsGuard(y) => Honest(y))
  <2>1. (Acked(y) <=> cap.sql # 0) /\ (Kept(v, y) => cap.sql # 0)
    BY <1>2, <1>6 DEF Acked, Kept
  <2>2. s.origin.draft = d /\ s.origin.rev = cap.rev /\ s.origin # None
    <3>1. cap.rev \in Nat
      BY DEF CapturesTo
    <3>2. s.origin \in Origins
      BY <1>1, <1>2, <3>1 DEF Origins
    <3>3. QED
      BY <1>2, <3>2, NoneIsNone
  <2>3. v.latest[d] = cap.rev
    BY <1>1 DEF Orderly, Coordinated
  <2>4. Sound(n, v, y, p)
    <3>1. Coherent(v, y)
      BY <1>2, <1>6, <1>8, <2>1, <2>2 DEF Served, Sound, Coherent
    <3>2. y.capture # None => y.capture.page = p
      BY <1>4, <1>6, <1>8 DEF Served, Sound
    <3>3. QED
      BY <1>5, <3>1, <3>2 DEF Sound
  <2>5. Owns(v, y, p)
    BY <1>2, <1>6, <1>8 DEF Served, Owns
  <2>6. Newest(v, y)
    BY <1>6, <2>2, <2>3 DEF Newest
  <2>7. Backed(k, v, y)
    BY <1>1, <1>2, <1>6, <1>9 DEF Backed, d
  <2>8. Meant(y) /\ (~NeedsGuard(y) => Honest(y))
    <3>1. CASE cap.sql = 0
      BY <1>4, <1>6, <3>1 DEF Meant, Honest
    <3>2. CASE cap.sql # 0
      <4>1. y.bound # None
        BY <1>1, <1>2, <1>6, <3>2, NoneIsNone
      <4>2. QED
        BY <1>2, <1>6, <2>1, <3>2, <4>1 DEF Meant, Honest, NeedsGuard
    <3>3. QED
      BY <3>1, <3>2
  <2>9. QED
    BY <2>4, <2>5, <2>6, <2>7, <2>8 DEF Served
<1>10. Served(n, k, v, z, p) /\ Meant(z) /\ Honest(z)
  <2>1. Sound(n, v, z, p)
    BY <1>5, <1>7, <1>8 DEF Served, Sound, Coherent, Acked
  <2>2. Owns(v, z, p) /\ Newest(v, z) /\ Backed(k, v, z)
    BY <1>2, <1>7, <1>8 DEF Served, Owns, Newest, Backed, Kept, Acked
  <2>3. QED
    BY <1>7, <2>1, <2>2 DEF Served, Meant, Honest
<1>11. Served(n, k, v, u, p) /\ Meant(u) /\ (~NeedsGuard(u) => Honest(u)) /\ u.open /\ u.active
  BY <1>2, <1>6, <1>7, <1>8, <1>9, <1>10
<1> HIDE DEF u, t
<1>12. QED
  BY <1>3, <1>11, GuardedTended DEF t

(* Another context is selected.                                            *)
LEMMA ContextTended ==
  ASSUME NEW n \in Texts, NEW m, NEW w, NEW r, NEW s, NEW p, NEW c \in Contexts,
         Tended(n, m, w, r, s, p), s.open, s.active
  PROVE  LET y == [s EXCEPT !.context = c]
             state == IF r.enabled /\ NeedsGuard(y) THEN "context_required"
                      ELSE IF y.state # "context_required" \/ y.bound # c THEN y.state
                      ELSE IF y.failed THEN "error"
                      ELSE IF Unsaved(y, c) THEN "pending" ELSE "saved"
             t == [y EXCEPT !.state = state]
         IN  Tended(n, m, w, r, t, p) /\ t.open /\ t.active
<1> DEFINE y == [s EXCEPT !.context = c]
           state == IF r.enabled /\ NeedsGuard(y) THEN "context_required"
                    ELSE IF y.state # "context_required" \/ y.bound # c THEN y.state
                    ELSE IF y.failed THEN "error"
                    ELSE IF Unsaved(y, c) THEN "pending" ELSE "saved"
           t == [y EXCEPT !.state = state]
<1>1. s \in SessionsTo(n)
  BY DEF Tended, Sound
<1>2. y \in SessionsTo(n)
  BY <1>1 DEF SessionsTo
<1>3. /\ y.open /\ y.active /\ y.closing = s.closing /\ y.sql = s.sql /\ y.context = c
      /\ y.savedSql = s.savedSql /\ y.bound = s.bound /\ y.savedContext = s.savedContext
      /\ y.deleted = s.deleted /\ y.capture = s.capture /\ y.origin = s.origin
      /\ y.overtaken = s.overtaken /\ y.editor = s.editor /\ y.state = s.state
  BY <1>1 DEF SessionsTo
<1> HIDE DEF y
<1>4. Served(n, m, w, y, p)
  <2>1. Sound(n, w, y, p)
    BY <1>2, <1>3 DEF Tended, Sound, Coherent, Acked
  <2>2. Owns(w, y, p) /\ Newest(w, y) /\ Backed(m, w, y)
    BY <1>3 DEF Tended, Owns, Newest, Backed, Kept, Acked
  <2>3. QED
    BY <2>1, <2>2 DEF Served
<1>5. state \in States
  BY <1>2 DEF SessionsTo, States
<1>6. state = "saved" => y.sql # 0
  <2>1. y.bound # None <=> y.sql # 0
    BY <1>4 DEF Served, Sound, Coherent
  <2>2. QED
    BY <1>3, <2>1, NoneIsNone DEF Tended, Meant
<1>7. r.enabled /\ state = "saved" => Acked(y) /\ c = y.savedContext
  <2>1. SUFFICES ASSUME r.enabled, state = "saved" PROVE Acked(y) /\ c = y.savedContext
    OBVIOUS
  <2>2. y.sql # 0 /\ y.bound # None
    BY <1>4, <1>6, <2>1 DEF Served, Sound, Coherent
  <2>3. y.bound = c
    BY <1>3, <2>1, <2>2 DEF NeedsGuard
  <2>4. CASE y.state = "saved"
    BY <1>3, <1>4, <2>1, <2>3, <2>4 DEF Tended, Honest, Acked, Served, Sound, Coherent
  <2>5. CASE y.state # "saved"
    BY <2>1, <2>2, <2>5 DEF Unsaved, Acked
  <2>6. QED
    BY <2>4, <2>5
<1>8. Served(n, m, w, t, p)
  BY <1>4, <1>5, SayingServes
<1>9. /\ t.open /\ t.active /\ t.state = state /\ t.sql = y.sql /\ t.savedSql = y.savedSql
      /\ t.context = c /\ t.savedContext = y.savedContext
  BY <1>2, <1>3 DEF SessionsTo
<1> HIDE DEF t, state
<1>10. Tended(n, m, w, r, t, p)
  BY <1>6, <1>7, <1>8, <1>9 DEF Tended, Served, Meant, Honest, Acked
<1>11. QED
  BY <1>9, <1>10 DEF t, state, y

(* A page that is shut down stays as it was.                               *)
LEMMA ClosingTended ==
  ASSUME NEW n, NEW m, NEW w, NEW r, NEW s, NEW p, Tended(n, m, w, r, s, p)
  PROVE  LET t == [s EXCEPT !.closing = TRUE]
         IN  Tended(n, m, w, r, t, p) /\ t.open = s.open /\ t.active = s.active
<1> DEFINE t == [s EXCEPT !.closing = TRUE]
<1>1. s \in SessionsTo(n)
  BY DEF Tended, Sound
<1>2. t \in SessionsTo(n)
  BY <1>1 DEF SessionsTo
<1>3. /\ t.open = s.open /\ t.active = s.active /\ t.closing /\ t.sql = s.sql /\ t.context = s.context
      /\ t.savedSql = s.savedSql /\ t.bound = s.bound /\ t.savedContext = s.savedContext
      /\ t.deleted = s.deleted /\ t.capture = s.capture /\ t.origin = s.origin
      /\ t.overtaken = s.overtaken /\ t.editor = s.editor /\ t.state = s.state
  BY <1>1 DEF SessionsTo
<1> HIDE DEF t
<1>4. Sound(n, w, t, p)
  BY <1>2, <1>3 DEF Tended, Sound, Coherent, Acked
<1>5. Owns(w, t, p) /\ (Newest(w, s) => Newest(w, t)) /\ Backed(m, w, t)
  BY <1>3 DEF Tended, Owns, Newest, Backed, Kept, Acked
<1>6. Tended(n, m, w, r, t, p)
  BY <1>3, <1>4, <1>5 DEF Tended, Meant, Honest, Acked
<1>7. QED
  BY <1>3, <1>6 DEF t

(* A page is told that drafts are off, or cannot be saved.                 *)
LEMMA ToldTended ==
  ASSUME NEW n \in Texts, NEW m, NEW w, NEW r, NEW z, NEW s, NEW p, NEW state \in States \ {"saved"},
         Tended(n, m, w, r, s, p)
  PROVE  LET t == IF ~s.open THEN s ELSE [s EXCEPT !.state = state]
         IN  Tended(n, m, w, z, t, p) /\ t.open = s.open /\ t.active = s.active
<1> DEFINE t == [s EXCEPT !.state = state]
<1>1. s \in SessionsTo(n)
  BY DEF Tended, Sound
<1>2. t \in SessionsTo(n)
  BY <1>1 DEF SessionsTo
<1>3. /\ t.open = s.open /\ t.active = s.active /\ t.closing = s.closing /\ t.sql = s.sql
      /\ t.context = s.context
      /\ t.savedSql = s.savedSql /\ t.bound = s.bound /\ t.savedContext = s.savedContext
      /\ t.deleted = s.deleted /\ t.capture = s.capture /\ t.origin = s.origin
      /\ t.overtaken = s.overtaken /\ t.editor = s.editor /\ t.state = state
  BY <1>1 DEF SessionsTo
<1> HIDE DEF t
<1>4. Sound(n, w, t, p)
  BY <1>2, <1>3 DEF Tended, Sound, Coherent, Acked
<1>5. Owns(w, t, p) /\ (Newest(w, s) => Newest(w, t)) /\ Backed(m, w, t)
  BY <1>3 DEF Tended, Owns, Newest, Backed, Kept, Acked
<1>6. Tended(n, m, w, z, t, p)
  BY <1>3, <1>4, <1>5 DEF Tended, Meant, Honest
<1>7. CASE s.open
  BY <1>3, <1>6, <1>7 DEF t
<1>8. CASE ~s.open
  BY <1>8 DEF Tended
<1>9. QED
  BY <1>7, <1>8

(* Every page is told that.                                                *)
LEMMA PreferenceTold ==
  ASSUME NEW n \in Texts, NEW m, NEW w, NEW r, NEW z, NEW ss, NEW x, NEW state \in States \ {"saved"},
         InvOf(n, w, m, r, ss, x), r.suspended, z \in Preferences, Requested(m, z)
  PROVE  InvOf(n, w, m, z, [p \in Pages |-> IF ~ss[p].open THEN ss[p]
                                            ELSE [ss[p] EXCEPT !.state = state]], x)
<1> DEFINE Told(s) == IF ~s.open THEN s ELSE [s EXCEPT !.state = state]
           tt == [p \in Pages |-> Told(ss[p])]
<1>1. ASSUME NEW p \in Pages
      PROVE  Tended(n, m, w, z, tt[p], p) /\ tt[p].open = ss[p].open /\ tt[p].active = ss[p].active
  BY ToldTended DEF InvOf
<1>2. tt = [p \in Pages |-> tt[p]]
  OBVIOUS
<1> HIDE DEF tt
<1>3. tt \in [Pages -> SessionsTo(n)]
  BY <1>1, <1>2 DEF Tended, Sound
<1>4. OneLive(tt)
  BY <1>1 DEF InvOf, OneLive
<1>5. Quiet(w, z)
  BY DEF InvOf, Quiet
<1>6. InvOf(n, w, m, z, tt, x)
  BY <1>1, <1>3, <1>4, <1>5 DEF InvOf
<1>7. QED
  BY <1>6 DEF tt, Told

\* The sessions with this one in the page's place.
Replaced(ss, p, s) == [ss EXCEPT ![p] = s]

\* The invariant holds, the coordinator having gone from w to v.
Leads(n, w, v, m, r, ss, x) == InvOf(n, v, m, r, ss, x) /\ v.intake = w.intake

(* Drafts are on: the live page saves its text again.                      *)
LEMMA Resaved ==
  ASSUME NEW n \in Texts, NEW m, NEW w, NEW r, NEW z, NEW ss, NEW x, NEW p \in Pages,
         InvOf(n, w, m, r, ss, x), w.intake, z \in Preferences, z.enabled, ~z.suspended,
         Requested(m, z), ss[p].open, ss[p].active, NEW u, NEW tt,
         u = Edited(w, z, ss[p], p, ss[p].sql), tt = Replaced(ss, p, u.s)
  PROVE  Leads(n, w, u.w, m, z, tt, x)
<1> DEFINE s == ss[p]
<1>1. Orderly(n, w) /\ Tended(n, m, w, r, s, p) /\ s \in SessionsTo(n)
  BY DEF InvOf
<1>2. Served(n, m, w, s, p) /\ s.sql \in 0 .. n /\ s.open /\ s.active
  BY <1>1 DEF Tended, Served, SessionsTo
<1>3. z.enabled \in BOOLEAN /\ (~z.enabled => Freed(w, p))
  BY DEF Preferences
<1>4. /\ Moves(n, w, u.w, p) /\ Served(n, m, u.w, u.s, p)
      /\ u.s.state # "saved" /\ u.s.open /\ u.s.active
  BY <1>1, <1>2, <1>3, EditedServes
<1>5. Tended(n, m, u.w, z, u.s, p)
  BY <1>4 DEF Tended, Served, Meant, Honest
<1>6. Quiet(u.w, z)
  BY DEF Quiet
<1>7. \A q \in Pages \ {p} : ~(ss[q].open /\ ss[q].active)
  BY DEF InvOf, OneLive
<1>8. InvOf(n, u.w, m, z, [ss EXCEPT ![p] = u.s], x)
  BY <1>4, <1>5, <1>6, <1>7, PageMoves
<1>9. u.w.intake = w.intake
  BY <1>4 DEF Moves
<1>10. QED
  BY <1>8, <1>9 DEF Replaced, Leads

(* Nobody has a text to save again.                                        *)
LEMMA NothingResaved ==
  ASSUME NEW n, NEW m, NEW w, NEW r, NEW z, NEW ss, NEW x,
         InvOf(n, w, m, r, ss, x), z \in Preferences, z.enabled, ~z.suspended, Requested(m, z),
         \A p \in Pages : ~(ss[p].open /\ ss[p].active /\ ss[p].sql # 0)
  PROVE  InvOf(n, w, m, z, ss, x)
<1>1. \A p \in Pages : Tended(n, m, w, z, ss[p], p)
  BY DEF InvOf, Tended, Meant, Honest
<1>2. QED
  BY <1>1 DEF InvOf, Quiet
-----------------------------------------------------------------------------
(* What the pages do.                                                      *)

LEMMA EditKeeps ==
  ASSUME NEW n \in Texts, NEW m, NEW w, NEW r, NEW ss, NEW x, NEW p \in Pages, NEW text \in 0 .. n,
         InvOf(n, w, m, r, ss, x), w.intake, ss[p].open, ss[p].active,
         text = 0 \/ text # ss[p].savedSql, NEW v, NEW tt,
         v = Edited(w, r, ss[p], p, text).w, tt = Replaced(ss, p, Edited(w, r, ss[p], p, text).s)
  PROVE  Leads(n, w, v, m, r, tt, x)
<1> DEFINE s == ss[p]
           u == Edited(w, r, s, p, text)
<1>1. Orderly(n, w) /\ Tended(n, m, w, r, s, p) /\ Quiet(w, r)
  BY DEF InvOf
<1>2. Served(n, m, w, s, p) /\ s.open /\ s.active
  BY <1>1 DEF Tended, Served
<1>3. r.enabled \in BOOLEAN /\ (~r.enabled => Freed(w, p))
  BY DEF InvOf, Preferences, Quiet, Freed
<1>4. /\ Moves(n, w, u.w, p) /\ Served(n, m, u.w, u.s, p)
      /\ (~r.enabled \/ r.suspended => Silent(w, u.w))
      /\ u.s.state # "saved" /\ u.s.open /\ u.s.active
  BY <1>1, <1>2, <1>3, EditedServes
<1> HIDE DEF u
<1>5. Tended(n, m, u.w, r, u.s, p)
  BY <1>4 DEF Tended, Served, Meant, Honest
<1>6. Quiet(u.w, r)
  BY <1>1, <1>4, SilentQuiet
<1>7. \A q \in Pages \ {p} : ~(ss[q].open /\ ss[q].active)
  BY DEF InvOf, OneLive
<1>8. r \in Preferences /\ Requested(m, r)
  BY DEF InvOf
<1>9. InvOf(n, u.w, m, r, [ss EXCEPT ![p] = u.s], x)
  BY <1>4, <1>5, <1>6, <1>7, <1>8, PageMoves
<1>10. u.w.intake = w.intake
  BY <1>4 DEF Moves
<1>11. QED
  BY <1>9, <1>10 DEF u, Replaced, Leads

(* A page says, or is, something else; the coordinator stands still.        *)
LEMMA PageChanges ==
  ASSUME NEW n, NEW m, NEW w, NEW r, NEW ss, NEW x, NEW p \in Pages, NEW t,
         InvOf(n, w, m, r, ss, x), Tended(n, m, w, r, t, p),
         t.open /\ t.active => \A q \in Pages \ {p} : ~(ss[q].open /\ ss[q].active)
  PROVE  InvOf(n, w, m, r, [ss EXCEPT ![p] = t], x)
<1>1. Moves(n, w, w, p)
  BY StandsStill DEF InvOf
<1>2. r \in Preferences /\ Requested(m, r) /\ Quiet(w, r)
  BY DEF InvOf
<1>3. QED
  BY <1>1, <1>2, PageMoves

LEMMA ContextKeeps ==
  ASSUME NEW n \in Texts, NEW m, NEW w, NEW r, NEW ss, NEW x, NEW p \in Pages, NEW c \in Contexts,
         InvOf(n, w, m, r, ss, x), ss[p].open, ss[p].active
  PROVE  LET y == [ss[p] EXCEPT !.context = c]
             state == IF r.enabled /\ NeedsGuard(y) THEN "context_required"
                      ELSE IF y.state # "context_required" \/ y.bound # c THEN y.state
                      ELSE IF y.failed THEN "error"
                      ELSE IF Unsaved(y, c) THEN "pending" ELSE "saved"
             t == [y EXCEPT !.state = state]
         IN  InvOf(n, w, m, r, [ss EXCEPT ![p] = t], x)
<1> DEFINE y == [ss[p] EXCEPT !.context = c]
           state == IF r.enabled /\ NeedsGuard(y) THEN "context_required"
                    ELSE IF y.state # "context_required" \/ y.bound # c THEN y.state
                    ELSE IF y.failed THEN "error"
                    ELSE IF Unsaved(y, c) THEN "pending" ELSE "saved"
           t == [y EXCEPT !.state = state]
<1>1. Tended(n, m, w, r, ss[p], p)
  BY DEF InvOf
<1>2. Tended(n, m, w, r, t, p)
  BY <1>1, ContextTended
<1>3. \A q \in Pages \ {p} : ~(ss[q].open /\ ss[q].active)
  BY DEF InvOf, OneLive
<1> HIDE DEF t
<1>4. InvOf(n, w, m, r, [ss EXCEPT ![p] = t], x)
  BY <1>2, <1>3, PageChanges
<1>5. QED
  BY <1>4 DEF t, state, y

\* The sequence z is q, followed by t, whatever their elements are.
Chained(q, t, z) == \A S : q \in Seq(S) /\ t \in Seq(S) => Follows(S, q, t, z)

\* The page has come to its end: what it started is in its jobs.
Ends(n, m, w, r, s, p, u) ==
    /\ u.jobs \in Seq(JobsTo(n)) /\ u.s.open = s.open /\ u.s.active = s.active
    /\ \E v, ids :
         /\ Moves(n, w, v, p) /\ Tended(n, m, v, r, u.s, p) /\ Quiet(v, r)
         /\ s.active \/ v.latest = w.latest
         /\ u.w = Launch(v, ids) /\ Starts(v, ids, u.jobs)

LEMMA NoneStart ==
  ASSUME NEW n, NEW w, Orderly(n, w), NEW jobs, jobs = << >>
  PROVE  jobs \in Seq(JobsTo(n)) /\ Starts(w, {}, jobs) /\ Launch(w, {}) = w
<1>1. jobs \in Seq(JobsTo(n)) /\ DOMAIN jobs = {}
  BY EmptySeq
<1>2. Starts(w, {}, jobs)
  BY <1>1, Zenon DEF Starts
<1>3. Launch(w, {}) = w
  <2>1. w.timers \ {} = w.timers
    OBVIOUS
  <2>2. QED
    BY <2>1 DEF Launch, Orderly, WritersTo
<1>4. QED
  BY <1>1, <1>2, <1>3

LEMMA StandsEnds ==
  ASSUME NEW n, NEW m, NEW w, NEW r, NEW s, NEW p, NEW u, Orderly(n, w), Quiet(w, r),
         Tended(n, m, w, r, s, p), u.w = w, u.s = s, u.jobs = << >>
  PROVE  Ends(n, m, w, r, s, p, u)
<1>1. u.jobs \in Seq(JobsTo(n)) /\ Starts(w, {}, u.jobs) /\ Launch(w, {}) = w
  BY NoneStart, Zenon
<1>2. Moves(n, w, w, p)
  BY StandsStill, Zenon
<1>3. s.active \/ w.latest = w.latest
  OBVIOUS
<1>4. \E v, ids :
         /\ Moves(n, w, v, p) /\ Tended(n, m, v, r, u.s, p) /\ Quiet(v, r)
         /\ s.active \/ v.latest = w.latest
         /\ u.w = Launch(v, ids) /\ Starts(v, ids, u.jobs)
  <2>1. u.w = Launch(w, {}) /\ Tended(n, m, w, r, u.s, p)
    BY <1>1, Zenon
  <2>2. QED
    BY <1>1, <1>2, <1>3, <2>1, Zenon
<1>5. QED
  BY <1>1, <1>4, Zenon DEF Ends

LEMMA FinalEnds ==
  ASSUME NEW n \in Texts, NEW m, NEW w, NEW r, NEW ss, NEW x, NEW p \in Pages,
         InvOf(n, w, m, r, ss, x), ss[p].open
  PROVE  Ends(n, m, w, r, ss[p], p, PrepareFinal(w, r, ss[p], p))
<1> DEFINE s == ss[p]
           u == PrepareFinal(w, r, s, p)
           Still == StartsNothing(w, s, u)
           Jobs1(v, d) == IF d \in v.timers THEN <<WriteJob(v.current[d])>> ELSE << >>
           Started(v, d) == StartsFrom(n, m, w, r, s, p, u, v, d)
<1>1. Orderly(n, w) /\ Tended(n, m, w, r, s, p) /\ Quiet(w, r)
  BY DEF InvOf
<1>2. Sound(n, w, s, p) /\ Owns(w, s, p) /\ Backed(m, w, s)
  BY <1>1 DEF Tended
<1> HIDE DEF s
<1>3. Still \/ \E v : \E d \in Contexts : Started(v, d)
  <2>1. Orderly(n, w)
    BY <1>1
  <2>2. Sound(n, w, s, p)
    BY <1>2
  <2>3. Owns(w, s, p)
    BY <1>2
  <2>4. Backed(m, w, s)
    BY <1>2
  <2>5. s.open
    BY DEF s
  <2>6. QED
    BY <2>1, <2>2, <2>3, <2>4, <2>5, PrepareFinalServes, ZenonT(60)
<1> HIDE DEF u
<1>4. ASSUME Still PROVE Ends(n, m, w, r, s, p, u)
  BY <1>1, <1>4, StandsEnds, Zenon DEF StartsNothing
<1>5. ASSUME NEW v, NEW d \in Contexts, Started(v, d)
      PROVE  Ends(n, m, w, r, s, p, u)
  <2> DEFINE jobs == u.jobs
             ids == {d} \cap v.timers
  <2>1. jobs = Jobs1(v, d)
    BY <1>5, Zenon DEF StartsFrom
  <2>2. /\ Moves(n, w, v, p) /\ Served(n, m, v, u.s, p) /\ Alike(s, u.s) /\ s.active
        /\ (~r.enabled \/ r.suspended => Silent(w, v)) /\ u.w = Launch(v, {d})
    BY <1>5, Zenon DEF StartsFrom
  <2> HIDE DEF Started, Jobs1, jobs
  <2>3. Orderly(n, v)
    BY <2>2 DEF Moves
  <2>4. jobs \in Seq(JobsTo(n)) /\ Starts(v, ids, jobs)
    BY <2>1, <2>3, OneWrite, Zenon DEF Jobs1
  <2>5. u.w = Launch(v, ids)
    BY <2>2, OneLaunched
  <2> HIDE DEF ids
  <2>6. Tended(n, m, v, r, u.s, p) /\ u.s.open = s.open /\ u.s.active = s.active
    BY <1>1, <2>2 DEF Tended, Served, Alike, Meant, Honest, Acked
  <2>7. Quiet(v, r)
    BY <1>1, <2>2, SilentQuiet
  <2>8. QED
    BY <2>2, <2>4, <2>5, <2>6, <2>7 DEF Ends, jobs
<1> HIDE DEF Still, Started
<1>6. Ends(n, m, w, r, s, p, u)
  BY <1>3, <1>4, <1>5, Zenon
<1>7. QED
  BY <1>6, Zenon DEF u, s

LEMMA ChainedBy ==
  ASSUME NEW q, NEW t, NEW z, z = q \o t
  PROVE  Chained(q, t, z)
BY Joined, Zenon DEF Chained

(* Its jobs are put in line, and the page is closed or gone.               *)
LEMMA EndsKeeps ==
  ASSUME NEW n, NEW m, NEW k, NEW w, NEW r, NEW ss, NEW x, NEW p \in Pages, NEW u, NEW t,
         InvOf(n, w, m, r, ss, x), Ends(n, m, w, r, ss[p], p, u),
         \A v : Tended(n, m, v, r, u.s, p) => Tended(n, m, v, r, t, p),
         t.open /\ t.active => u.s.open /\ u.s.active, ss[p].open,
         k.disk = m.disk, k.entered = m.entered, k.results = m.results,
         Chained(m.queue, u.jobs, k.queue), NEW tt, tt = Replaced(ss, p, t)
  PROVE  Leads(n, w, u.w, k, r, tt, x)
<1>1. PICK v, ids :
         /\ Moves(n, w, v, p) /\ Tended(n, m, v, r, u.s, p) /\ Quiet(v, r)
         /\ ss[p].active \/ v.latest = w.latest
         /\ u.w = Launch(v, ids) /\ Starts(v, ids, u.jobs)
  BY DEF Ends
<1>2. /\ u.jobs \in Seq(JobsTo(n)) /\ u.s.open = ss[p].open /\ u.s.active = ss[p].active
  BY DEF Ends
<1>3. r \in Preferences /\ Requested(m, r) /\ m.queue \in Seq(JobsTo(n))
  BY DEF InvOf, Stored
<1>4. \A q \in Pages \ {p} : ss[q].open /\ ss[q].active => ~ss[p].active
  BY DEF InvOf, OneLive
<1>5. Tended(n, m, v, r, t, p)
  BY <1>1
<1>6. \A q \in Pages \ {p} : ss[q].open /\ ss[q].active =>
         v.latest = w.latest /\ (r.enabled => r.enabled) /\ ~(t.open /\ t.active)
  BY <1>1, <1>2, <1>4
<1>7. InvOf(n, v, m, r, [ss EXCEPT ![p] = t], x)
  BY <1>1, <1>3, <1>5, <1>6, PageMoves
<1>8. Follows(JobsTo(n), m.queue, u.jobs, k.queue)
  BY <1>2, <1>3 DEF Chained
<1>9. InvOf(n, u.w, k, r, [ss EXCEPT ![p] = t], x)
  BY <1>1, <1>7, <1>8, WritesFollow
<1>10. u.w.intake = w.intake
  <2>1. Orderly(n, v) /\ v.intake = w.intake
    BY <1>1 DEF Moves
  <2>2. Moves(n, v, Launch(v, ids), p)
    BY <2>1, LaunchMoves
  <2>3. Launch(v, ids).intake = v.intake
    BY <2>2 DEF Moves
  <2>4. QED
    BY <1>1, <2>1, <2>3
<1>11. QED
  BY <1>9, <1>10 DEF Leads, Replaced

(* The first page, or one that follows, opens.                             *)
LEMMA OpenKeeps ==
  ASSUME NEW n \in Texts, NEW m, NEW w, NEW r, NEW ss, NEW x, NEW p \in Pages, NEW c \in Contexts,
         InvOf(n, w, m, r, ss, x), ss[p] = Detached,
         \A q \in Pages : ~(ss[q].open /\ ss[q].active)
  PROVE  InvOf(n, w, m, r, [ss EXCEPT ![p] = NewSession(TRUE, TRUE, c)], x)
<1>1. Owns(w, Detached, p) /\ Orderly(n, w)
  BY DEF InvOf, Tended
<1>2. Freed(w, p)
  BY <1>1 DEF Owns, Freed, Detached, NewSession
<1>3. Tended(n, m, w, r, NewSession(TRUE, TRUE, c), p)
  BY <1>2, NewIsTended, Zenon
<1>4. QED
  BY <1>3, PageChanges

(* The snapshot is another one, or none.                                   *)
LEMMA SnapshotChanges ==
  ASSUME NEW n, NEW m, NEW w, NEW r, NEW ss, NEW x, NEW y,
         InvOf(n, w, m, r, ss, x), Carried(n, m, w, y)
  PROVE  InvOf(n, w, m, r, ss, y)
BY DEF InvOf

(* A page is built for the snapshot.                                       *)
LEMMA CandidateKeeps ==
  ASSUME NEW n \in Texts, NEW m, NEW w, NEW ss, NEW x, NEW p \in Pages,
         InvOf(n, w, m, pref, ss, x), ss[p] = Detached, x # None
  PROVE  InvOf(n, w, m, pref, [ss EXCEPT ![p] = Installed(NewSession(TRUE, FALSE, None), x.s)],
               None)
<1> DEFINE s == NewSession(TRUE, FALSE, None)
           t == Installed(s, x.s)
<1>1. Owns(w, Detached, p) /\ Orderly(n, w) /\ Carried(n, m, w, x)
  BY DEF InvOf, Tended
<1>2. Freed(w, p)
  BY <1>1 DEF Owns, Freed, Detached, NewSession
<1>3. s.editor \in Nat /\ s.active = FALSE
  BY DEF NewSession
<1> HIDE DEF s
<1>4. /\ Sound(n, w, x.s, x.page) /\ Backed(m, w, x.s) /\ Honest(x.s) /\ x.s.capture = None /\ x.s.open
  BY <1>1 DEF Carried
<1>5. Sound(n, w, t, p) /\ Backed(m, w, t) /\ Honest(t) /\ t.open /\ t.active = FALSE
  <2>1. s.active \in BOOLEAN
    BY <1>3
  <2> DEFINE b == x.s
             q == x.page
  <2>2. Sound(n, w, b, q) /\ Backed(m, w, b) /\ Honest(b) /\ b.capture = None /\ b.open
    BY <1>4
  <2> HIDE DEF b, q
  <2>3. LET t1 == Installed(s, b)
        IN  /\ Sound(n, w, t1, p) /\ Backed(m, w, t1) /\ Honest(t1)
            /\ t1.open /\ t1.active = s.active
    BY <1>3, <2>1, <2>2, InstalledIsSound
  <2>4. QED
    BY <1>3, <2>3 DEF b
<1> HIDE DEF t
<1>6. Tended(n, m, w, pref, t, p)
  BY <1>2, <1>5, FreedOwns DEF Tended, Honest, Meant, Acked
<1>7. InvOf(n, w, m, pref, [ss EXCEPT ![p] = t], x)
  BY <1>5, <1>6, PageChanges
<1>8. Carried(n, m, w, None)
  BY DEF Carried
<1>9. InvOf(n, w, m, pref, [ss EXCEPT ![p] = t], None)
  BY <1>7, <1>8, SnapshotChanges
<1>10. QED
  BY <1>9 DEF t, s

(* A candidate becomes the live page.                                      *)
LEMMA ActivateKeeps ==
  ASSUME NEW n \in Texts, NEW m, NEW w, NEW r, NEW ss, NEW x, NEW p \in Pages,
         InvOf(n, w, m, r, ss, x), ss[p].open, ~ss[p].active, w.intake,
         \A q \in Pages : ~(ss[q].open /\ ss[q].active), NEW u, NEW tt,
         u = Claim(w, r, [ss[p] EXCEPT !.active = TRUE], p), tt = Replaced(ss, p, u.s)
  PROVE  Leads(n, w, u.w, m, r, tt, x)
<1> DEFINE s == ss[p]
           t == [s EXCEPT !.active = TRUE]
<1>1. Orderly(n, w) /\ Tended(n, m, w, r, s, p) /\ Quiet(w, r) /\ s \in SessionsTo(n)
  BY DEF InvOf
<1>2. Freed(w, p)
  BY <1>1 DEF Tended, Owns, Freed
<1>3. t \in SessionsTo(n)
  BY <1>1 DEF SessionsTo
<1>4. /\ t.open /\ t.active /\ t.closing = s.closing /\ t.sql = s.sql /\ t.context = s.context
      /\ t.savedSql = s.savedSql /\ t.bound = s.bound /\ t.savedContext = s.savedContext
      /\ t.deleted = s.deleted /\ t.capture = s.capture /\ t.origin = s.origin
      /\ t.overtaken = s.overtaken /\ t.editor = s.editor /\ t.state = s.state
  BY <1>1 DEF SessionsTo
<1>5. u = Claim(w, r, t, p)
  OBVIOUS
<1> HIDE DEF t
<1>6. Sound(n, w, t, p) /\ Backed(m, w, t) /\ Honest(t)
  BY <1>1, <1>3, <1>4 DEF Tended, Sound, Coherent, Acked, Backed, Kept, Honest
<1>7. /\ Moves(n, w, u.w, p) /\ Served(n, m, u.w, u.s, p)
      /\ (~r.enabled \/ r.suspended => Silent(w, u.w))
      /\ Honest(u.s)
  BY <1>1, <1>2, <1>4, <1>6, <1>5, ClaimServes
<1>8. Tended(n, m, u.w, r, u.s, p)
  BY <1>7 DEF Tended, Served, Meant, Honest, Acked
<1>9. Quiet(u.w, r) /\ r \in Preferences /\ Requested(m, r)
  BY <1>1, <1>7, SilentQuiet DEF InvOf
<1>10. InvOf(n, u.w, m, r, [ss EXCEPT ![p] = u.s], x)
  BY <1>7, <1>8, <1>9, PageMoves
<1>11. u.w.intake = w.intake
  BY <1>7 DEF Moves
<1>12. QED
  BY <1>10, <1>11 DEF Replaced, Leads

(* The live page takes the snapshot over: its own draft is given up first.  *)
LEMMA GivenUp ==
  ASSUME NEW n \in Texts, NEW m, NEW w, NEW r, NEW s, NEW p, Orderly(n, w),
         Tended(n, m, w, r, s, p), s.open
  PROVE  LET v == Release(Revoke(w, s), s)
         IN  Moves(n, w, v, p) /\ v.latest = w.latest /\ Freed(v, p) /\ Silent(w, v)
<1> DEFINE a == Revoke(w, s)
           v == Release(a, s)
<1>1. Sound(n, w, s, p) /\ Backed(m, w, s) /\ Traces(w, s, p)
  BY OwnsTraces DEF Tended
<1>2. Moves(n, w, a, p) /\ a.latest = w.latest
  BY RevokeMoves
<1> HIDE DEF a
<1>3. Traces(a, s, p)
  BY <1>1, <1>2, StaysServed
<1>4. s.origin \in Origins \union {None} /\ Orderly(n, a)
  BY <1>1, <1>2 DEF Sound, SessionsTo, Moves
<1>5. Moves(n, a, v, p) /\ v.latest = a.latest /\ Freed(v, p)
  BY <1>3, <1>4, ReleaseMoves
<1> HIDE DEF v
<1>6. Moves(n, w, v, p) /\ v.latest = w.latest
  BY <1>2, <1>5, AdvanceTwice
<1>7. Silent(w, v)
  BY <1>1, <1>6, StaysServed
<1>8. QED
  BY <1>5, <1>6, <1>7 DEF v, a

LEMMA InstallKeeps ==
  ASSUME NEW n \in Texts, NEW m, NEW w, NEW ss, NEW x, NEW p \in Pages,
         InvOf(n, w, m, pref, ss, x), ss[p].open, ss[p].active, x # None, w.intake,
         NEW g, NEW u, NEW tt, g = Release(Revoke(w, ss[p]), ss[p]),
         u = Claim(g, pref, Installed(ss[p], x.s), p), tt = Replaced(ss, p, u.s)
  PROVE  Leads(n, w, u.w, m, pref, tt, None)
<1> DEFINE s == ss[p]
           v == Release(Revoke(w, s), s)
           b == x.s
           q == x.page
           t == Installed(s, b)
<1>1. Orderly(n, w) /\ Tended(n, m, w, pref, s, p) /\ Quiet(w, pref) /\ Carried(n, m, w, x)
  BY DEF InvOf
<1>2. Moves(n, w, v, p) /\ v.latest = w.latest /\ Freed(v, p) /\ Silent(w, v)
  BY <1>1, GivenUp
<1>3. u = Claim(v, pref, t, p)
  OBVIOUS
<1> HIDE DEF v
<1>4. Orderly(n, v) /\ v.intake /\ Carried(n, m, v, x)
  BY <1>1, <1>2, CarriedMoves DEF Moves
<1>5. Sound(n, v, b, q) /\ Backed(m, v, b) /\ Honest(b) /\ b.capture = None /\ b.open
  BY <1>4 DEF Carried
<1>6. s.editor \in Nat /\ s.active \in BOOLEAN
  BY <1>1 DEF Tended, Sound, SessionsTo
<1> HIDE DEF b, q
<1>7. Sound(n, v, t, p) /\ Backed(m, v, t) /\ Honest(t) /\ t.open /\ t.active
  <2>1. s.active
    OBVIOUS
  <2> HIDE DEF s, t
  <2>2. Sound(n, v, t, p) /\ Backed(m, v, t) /\ Honest(t) /\ t.open /\ t.active = s.active
    BY <1>5, <1>6, InstalledIsSound DEF t
  <2>3. QED
    BY <2>1, <2>2
<1> HIDE DEF t
<1>8. /\ Moves(n, v, u.w, p) /\ Served(n, m, u.w, u.s, p)
      /\ (~pref.enabled \/ pref.suspended => Silent(v, u.w))
      /\ Honest(u.s)
  BY <1>2, <1>4, <1>7, <1>3, ClaimServes
<1>9. Moves(n, w, u.w, p)
  BY <1>1, <1>2, <1>8, AdvanceTwice
<1>10. Tended(n, m, u.w, pref, u.s, p)
  BY <1>8 DEF Tended, Served, Meant, Honest, Acked
<1>11. Quiet(v, pref)
  BY <1>1, <1>2, SilentQuiet
<1>12. Quiet(u.w, pref)
  BY <1>8, <1>11, SilentQuiet
<1>13. pref \in Preferences /\ Requested(m, pref)
  BY DEF InvOf
<1>14. \A z \in Pages \ {p} : ~(ss[z].open /\ ss[z].active)
  BY DEF InvOf, OneLive
<1>15. InvOf(n, u.w, m, pref, [ss EXCEPT ![p] = u.s], x)
  BY <1>9, <1>10, <1>12, <1>13, <1>14, PageMoves
<1>16. Carried(n, m, u.w, None)
  BY DEF Carried
<1>17. InvOf(n, u.w, m, pref, [ss EXCEPT ![p] = u.s], None)
  BY <1>15, <1>16, SnapshotChanges
<1>18. u.w.intake = w.intake
  BY <1>9 DEF Moves
<1>19. QED
  BY <1>17, <1>18 DEF Replaced, Leads

(* A page is left; what would be refused is not exported.                  *)
LEMMA ExportKeeps ==
  ASSUME NEW n \in Texts, NEW m, NEW w, NEW r, NEW ss, NEW x, NEW p \in Pages, NEW d,
         InvOf(n, w, m, r, ss, x), ss[p].open, ss[p].active,
         d \in Contexts \union {None}
  PROVE  LET b == [ss[p] EXCEPT !.pending = d, !.capture = None]
         IN  ValidSnapshot(b) => InvOf(n, w, m, r, ss, [page |-> p, s |-> b])
<1> DEFINE s == ss[p]
           b == [s EXCEPT !.pending = d, !.capture = None]
           y == [page |-> p, s |-> b]
<1>1. Tended(n, m, w, r, s, p)
  BY DEF InvOf
<1>2. s \in SessionsTo(n)
  BY <1>1 DEF Tended, Sound
<1>3. b \in SessionsTo(n)
  BY <1>2 DEF SessionsTo
<1>4. /\ b.open = s.open /\ b.active = s.active /\ b.closing = s.closing /\ b.sql = s.sql
      /\ b.context = s.context
      /\ b.savedSql = s.savedSql /\ b.bound = s.bound /\ b.savedContext = s.savedContext
      /\ b.deleted = s.deleted /\ b.capture = None /\ b.origin = s.origin
      /\ b.overtaken = s.overtaken /\ b.editor = s.editor /\ b.state = s.state
  BY <1>2 DEF SessionsTo
<1> HIDE DEF b
<1>5. Sound(n, w, b, p) /\ Backed(m, w, b) /\ Meant(b)
  BY <1>1, <1>3, <1>4 DEF Tended, Sound, Coherent, Acked, Backed, Kept, Meant
<1>6. ValidSnapshot(b) => Honest(b)
  BY <1>5 DEF ValidSnapshot, Honest, Acked, Meant
<1>7. p \in Nat
  <2> DEFINE c == Cardinality(Pages)
  <2>1. 1 .. c \subseteq Nat
    OBVIOUS
  <2>2. QED
    BY <2>1, DraftParameters
<1>8. y \in [page : Nat, s : SessionsTo(n)] /\ y.s = b /\ y.page = p
  BY <1>3, <1>7
<1>9. ValidSnapshot(b) => Carried(n, m, w, y)
  BY <1>4, <1>5, <1>6, <1>8 DEF Carried
<1> HIDE DEF y
<1>10. ValidSnapshot(b) => InvOf(n, w, m, r, ss, y)
  BY <1>9, SnapshotChanges
<1>11. QED
  BY <1>10 DEF y, b

(* A page shows what was stored for its draft.                             *)

\* The session s once it shows the stored text j of draft d, at revision rev.
Recovered(s, d, j, rev) ==
    [s EXCEPT !.pending = None, !.capture = None, !.editor = @ + 1,
              !.origin = [draft |-> d, rev |-> rev],
              !.failed = FALSE, !.overtaken = FALSE, !.sql = j, !.bound = d,
              !.savedSql = j, !.savedContext = d,
              !.deleted = FALSE, !.state = "saved"]

LEMMA Restored ==
  ASSUME NEW n, NEW s \in SessionsTo(n), NEW d \in Contexts, NEW j \in 0 .. n, NEW i \in Nat, NEW o \in Origins
  PROVE  [s EXCEPT !.pending = None, !.capture = None, !.editor = i, !.origin = o,
                   !.failed = FALSE, !.overtaken = FALSE, !.sql = j, !.bound = d,
                   !.savedSql = j, !.savedContext = d, !.deleted = FALSE, !.state = "saved"] \in SessionsTo(n)
<1>1. d \in Contexts \union {None} /\ "saved" \in States
  BY DEF States
<1>2. QED
  BY <1>1, ZenonT(60) DEF SessionsTo

LEMMA RecoveredFields ==
  ASSUME NEW n, NEW s \in SessionsTo(n), NEW d \in Contexts, NEW j \in 0 .. n, NEW rev \in Nat
  PROVE  LET y == Recovered(s, d, j, rev)
         IN  /\ y \in SessionsTo(n)
             /\ y.open = s.open /\ y.active = s.active /\ y.context = s.context /\ y.sql = j
             /\ y.savedSql = j /\ y.bound = d /\ y.savedContext = d /\ ~y.deleted
             /\ y.capture = None /\ y.state = "saved"
             /\ y.origin \in Origins /\ y.origin.draft = d /\ y.origin.rev = rev
<1> DEFINE o == [draft |-> d, rev |-> rev]
           i == s.editor + 1
           y == [s EXCEPT !.pending = None, !.capture = None, !.editor = i, !.origin = o,
                          !.failed = FALSE, !.overtaken = FALSE, !.sql = j, !.bound = d,
                          !.savedSql = j, !.savedContext = d, !.deleted = FALSE, !.state = "saved"]
<1>1. o \in Origins /\ o.draft = d /\ o.rev = rev
  BY DEF Origins
<1>2. s.editor \in Nat
  BY DEF SessionsTo
<1>3. i \in Nat
  BY <1>2
<1>4. Recovered(s, d, j, rev) = y
  BY DEF Recovered
<1> HIDE DEF o, i
<1>5. y \in SessionsTo(n)
  BY <1>1, <1>3, Restored
<1>6. /\ y.open = s.open /\ y.active = s.active /\ y.context = s.context /\ y.sql = j
      /\ y.savedSql = j /\ y.bound = d /\ y.savedContext = d /\ y.deleted = FALSE
      /\ y.capture = None /\ y.state = "saved" /\ y.origin = o
  BY DEF SessionsTo
<1> HIDE DEF y
<1>7. QED
  BY <1>1, <1>4, <1>5, <1>6

\* The draft d has a new revision and nothing to write.
Renewed(w, d) == Track(w, d, FALSE)

Renews(n, w, t, d, p) ==
    /\ Moves(n, w, t, p)
    /\ t.sequence = w.sequence + 1 /\ t.latest[d] = t.sequence
    /\ t.current[d] = None /\ \A e \in Contexts \ {d} : t.current[e] = w.current[e]

LEMMA RenewedMoves ==
  ASSUME NEW n \in Texts, NEW w, NEW p, Orderly(n, w), NEW d \in Contexts
  PROVE  Renews(n, w, Renewed(w, d), d, p)
<1>1. \A a : Renews(n, w, Track(w, d, a), d, p)
  BY TrackMoves, TrackFields DEF Renews
<1>2. QED
  BY <1>1, Zenon DEF Renewed

(* The live page shows the stored draft of its context, as saved.           *)
LEMMA RecoverKeeps ==
  ASSUME NEW n \in Texts, NEW m, NEW w, NEW r, NEW ss, NEW x, NEW p \in Pages, NEW g, NEW t, NEW y, NEW s, NEW d,
         InvOf(n, w, m, r, ss, x), s = ss[p], s.open, s.active, DOMAIN m.queue = {},
         d = s.context, m.disk[d] # 0,
         g = Release(w, s), t = Renewed(g, d),
         y = Recovered(s, d, m.disk[d], t.sequence),
         NEW tt, tt = Replaced(ss, p, y)
  PROVE  Leads(n, w, t, m, r, tt, x)
<1>1. Orderly(n, w) /\ Tended(n, m, w, r, s, p) /\ Quiet(w, r) /\ s \in SessionsTo(n)
  BY DEF InvOf
<1>2. Sound(n, w, s, p) /\ Traces(w, s, p) /\ Backed(m, w, s)
  BY <1>1, OwnsTraces DEF Tended
<1>3. d \in Contexts /\ s.origin \in Origins \union {None}
  BY <1>1, <1>2 DEF Sound, Coherent, SessionsTo
<1>4. Moves(n, w, g, p) /\ g.latest = w.latest /\ Freed(g, p)
  BY <1>1, <1>2, <1>3, ReleaseMoves
<1>5. Orderly(n, g)
  BY <1>4 DEF Moves
<1>6. /\ t.sequence = g.sequence + 1 /\ t.latest[d] = t.sequence
      /\ t.current[d] = None /\ \A e \in Contexts \ {d} : t.current[e] = g.current[e]
      /\ Moves(n, g, t, p)
  <2>1. Renews(n, g, t, d, p)
    BY <1>3, <1>5, RenewedMoves
  <2>2. QED
    BY <2>1 DEF Renews
<1>7. Moves(n, g, t, p)
  BY <1>6
<1>8. Moves(n, w, t, p)
  BY <1>1, <1>4, <1>7, AdvanceTwice, SMTT(30)
<1>9. Silent(w, t) /\ Freed(t, p)
  <2>1. Silent(w, g)
    BY <1>1, <1>2, <1>4, StaysServed
  <2>2. QED
    BY <1>3, <1>4, <1>6, <2>1 DEF Silent, Freed
<1>10. g.sequence \in Nat /\ t.sequence \in Nat /\ 0 < t.sequence
  BY <1>5, <1>6, <1>8 DEF Orderly, WritersTo, Moves
<1> DEFINE j == m.disk[d]
<1>11. j \in 0 .. n /\ j # 0
  BY <1>3 DEF InvOf, Stored
<1>12. y = Recovered(s, d, j, t.sequence)
  OBVIOUS
<1> HIDE DEF j
<1>13. /\ y \in SessionsTo(n) /\ y.open /\ y.active /\ y.context = d /\ y.sql = j
       /\ y.savedSql = j /\ y.bound = d /\ y.savedContext = d /\ ~y.deleted
       /\ y.capture = None /\ y.state = "saved"
       /\ y.origin \in Origins /\ y.origin.draft = d /\ y.origin.rev = t.sequence
  BY <1>1, <1>3, <1>10, <1>11, <1>12, RecoveredFields, SMTT(30)
<1>14. d # None /\ y.origin # None
  BY <1>3, <1>13, NoneIsNone, SMTT(30)
<1>15. Sound(n, t, y, p)
  BY <1>3, <1>10, <1>11, <1>13, <1>14, SMTT(30) DEF Sound, Coherent, Acked
<1>16. Backed(m, t, y)
  <2>1. m.disk[d] = y.sql /\ y.savedContext = d
    BY <1>13 DEF j
  <2> HIDE DEF j
  <2>2. t.current[d] = None /\ DOMAIN m.queue = {}
    BY <1>6, SMTT(30)
  <2>3. QED
    BY <2>1, <2>2, ZenonT(60) DEF Backed
<1>17. Newest(t, y) /\ Honest(y) /\ Meant(y)
  BY <1>6, <1>11, <1>13, ZenonT(60) DEF Newest, Honest, Meant, Acked
<1>18. Tended(n, m, t, r, y, p)
  BY <1>9, <1>15, <1>16, <1>17, FreedOwns DEF Tended
<1>19. Quiet(t, r) /\ r \in Preferences /\ Requested(m, r)
  BY <1>1, <1>9, SilentQuiet DEF InvOf
<1>20. \A q \in Pages \ {p} : ~(ss[q].open /\ ss[q].active)
  BY DEF InvOf, OneLive
<1>21. InvOf(n, t, m, r, [ss EXCEPT ![p] = y], x)
  BY <1>8, <1>18, <1>19, <1>20, PageMoves, ZenonT(60)
<1>22. t.intake = w.intake
  BY <1>8 DEF Moves
<1>23. QED
  BY <1>21, <1>22 DEF Leads, Replaced

-----------------------------------------------------------------------------
(* What a draft has left behind is not written again: first, what becomes  *)
(* of a session's text when the coordinator may take it.                   *)

\* The session shows the same text of the same draft.
Shows(s, t) == t.sql = s.sql /\ t.bound = s.bound /\ t.deleted = s.deleted

\* From w to v the coordinator has taken the text of s, which is t now, as the
\* newest of its draft.
Tracks(w, s, v, t) ==
    LET d == t.origin.draft
    IN  /\ t.origin \in Origins /\ w.sequence < t.origin.rev /\ v.latest[d] = t.origin.rev
        /\ \A e \in Contexts \ {d} : v.current[e] \in {w.current[e], None}
        /\ v.current[d] # None => v.current[d].sql = s.sql
        /\ s.sql # 0 => s.bound = d

\* It may have.
MayTrack(w, s, v, t) == Shows(s, t) /\ ((t.origin = s.origin /\ Silent(w, v)) \/ Tracks(w, s, v, t))

LEMMA SilentMove ==
  ASSUME NEW n, NEW w, NEW v, NEW p, Orderly(n, w), Moves(n, w, v, p), v.latest = w.latest
  PROVE  Silent(w, v)
<1>1. ASSUME NEW d \in Contexts PROVE v.current[d] \in {w.current[d], None}
  <2>1. w.latest[d] \in Nat /\ w.sequence \in Nat /\ w.latest[d] <= w.sequence
    BY DEF Orderly, WritersTo, Coordinated
  <2>2. ~(v.latest[d] > w.sequence)
    BY <2>1
  <2>3. QED
    BY <2>2 DEF Moves, Advances
<1>2. QED
  BY <1>1 DEF Silent

LEMMA ScheduleTracks ==
  ASSUME NEW n \in Texts, NEW w, NEW r, NEW s, NEW p \in Pages, NEW d \in Contexts,
         Orderly(n, w), s \in SessionsTo(n), Traces(w, s, p), s.sql # 0 => s.bound = d
  PROVE  LET u == ScheduleSession(w, r, s, p, d) IN MayTrack(w, s, u.w, u.s) /\ u.s \in SessionsTo(n)
<1> DEFINE u == ScheduleSession(w, r, s, p, d)
           v == Release(w, s)
           t == Track(v, d, s.sql # 0)
           cap == [draft |-> d, rev |-> t.sequence, sql |-> s.sql, page |-> p, editor |-> s.editor]
           new == [draft |-> d, rev |-> cap.rev]
           x == [t EXCEPT !.current[d] = cap, !.timers = @ \union {d}]
           y == [s EXCEPT !.capture = cap, !.origin = new]
<1>1. u = IF r.suspended \/ ~r.enabled THEN [w |-> w, s |-> s]
          ELSE IF ~w.intake THEN [w |-> v, s |-> [s EXCEPT !.capture = None]]
          ELSE [w |-> x, s |-> y]
  BY DEF ScheduleSession
<1>2. Moves(n, w, v, p) /\ v.latest = w.latest
  BY ReleaseMoves DEF SessionsTo
<1>3. Orderly(n, v) /\ Silent(w, v) /\ v.sequence \in Nat /\ w.sequence \in Nat /\ w.sequence <= v.sequence
  BY <1>2, SilentMove DEF Moves, Advances, Orderly, WritersTo
<1> HIDE DEF v
<1>4. Silent(w, w)
  BY DEF Silent
<1>5. CASE r.suspended \/ ~r.enabled
  BY <1>1, <1>4, <1>5 DEF MayTrack, Shows
<1>6. CASE ~(r.suspended \/ ~r.enabled) /\ ~w.intake
  <2>1. u.w = v /\ u.s = [s EXCEPT !.capture = None]
    BY <1>1, <1>6
  <2>2. Shows(s, u.s) /\ u.s.origin = s.origin /\ u.s \in SessionsTo(n)
    BY <2>1 DEF Shows, SessionsTo
  <2>3. QED
    BY <1>3, <2>1, <2>2 DEF MayTrack
<1>7. CASE ~(r.suspended \/ ~r.enabled) /\ w.intake
  <2>1. u.w = x /\ u.s = y
    BY <1>1, <1>7
  <2>2. /\ t.sequence = v.sequence + 1 /\ t.latest[d] = t.sequence
        /\ \A e \in Contexts \ {d} : t.current[e] = v.current[e]
    BY <1>3, TrackFields
  <2>3. Moves(n, v, t, p)
    BY <1>3, TrackMoves
  <2> HIDE DEF t
  <2>4. /\ x.latest = t.latest /\ x.current[d] = cap
        /\ \A e \in Contexts \ {d} : x.current[e] = t.current[e]
    BY <2>3 DEF Moves, Orderly, WritersTo
  <2>5. y.origin = new /\ Shows(s, y)
    BY DEF SessionsTo, Shows
  <2>6. new \in Origins /\ new.draft = d /\ new.rev = t.sequence /\ cap.sql = s.sql
    BY <1>3, <2>2 DEF Origins
  <2>7. w.sequence < new.rev /\ x.latest[d] = new.rev
    BY <1>3, <2>2, <2>4, <2>6
  <2>8. cap \in CapturesTo(n)
    BY <1>3, <2>2 DEF CapturesTo, SessionsTo
  <2>9. y \in SessionsTo(n)
    <3>1. \A c \in CapturesTo(n), o \in Origins : [s EXCEPT !.capture = c, !.origin = o] \in SessionsTo(n)
      BY DEF SessionsTo
    <3>2. QED
      BY <2>6, <2>8, <3>1
  <2> HIDE DEF x, y, new, cap
  <2>10. \A e \in Contexts \ {d} : x.current[e] \in {w.current[e], None}
    BY <1>3, <2>2, <2>4 DEF Silent
  <2>11. Tracks(w, s, x, y)
    BY <2>4, <2>5, <2>6, <2>7, <2>10 DEF Tracks
  <2>12. QED
    BY <2>1, <2>5, <2>11, <2>9 DEF MayTrack
<1>8. QED
  BY <1>5, <1>6, <1>7

LEMMA RetainTracks ==
  ASSUME NEW n \in Texts, NEW w, NEW r, NEW s, NEW p \in Pages, Orderly(n, w), s \in SessionsTo(n),
         s.context \in Contexts, s.sql # 0 <=> s.bound # None, Traces(w, s, p)
  PROVE  LET u == RetainUnscheduled(w, r, s)
         IN  /\ MayTrack(w, s, u.w, u.s) /\ u.s \in SessionsTo(n)
             /\ Superseded(w, s) => u.s.origin = s.origin
<1> DEFINE u == RetainUnscheduled(w, r, s)
           v == Release(w, s)
           d == Home(s)
           t == Track(v, d, Unsaved(s, d))
           new == [draft |-> d, rev |-> t.sequence]
           y == [s EXCEPT !.origin = new]
           Not == \/ ~r.enabled \/ ~s.active \/ ~w.intake
                  \/ s.origin # None /\ w.latest[s.origin.draft] # s.origin.rev
<1>1. u = IF Not THEN [w |-> w, s |-> s]
          ELSE IF s.sql = 0 THEN [w |-> v, s |-> s] ELSE [w |-> t, s |-> y]
  BY DEF RetainUnscheduled
<1>2. Superseded(w, s) => Not
  BY DEF Superseded
<1> HIDE DEF Not
<1>3. s \in SessionsTo(n) /\ d \in Contexts /\ (s.sql # 0 => s.bound = d)
  BY DEF Home, SessionsTo
<1>4. Moves(n, w, v, p) /\ v.latest = w.latest
  BY <1>3, ReleaseMoves DEF SessionsTo
<1>5. Orderly(n, v) /\ Silent(w, v) /\ v.sequence \in Nat /\ w.sequence \in Nat /\ w.sequence <= v.sequence
  BY <1>4, SilentMove DEF Moves, Advances, Orderly, WritersTo
<1> HIDE DEF v
<1>6. Silent(w, w) /\ Shows(s, s)
  BY DEF Silent, Shows
<1>7. CASE Not \/ s.sql = 0
  <2>1. u.s = s /\ (u.w = w \/ u.w = v)
    BY <1>1, <1>7
  <2>2. QED
    BY <1>5, <1>6, <2>1 DEF MayTrack
<1>8. CASE ~Not /\ s.sql # 0
  <2>1. u.w = t /\ u.s = y
    BY <1>1, <1>8
  <2>2. /\ t.sequence = v.sequence + 1 /\ t.latest[d] = t.sequence /\ t.current[d] = None
        /\ \A e \in Contexts \ {d} : t.current[e] = v.current[e]
    BY <1>3, <1>5, TrackFields
  <2> HIDE DEF t
  <2>3. y.origin = new /\ Shows(s, y)
    BY <1>3 DEF SessionsTo, Shows
  <2>4. new \in Origins /\ new.draft = d /\ new.rev = t.sequence
    BY <1>3, <1>5, <2>2 DEF Origins
  <2>5. w.sequence < new.rev
    BY <1>5, <2>2, <2>4
  <2>6. y \in SessionsTo(n)
    BY <2>4 DEF SessionsTo
  <2> HIDE DEF y, new
  <2>7. \A e \in Contexts \ {d} : t.current[e] \in {w.current[e], None}
    BY <1>5, <2>2 DEF Silent
  <2> HIDE DEF d
  <2>8. Tracks(w, s, t, y)
    BY <1>3, <2>2, <2>3, <2>4, <2>5, <2>7 DEF Tracks
  <2>9. QED
    BY <1>8, <1>2, <2>1, <2>3, <2>8, <2>6 DEF MayTrack
<1>9. QED
  BY <1>7, <1>8

(* Both steps after one that takes no text.                                *)
LEMMA SilentThenTracks ==
  ASSUME NEW n, NEW w, NEW v, NEW x, NEW p, NEW s, NEW t, Orderly(n, w), Moves(n, w, v, p),
         Silent(w, v), MayTrack(v, s, x, t)
  PROVE  MayTrack(w, s, x, t)
<1>1. w.sequence \in Nat /\ v.sequence \in Nat /\ w.sequence <= v.sequence
  BY DEF Moves, Advances, Orderly, WritersTo
<1>2. ASSUME t.origin = s.origin, Silent(v, x) PROVE Silent(w, x)
  BY <1>2 DEF Silent
<1>3. ASSUME Tracks(v, s, x, t) PROVE Tracks(w, s, x, t)
  <2> DEFINE d == t.origin.draft
  <2>1. t.origin \in Origins /\ v.sequence < t.origin.rev /\ t.origin.rev \in Nat
    BY <1>3 DEF Tracks, Origins
  <2>2. w.sequence < t.origin.rev
    BY <1>1, <2>1
  <2>3. \A e \in Contexts \ {d} : x.current[e] \in {w.current[e], None}
    BY <1>3 DEF Tracks, Silent
  <2>4. QED
    BY <1>3, <2>1, <2>2, <2>3 DEF Tracks
<1>4. QED
  BY <1>2, <1>3 DEF MayTrack

(* What the session then says is beside the point.                         *)
LEMMA SayingTracks ==
  ASSUME NEW n, NEW w, NEW v, NEW s, NEW f \in SessionsTo(n), NEW state, NEW t,
         MayTrack(w, s, v, f), t = [f EXCEPT !.state = state]
  PROVE  MayTrack(w, s, v, t) /\ t.origin = f.origin
<1>1. t.origin = f.origin /\ t.sql = f.sql /\ t.bound = f.bound /\ t.deleted = f.deleted
  BY DEF SessionsTo
<1>2. QED
  BY <1>1 DEF MayTrack, Shows, Tracks

LEMMA RetypedFields ==
  ASSUME NEW n \in Texts, NEW w, NEW s, NEW p, Sound(n, w, s, p), s.open, NEW text \in 0 .. n
  PROVE  LET e == Retyped(s, text)
         IN  /\ e.open /\ e.active = s.active /\ e.sql = text /\ e.deleted = FALSE /\ e.context = s.context
             /\ e.bound = (IF text = 0 THEN None ELSE Home(s)) /\ e.origin = s.origin
             /\ e \in SessionsTo(n) /\ (e.sql # 0 <=> e.bound # None) /\ Home(s) \in Contexts
<1> DEFINE e == Retyped(s, text)
<1>1. s \in SessionsTo(n)
  BY DEF Sound
<1>2. Home(s) \in Contexts
  BY <1>1 DEF Home, Sound, Coherent, SessionsTo
<1>3. /\ e.open /\ e.active = s.active /\ e.sql = text /\ e.deleted = FALSE /\ e.context = s.context
      /\ e.bound = (IF text = 0 THEN None ELSE Home(s)) /\ e.origin = s.origin
  BY <1>1 DEF Retyped, SessionsTo
<1>4. e \in SessionsTo(n)
  <2>1. s.editor + 1 \in Nat /\ (s.overtaken /\ text = s.sql) \in BOOLEAN
        /\ (IF text = 0 THEN None ELSE Home(s)) \in Contexts \union {None}
    BY <1>1, <1>2 DEF SessionsTo
  <2>2. \A i \in Nat, o \in BOOLEAN, c \in Contexts \union {None} :
          [s EXCEPT !.sql = text, !.editor = i, !.failed = FALSE, !.deleted = FALSE,
                    !.pending = None, !.bound = c, !.overtaken = o] \in SessionsTo(n)
    BY <1>1, ZenonT(60) DEF SessionsTo
  <2>3. QED
    BY <2>1, <2>2 DEF Retyped
<1>5. e.sql # 0 <=> e.bound # None
  BY <1>2, <1>3, NoneIsNone
<1>6. QED
  BY <1>2, <1>3, <1>4, <1>5

\* The session once Retyped has given it its text is what the coordinator tracks.
LEMMA EditedTracks ==
  ASSUME NEW n \in Texts, NEW w, NEW r, NEW s, NEW p \in Pages, NEW text \in 0 .. n,
         Orderly(n, w), Sound(n, w, s, p), Traces(w, s, p), s.open
  PROVE  LET u == Edited(w, r, s, p, text) IN MayTrack(w, Retyped(s, text), u.w, u.s)
<1> DEFINE u == Edited(w, r, s, p, text)
           e == Retyped(s, text)
           v == Revoke(w, e)
           b == BlankOrigin(w, s)
           Goal == MayTrack(w, e, u.w, u.s)
<1>1. /\ e.open /\ e.active = s.active /\ e.sql = text /\ e.deleted = FALSE /\ e.context = s.context
      /\ e.bound = (IF text = 0 THEN None ELSE Home(s)) /\ e.origin = s.origin
      /\ e \in SessionsTo(n) /\ (e.sql # 0 <=> e.bound # None) /\ Home(s) \in Contexts
  BY RetypedFields
<1>2. u = IF ~e.active \/ ~r.enabled THEN [w |-> v, s |-> [e EXCEPT !.state = "off"]]
          ELSE IF r.suspended THEN [RetainUnscheduled(v, r, e) EXCEPT !.s.state = "error"]
          ELSE IF text = 0 /\ b = None
          THEN [w |-> Release(v, e), s |-> [e EXCEPT !.capture = None, !.state = "empty"]]
          ELSE IF text = 0 THEN [ScheduleSession(w, r, e, p, b) EXCEPT !.s.state = "pending"]
          ELSE IF NeedsGuard(e) THEN [RetainUnscheduled(v, r, e) EXCEPT !.s.state = "context_required"]
          ELSE [ScheduleSession(w, r, e, p, e.context) EXCEPT !.s.state = "pending"]
  BY DEF Edited
<1> SUFFICES Goal
  BY DEF Goal, u
<1>3. s \in SessionsTo(n) /\ s.context \in Contexts
  BY DEF Sound, Coherent
<1>4. b \in Contexts \union {None}
  BY <1>3 DEF BlankOrigin, SessionsTo, CapturesTo, Holds
<1> HIDE DEF e, b, u
<1>5. Moves(n, w, v, p) /\ v.latest = w.latest /\ Silent(w, v) /\ Orderly(n, v)
  BY RevokeMoves, SilentMove DEF Moves
<1> HIDE DEF v
<1>6. Traces(w, e, p)
  BY <1>1 DEF Traces
<1>7. Traces(v, e, p)
  BY <1>5, <1>6 DEF Traces, Silent
<1>8. ASSUME NEW x, NEW f \in SessionsTo(n), NEW state, u.w = x, u.s = [f EXCEPT !.state = state],
             MayTrack(w, e, x, f)
      PROVE  Goal
  BY <1>8, SayingTracks DEF Goal
<1>9. MayTrack(w, e, v, e)
  BY <1>5 DEF MayTrack, Shows
<1>10. CASE ~e.active \/ ~r.enabled
  <2>1. u.w = v /\ u.s = [e EXCEPT !.state = "off"]
    BY <1>2, <1>10
  <2>2. QED
    BY <1>1, <1>8, <1>9, <2>1
<1>11. ASSUME NEW state, u = [RetainUnscheduled(v, r, e) EXCEPT !.s.state = state]
       PROVE  Goal
  <2> DEFINE x == RetainUnscheduled(v, r, e)
  <2>1. PICK a, c : x = [w |-> a, s |-> c]
    BY ReturnsBoth
  <2>2. MayTrack(v, e, x.w, x.s) /\ x.s \in SessionsTo(n)
    BY <1>1, <1>3, <1>5, <1>7, RetainTracks
  <2> HIDE DEF x
  <2>3. u.w = x.w /\ u.s = [x.s EXCEPT !.state = state]
    BY <1>11, <2>1, SayingAfter DEF x
  <2>4. MayTrack(w, e, x.w, x.s)
    BY <1>5, <2>2, SilentThenTracks
  <2>5. QED
    BY <1>8, <2>2, <2>3, <2>4
<1>12. ASSUME NEW d \in Contexts, text # 0 => e.bound = d,
              u = [ScheduleSession(w, r, e, p, d) EXCEPT !.s.state = "pending"]
       PROVE  Goal
  <2> DEFINE x == ScheduleSession(w, r, e, p, d)
  <2>1. PICK a, c : x = [w |-> a, s |-> c]
    BY ReturnsBoth
  <2>2. MayTrack(w, e, x.w, x.s) /\ x.s \in SessionsTo(n)
    BY <1>1, <1>6, <1>12, ScheduleTracks
  <2> HIDE DEF x
  <2>3. u.w = x.w /\ u.s = [x.s EXCEPT !.state = "pending"]
    BY <1>12, <2>1, SayingAfter DEF x
  <2>4. QED
    BY <1>8, <2>2, <2>3
<1>13. CASE e.active /\ r.enabled /\ r.suspended
  BY <1>2, <1>11, <1>13
<1>14. CASE e.active /\ r.enabled /\ ~r.suspended /\ text = 0 /\ b = None
  <2> DEFINE x == Release(v, e)
             f == [e EXCEPT !.capture = None, !.state = "empty"]
  <2>1. u.w = x /\ u.s = f
    BY <1>2, <1>14
  <2>2. Moves(n, v, x, p) /\ x.latest = v.latest
    BY <1>1, <1>5, <1>7, ReleaseMoves DEF SessionsTo
  <2> HIDE DEF x
  <2>3. Silent(v, x)
    BY <1>5, <2>2, SilentMove
  <2>4. Silent(w, x)
    BY <1>5, <2>3 DEF Silent
  <2>5. f.origin = e.origin /\ Shows(e, f)
    BY <1>1 DEF Shows, SessionsTo
  <2>6. QED
    BY <2>1, <2>4, <2>5 DEF Goal, MayTrack
<1>15. CASE e.active /\ r.enabled /\ ~r.suspended /\ text = 0 /\ b # None
  BY <1>2, <1>4, <1>12, <1>15
<1>16. CASE e.active /\ r.enabled /\ ~r.suspended /\ text # 0 /\ NeedsGuard(e)
  BY <1>2, <1>11, <1>16
<1>17. CASE e.active /\ r.enabled /\ ~r.suspended /\ text # 0 /\ ~NeedsGuard(e)
  <2>1. e.bound = e.context
    BY <1>1, <1>17 DEF NeedsGuard
  <2>2. QED
    BY <1>1, <1>2, <1>3, <1>12, <1>17, <2>1
<1>18. QED
  BY <1>10, <1>13, <1>14, <1>15, <1>16, <1>17

\* A restored session that has become the live one: the coordinator has taken its
\* text only if its draft has stayed the session's, and has kept an obligation for
\* it otherwise.
Claims(w, s, v, t) ==
    \/ MayTrack(w, s, v, t) /\ (t.origin # s.origin => ~s.deleted /\ ~Superseded(w, s))
    \/ /\ Shows(s, t) /\ Silent(w, v) /\ Superseded(w, s) /\ Superseded(v, t)
       /\ t.origin.draft = s.origin.draft

LEMMA ClaimTracks ==
  ASSUME NEW n \in Texts, NEW w, NEW r, NEW s0, NEW p \in Pages, Orderly(n, w), Sound(n, w, s0, p),
         Traces(w, s0, p), s0.open
  PROVE  LET u == Claim(w, r, s0, p) IN Claims(w, s0, u.w, u.s)
<1> DEFINE u == Claim(w, r, s0, p)
           s == [s0 EXCEPT !.transferred = FALSE]
           c == IF s.sql = 0 /\ s.pending # None THEN s.pending ELSE Home(s)
           Goal == Claims(w, s0, u.w, u.s)
<1>1. s0 \in SessionsTo(n) /\ s0.context \in Contexts /\ (s0.sql # 0 <=> s0.bound # None)
  BY DEF Sound, Coherent
<1>2. /\ Shows(s0, s) /\ s.origin = s0.origin /\ s \in SessionsTo(n) /\ s.context = s0.context
      /\ s.active = s0.active
  BY <1>1 DEF SessionsTo, Shows
<1>3. u = IF ~r.enabled
          THEN [w |-> w, s |-> [s EXCEPT !.overtaken = @ \/ Superseded(w, s)]]
          ELSE IF ~w.intake \/ s.deleted THEN [w |-> w, s |-> s]
          ELSE IF Superseded(w, s)
          THEN IF s.sql = 0 THEN [w |-> w, s |-> s]
               ELSE [w |-> Retain(w, s.origin),
                     s |-> [s EXCEPT !.savedSql = 0, !.savedContext = None, !.failed = TRUE,
                                     !.origin.rev = Retain(w, s.origin).sequence,
                                     !.state = IF NeedsGuard(s)
                                               THEN "context_required" ELSE "error"]]
          ELSE IF s.state = "pending" /\ ~r.suspended /\ ~NeedsGuard(s)
          THEN ScheduleSession(w, r, s, p, c)
          ELSE RetainUnscheduled(w, r, s)
  BY DEF Claim
<1> SUFFICES Goal
  BY DEF u, Goal
<1> HIDE DEF s, u
<1>4. Silent(w, w)
  BY DEF Silent
<1>5. Traces(w, s, p) /\ (s.sql # 0 <=> s.bound # None) /\ s.context \in Contexts
  BY <1>1, <1>2 DEF Traces, Shows
<1>6. ASSUME MayTrack(w, s, u.w, u.s), u.s.origin = s.origin \/ (~s.deleted /\ ~Superseded(w, s))
      PROVE  Goal
  <2>1. MayTrack(w, s0, u.w, u.s)
    BY <1>2, <1>6 DEF MayTrack, Tracks, Shows
  <2>2. s.deleted = s0.deleted /\ (Superseded(w, s) <=> Superseded(w, s0))
    BY <1>2 DEF Shows, Superseded
  <2>3. QED
    BY <1>2, <1>6, <2>1, <2>2 DEF Goal, Claims
<1>7. ASSUME NEW y, u.w = w, u.s = y, Shows(s, y), y.origin = s.origin PROVE Goal
  BY <1>4, <1>6, <1>7 DEF MayTrack
<1>8. CASE ~r.enabled
  <2> DEFINE o == (s.overtaken \/ Superseded(w, s))
             y == [s EXCEPT !.overtaken = o]
  <2>1. u.w = w /\ u.s = y
    BY <1>3, <1>8
  <2>2. Shows(s, y) /\ y.origin = s.origin
    BY <1>2 DEF SessionsTo, Shows
  <2>3. QED
    BY <1>7, <2>1, <2>2
<1>9. CASE r.enabled /\ (~w.intake \/ s.deleted \/ (Superseded(w, s) /\ s.sql = 0))
  <2>1. u.w = w /\ u.s = s
    BY <1>3, <1>9
  <2>2. QED
    BY <1>7, <2>1 DEF Shows
<1>10. CASE r.enabled /\ w.intake /\ ~s.deleted /\ Superseded(w, s) /\ s.sql # 0
  <2> DEFINE t == Retain(w, s.origin)
             state == IF NeedsGuard(s) THEN "context_required" ELSE "error"
             y == [s EXCEPT !.savedSql = 0, !.savedContext = None, !.failed = TRUE,
                            !.origin.rev = t.sequence, !.state = state]
  <2>1. u.w = t /\ u.s = y
    BY <1>3, <1>10
  <2>2. s.origin \in Origins
    BY <1>2, <1>10 DEF SessionsTo, Superseded
  <2>3. Moves(n, w, t, p) /\ t.latest = w.latest /\ t.current = w.current /\ t.sequence = w.sequence + 1
    BY <2>2, RetainMoves
  <2> HIDE DEF t, state
  <2>4. Silent(w, t)
    BY <2>3, SilentMove
  <2>5. y.origin = [s.origin EXCEPT !.rev = t.sequence] /\ Shows(s, y)
    BY <1>2 DEF SessionsTo, Shows
  <2>6. [s.origin EXCEPT !.rev = t.sequence].rev = t.sequence
        /\ [s.origin EXCEPT !.rev = t.sequence].draft = s.origin.draft
        /\ [s.origin EXCEPT !.rev = t.sequence] \in Origins /\ s.origin.draft \in Contexts
    BY <2>2, <2>3 DEF Origins, Moves, Orderly, WritersTo
  <2> HIDE DEF y
  <2>7. y.origin # None
    BY <2>5, <2>6, NoneIsNone
  <2>8. w.latest[s.origin.draft] # t.sequence
    BY <2>3, <2>6 DEF Orderly, Coordinated, WritersTo
  <2>9. Superseded(t, y)
    BY <2>3, <2>5, <2>6, <2>7, <2>8 DEF Superseded
  <2>10. Superseded(w, s0) /\ Shows(s0, y) /\ y.origin.draft = s0.origin.draft
    BY <1>2, <1>10, <2>5, <2>6 DEF Superseded, Shows
  <2>11. QED
    BY <2>1, <2>4, <2>9, <2>10 DEF Goal, Claims
<1>11. CASE r.enabled /\ w.intake /\ ~s.deleted /\ ~Superseded(w, s)
            /\ s.state = "pending" /\ ~r.suspended /\ ~NeedsGuard(s)
  <2>1. u = ScheduleSession(w, r, s, p, c)
    BY <1>3, <1>11
  <2>2. c \in Contexts /\ (s.sql # 0 => s.bound = c)
    BY <1>2, <1>5 DEF Home, SessionsTo
  <2> HIDE DEF c
  <2>3. MayTrack(w, s, u.w, u.s)
    BY <1>2, <1>5, <2>1, <2>2, ScheduleTracks
  <2>4. QED
    BY <1>6, <1>11, <2>3
<1>12. CASE r.enabled /\ w.intake /\ ~s.deleted /\ ~Superseded(w, s)
            /\ ~(s.state = "pending" /\ ~r.suspended /\ ~NeedsGuard(s))
  <2>1. u = RetainUnscheduled(w, r, s)
    BY <1>3, <1>12
  <2>2. MayTrack(w, s, u.w, u.s)
    BY <1>2, <1>5, <2>1, RetainTracks
  <2>3. QED
    BY <1>6, <1>12, <2>2
<1>13. QED
  BY <1>8, <1>9, <1>10, <1>11, <1>12

\* What a page that goes away starts is what was current of its draft.
Restarts(w, s, v, t) ==
    /\ MayTrack(w, s, v, t)
    /\ t.origin # s.origin /\ s.sql # 0 =>
         s.bound \in Contexts /\ w.current[s.bound] # None /\ w.current[s.bound].sql = s.sql

LEMMA PrepareFinalTracks ==
  ASSUME NEW n \in Texts, NEW w, NEW r, NEW s, NEW p \in Pages, Orderly(n, w), Sound(n, w, s, p),
         Owns(w, s, p), s.open
  PROVE  LET u == PrepareFinal(w, r, s, p) IN Restarts(w, s, u.w, u.s)
<1> DEFINE u == PrepareFinal(w, r, s, p)
           Not == \/ ~w.intake \/ r.suspended \/ s.deleted \/ ~Holds(w, s.capture)
                  \/ s.capture.editor # s.editor
           y == IF s.failed THEN ScheduleSession(w, r, s, p, s.capture.draft) ELSE [w |-> w, s |-> s]
           d == y.s.capture.draft
<1>1. u = IF Not THEN [w |-> w, s |-> s, jobs |-> << >>]
          ELSE [w |-> Launch(y.w, {d}), s |-> y.s,
                jobs |-> IF d \in y.w.timers THEN <<WriteJob(y.s.capture)>> ELSE << >>]
  BY DEF PrepareFinal
<1>2. Silent(w, w) /\ Shows(s, s)
  BY DEF Silent, Shows
<1>3. CASE Not
  <2>1. u.w = w /\ u.s = s
    BY <1>1, <1>3
  <2>2. QED
    BY <1>2, <2>1 DEF Restarts, MayTrack
<1>4. CASE ~Not
  <2>1. u.w = Launch(y.w, {d}) /\ u.s = y.s
    BY <1>1, <1>4
  <2>2. Holds(w, s.capture) /\ s \in SessionsTo(n) /\ s.capture # None
    BY <1>4 DEF Sound, Holds
  <2>3. s.capture \in CapturesTo(n) /\ s.capture.page = p /\ s.capture.draft \in Contexts
    BY <2>2 DEF Sound, SessionsTo, CapturesTo
  <2> DEFINE c == s.capture.draft
  <2>4. w.current[c] = s.capture
    BY <2>2 DEF Holds
  <2>5. s.sql = s.capture.sql /\ (s.capture.sql # 0 => s.bound = c)
    BY <2>2, <2>3, <2>4 DEF Owns
  <2>6. MayTrack(w, s, y.w, y.s)
    <3>1. CASE s.failed
      BY <2>2, <2>3, <2>5, <3>1, OwnsTraces, ScheduleTracks
    <3>2. CASE ~s.failed
      BY <1>2, <3>2 DEF MayTrack
    <3>3. QED
      BY <3>1, <3>2
  <2>7. \A ids : Launch(y.w, ids).latest = y.w.latest /\ Launch(y.w, ids).current = y.w.current
    BY DEF Launch
  <2> HIDE DEF y, d
  <2>8. MayTrack(w, s, u.w, u.s)
    BY <2>1, <2>6, <2>7 DEF MayTrack, Tracks, Silent
  <2>9. s.sql # 0 => s.bound \in Contexts /\ w.current[s.bound] # None /\ w.current[s.bound].sql = s.sql
    BY <2>2, <2>3, <2>4, <2>5
  <2>10. QED
    BY <2>8, <2>9 DEF Restarts
<1>5. QED
  BY <1>3, <1>4

-----------------------------------------------------------------------------
(* The histories of the drafts agree with the coordinator, the disk and    *)
(* the pages.                                                              *)

Past == [covered |-> covered, erased |-> erased, replaced |-> replaced]

\* A text that its draft has left behind stays with a session only where the
\* coordinator does not take it: the session is marked deleted, or its text is not
\* the coordinator's, or another has its draft.
Bypassed(w, c, s) ==
    s.sql # 0 /\ s.sql \in c[s.bound] =>
      s.deleted \/ s.origin = None \/ s.origin.draft # s.bound \/ Superseded(w, s)

\* Of the texts typed so far, those erased or replaced were left behind, and they
\* are neither stored nor about to be.
Recorded(n, m, h) ==
    /\ h.covered \in [Contexts -> SUBSET (1 .. n)]
    /\ h.erased \in [Contexts -> SUBSET (1 .. n)]
    /\ h.replaced \in [Contexts -> SUBSET (1 .. n)]
    /\ \A d \in Contexts :
         /\ h.erased[d] \subseteq h.covered[d] /\ h.replaced[d] \subseteq h.covered[d]
         /\ m.disk[d] \notin h.erased[d] /\ m.disk[d] \notin h.replaced[d]
    /\ m.entered => LET cap == m.queue[1].capture
                    IN  cap.sql \notin h.erased[cap.draft] /\ cap.sql \notin h.replaced[cap.draft]

\* No current write has a text that its draft has left behind.
Fresh(w, c) == \A d \in Contexts : w.current[d] # None => w.current[d].sql \notin c[d]

PastOf(n, w, m, h, ss, x) ==
    /\ Recorded(n, m, h) /\ Fresh(w, h.covered)
    /\ \A p \in Pages : ss[p].open => Bypassed(w, h.covered, ss[p])
    /\ x # None => Bypassed(w, h.covered, x.s)

PInv == PastOf(edits + 1, writer, Line, Past, session, snapshot)

\* The texts left behind in c are among those in b.
Fewer(b, c) == \A d \in Contexts : c[d] \subseteq b[d]

LEMMA BypassedLater ==
  ASSUME NEW n, NEW w, NEW v, NEW p, NEW q, NEW s, NEW t, NEW b, NEW c, Orderly(n, w),
         Moves(n, w, v, p), Sound(n, w, s, q), Bypassed(w, b, s), Shows(s, t), t.origin = s.origin,
         Fewer(b, c)
  PROVE  Bypassed(v, c, t)
<1>1. SUFFICES ASSUME s.sql # 0, s.sql \in c[s.bound], s.deleted = FALSE, s.origin # None,
                      s.origin.draft = s.bound
               PROVE  Superseded(v, t)
  BY DEF Bypassed, Shows, Sound, SessionsTo
<1>2. s.bound \in Contexts /\ s.origin \in Origins /\ s.origin.rev \in Nat
  BY <1>1 DEF Sound, SessionsTo, Coherent, Origins
<1>3. Superseded(w, s)
  BY <1>1, <1>2 DEF Bypassed, Fewer
<1>4. s.origin.rev <= w.sequence /\ w.latest[s.bound] # s.origin.rev /\ w.sequence \in Nat
  BY <1>1, <1>3 DEF Superseded, Sound, Coherent, Orderly, WritersTo
<1>5. v.latest[s.bound] = w.latest[s.bound] \/ v.latest[s.bound] > w.sequence
  BY <1>2 DEF Moves, Advances
<1>6. v.latest[s.bound] # s.origin.rev
  BY <1>2, <1>4, <1>5
<1>7. QED
  BY <1>1, <1>6 DEF Superseded

LEMMA FreshLater ==
  ASSUME NEW w, NEW v, NEW b, NEW c, Fresh(w, b), Silent(w, v), Fewer(b, c)
  PROVE  Fresh(v, c)
BY DEF Fresh, Silent, Fewer

(* The coordinator takes a text that its draft has not left behind.        *)
LEMMA TracksFresh ==
  ASSUME NEW n, NEW w, NEW v, NEW b, NEW c, NEW s, NEW t, Fresh(w, b), Tracks(w, s, v, t), Fewer(b, c),
         c \in [Contexts -> SUBSET (1 .. n)], s.sql # 0 => s.sql \notin c[s.bound]
  PROVE  Fresh(v, c) /\ (Shows(s, t) => Bypassed(v, c, t))
<1> DEFINE d == t.origin.draft
<1>1. d \in Contexts /\ (s.sql # 0 => s.bound = d) /\ (v.current[d] # None => v.current[d].sql = s.sql)
      /\ \A e \in Contexts \ {d} : v.current[e] \in {w.current[e], None}
  BY DEF Tracks, Origins
<1> HIDE DEF d
<1>2. 0 \notin c[d]
  BY <1>1
<1>3. s.sql \notin c[d]
  BY <1>1, <1>2
<1>4. Fresh(v, c)
  BY <1>1, <1>3 DEF Fresh, Fewer
<1>5. Shows(s, t) => Bypassed(v, c, t)
  BY DEF Shows, Bypassed
<1>6. QED
  BY <1>4, <1>5

(* Fewer texts are left behind, with what stays otherwise.                 *)
LEMMA RecordedLater ==
  ASSUME NEW n, NEW m, NEW k, NEW h, Recorded(n, m, h), k.disk = m.disk,
         k.entered => m.entered /\ k.queue[1] = m.queue[1]
  PROVE  Recorded(n, k, h)
BY DEF Recorded

\* A history r is f without this text of draft d.
Thinned(n, f, r, d, text) ==
    /\ r \in [Contexts -> SUBSET (1 .. n)] /\ Fewer(f, r) /\ r[d] = f[d] \ {text}
    /\ \A e \in Contexts \ {d} : r[e] = f[e]

LEMMA ReadmitThins ==
  ASSUME NEW n, NEW f, NEW d \in Contexts, NEW text, f \in [Contexts -> SUBSET (1 .. n)]
  PROVE  Thinned(n, f, Readmit(f, d, text), d, text)
<1> DEFINE r == Readmit(f, d, text)
<1>1. /\ r \in [Contexts -> SUBSET (1 .. n)] /\ r[d] = f[d] \ {text}
      /\ \A e \in Contexts \ {d} : r[e] = f[e]
      /\ Fewer(f, r)
  BY DEF Readmit, Fewer
<1> HIDE DEF r
<1>2. Thinned(n, f, r, d, text)
  BY <1>1 DEF Thinned
<1>3. QED
  BY <1>2 DEF r

\* The histories with one text taken back among those its draft may have.
Readmitting(h, g, d, text) ==
    /\ g.covered = Readmit(h.covered, d, text)
    /\ g.erased = Readmit(h.erased, d, text)
    /\ g.replaced = Readmit(h.replaced, d, text)

LEMMA ReadmittingRecorded ==
  ASSUME NEW n, NEW m, NEW h, NEW g, NEW d \in Contexts, NEW text, Recorded(n, m, h),
         Readmitting(h, g, d, text), m.entered => m.queue[1].capture.draft \in Contexts
  PROVE  Recorded(n, m, g) /\ Fewer(h.covered, g.covered) /\ text \notin g.covered[d]
<1>1. /\ Thinned(n, h.covered, g.covered, d, text) /\ Thinned(n, h.erased, g.erased, d, text)
      /\ Thinned(n, h.replaced, g.replaced, d, text)
  <2>1. /\ h.covered \in [Contexts -> SUBSET (1 .. n)] /\ h.erased \in [Contexts -> SUBSET (1 .. n)]
        /\ h.replaced \in [Contexts -> SUBSET (1 .. n)]
    BY DEF Recorded
  <2>2. QED
    BY <2>1, ReadmitThins DEF Readmitting
<1>2. /\ g.covered \in [Contexts -> SUBSET (1 .. n)] /\ g.erased \in [Contexts -> SUBSET (1 .. n)]
      /\ g.replaced \in [Contexts -> SUBSET (1 .. n)]
      /\ Fewer(h.covered, g.covered) /\ Fewer(h.erased, g.erased) /\ Fewer(h.replaced, g.replaced)
  BY <1>1 DEF Thinned
<1>3. /\ g.covered[d] = h.covered[d] \ {text} /\ g.erased[d] = h.erased[d] \ {text}
      /\ g.replaced[d] = h.replaced[d] \ {text}
      /\ \A e \in Contexts \ {d} : /\ g.covered[e] = h.covered[e] /\ g.erased[e] = h.erased[e]
                                   /\ g.replaced[e] = h.replaced[e]
  BY <1>1 DEF Thinned
<1>4. ASSUME NEW e \in Contexts
      PROVE  /\ g.erased[e] \subseteq g.covered[e] /\ g.replaced[e] \subseteq g.covered[e]
             /\ m.disk[e] \notin g.erased[e] /\ m.disk[e] \notin g.replaced[e]
  BY <1>3 DEF Recorded
<1>5. m.entered => LET cap == m.queue[1].capture
                   IN  cap.sql \notin g.erased[cap.draft] /\ cap.sql \notin g.replaced[cap.draft]
  BY <1>2 DEF Recorded, Fewer
<1>6. QED
  BY <1>2, <1>3, <1>4, <1>5 DEF Recorded

(* What the coordinator takes is of a new revision.                        *)
LEMMA TracksAnew ==
  ASSUME NEW n, NEW w, NEW v, NEW q, NEW e, NEW s, NEW t, Orderly(n, w), Sound(n, w, s, q),
         Tracks(w, e, v, t)
  PROVE  t.origin # s.origin
<1>1. t.origin \in Origins /\ w.sequence < t.origin.rev /\ t.origin.rev \in Nat /\ t.origin # None
  BY NoneIsNoValue DEF Tracks, Origins
<1>2. s.origin # None => s.origin.rev <= w.sequence
  BY DEF Sound, Coherent
<1>3. w.sequence \in Nat
  BY DEF Orderly, WritersTo
<1>4. QED
  BY <1>1, <1>2, <1>3

(* The coordinator may have taken the session's text, which its draft has  *)
(* not left behind, or has been given it back.                             *)
LEMMA MayTrackPast ==
  ASSUME NEW n, NEW w, NEW v, NEW p, NEW q, NEW s, NEW t, NEW b, NEW c, Orderly(n, w),
         Moves(n, w, v, p), Sound(n, w, s, q), MayTrack(w, s, v, t), Fresh(w, b), Bypassed(w, b, s),
         Fewer(b, c), c \in [Contexts -> SUBSET (1 .. n)],
         t.origin # s.origin /\ s.sql # 0 => s.sql \notin c[s.bound]
  PROVE  Fresh(v, c) /\ Bypassed(v, c, t)
<1>1. CASE t.origin = s.origin /\ Silent(w, v)
  BY <1>1, FreshLater, BypassedLater DEF MayTrack
<1>2. CASE Tracks(w, s, v, t)
  <2>1. t.origin # s.origin
    BY <1>2, TracksAnew
  <2>2. QED
    BY <1>2, <2>1, TracksFresh DEF MayTrack
<1>3. QED
  BY <1>1, <1>2 DEF MayTrack

(* A restored session has become the live one.                             *)
LEMMA ClaimsPast ==
  ASSUME NEW n, NEW w, NEW v, NEW p, NEW q, NEW s, NEW t, NEW b, NEW c, Orderly(n, w),
         Moves(n, w, v, p), Sound(n, w, s, q), Claims(w, s, v, t), Fresh(w, b), Bypassed(w, b, s),
         Fewer(b, c), c \in [Contexts -> SUBSET (1 .. n)],
         Stranger(s) /\ t.origin # s.origin /\ t.origin.draft = s.bound => s.sql \notin c[s.bound]
  PROVE  Fresh(v, c) /\ Bypassed(v, c, t)
<1>1. CASE MayTrack(w, s, v, t) /\ (t.origin # s.origin => ~s.deleted /\ ~Superseded(w, s))
  <2>1. ASSUME t.origin # s.origin, s.sql # 0 PROVE s.sql \notin c[s.bound]
    <3>1. CASE Stranger(s)
      <4>1. t.origin.draft = s.bound
        BY <1>1, <2>1 DEF MayTrack, Tracks
      <4>2. QED
        BY <2>1, <3>1, <4>1
    <3>2. CASE ~Stranger(s)
      <4>1. s.origin # None /\ s.origin.draft = s.bound /\ ~s.deleted /\ ~Superseded(w, s)
        BY <1>1, <2>1, <3>2 DEF Stranger
      <4>2. s.sql \notin b[s.bound] /\ s.bound \in Contexts
        BY <2>1, <4>1 DEF Bypassed, Sound, Coherent, SessionsTo
      <4>3. QED
        BY <4>2 DEF Fewer
    <3>3. QED
      BY <3>1, <3>2
  <2>2. QED
    BY <1>1, <2>1, MayTrackPast
<1>2. CASE /\ Shows(s, t) /\ Silent(w, v) /\ Superseded(w, s) /\ Superseded(v, t)
           /\ t.origin.draft = s.origin.draft
  <2>1. Fresh(v, c)
    BY <1>2, FreshLater
  <2>2. QED
    BY <1>2, <2>1 DEF Bypassed
<1>3. QED
  BY <1>1, <1>2 DEF Claims

LEMMA SoundPages ==
  ASSUME NEW n, NEW w, NEW m, NEW r, NEW ss, NEW x, InvOf(n, w, m, r, ss, x)
  PROVE  /\ Orderly(n, w) /\ \A p \in Pages : Sound(n, w, ss[p], p) /\ Owns(w, ss[p], p)
         /\ x # None => Sound(n, w, x.s, x.page)
         /\ ss \in [Pages -> SessionsTo(n)]
BY DEF InvOf, Tended, Carried

(* A step of page p.                                                       *)
LEMMA PagePast ==
  ASSUME NEW n, NEW w, NEW v, NEW m, NEW k, NEW r, NEW h, NEW g, NEW ss, NEW tt, NEW x, NEW y,
         NEW p \in Pages, NEW t, InvOf(n, w, m, r, ss, x), PastOf(n, w, m, h, ss, x),
         Moves(n, w, v, p), Recorded(n, k, g), Fewer(h.covered, g.covered), Fresh(v, g.covered),
         t.open => Bypassed(v, g.covered, t), tt = [ss EXCEPT ![p] = t], y = None \/ y = x
  PROVE  PastOf(n, v, k, g, tt, y)
<1>1. ASSUME NEW q, NEW s, Sound(n, w, s, q), Bypassed(w, h.covered, s) PROVE Bypassed(v, g.covered, s)
  BY <1>1, SoundPages, BypassedLater DEF Shows
<1>2. ASSUME NEW q \in Pages, tt[q].open PROVE Bypassed(v, g.covered, tt[q])
  <2>1. ss \in [Pages -> SessionsTo(n)] /\ Sound(n, w, ss[q], q)
    BY SoundPages
  <2>2. CASE q = p
    BY <1>2, <2>1, <2>2
  <2>3. CASE q # p
    BY <1>1, <1>2, <2>1, <2>3 DEF PastOf
  <2>4. QED
    BY <2>2, <2>3
<1>3. y # None => Bypassed(v, g.covered, y.s)
  BY <1>1, SoundPages DEF PastOf
<1>4. QED
  BY <1>2, <1>3 DEF PastOf

\* The same texts of the same drafts.
Same(s, t) == Shows(s, t) /\ t.origin = s.origin

(* A step that takes no text.                                              *)
LEMMA NobodyPast ==
  ASSUME NEW n, NEW w, NEW v, NEW m, NEW k, NEW r, NEW h, NEW ss, NEW tt, NEW x, NEW y, NEW p,
         InvOf(n, w, m, r, ss, x), PastOf(n, w, m, h, ss, x), Moves(n, w, v, p), Silent(w, v),
         Recorded(n, k, h),
         \A q \in Pages : tt[q].open => ss[q].open /\ Same(ss[q], tt[q]),
         y = None \/ y = x \/ \E q \in Pages : ss[q].open /\ Same(ss[q], y.s)
  PROVE  PastOf(n, v, k, h, tt, y)
<1> DEFINE c == h.covered
<1>1. Fewer(c, c)
  BY DEF Fewer
<1>2. ASSUME NEW q, NEW s, NEW t, Sound(n, w, s, q), Bypassed(w, c, s), Same(s, t) PROVE Bypassed(v, c, t)
  BY <1>1, <1>2, SoundPages, BypassedLater DEF Same
<1>3. Fresh(v, c)
  BY <1>1, FreshLater DEF PastOf
<1>4. ASSUME NEW q \in Pages, tt[q].open PROVE Bypassed(v, c, tt[q])
  BY <1>2, <1>4, SoundPages DEF PastOf
<1>5. ASSUME y # None PROVE Bypassed(v, c, y.s)
  <2>1. CASE y = x
    <3>1. Same(x.s, x.s)
      BY DEF Same, Shows
    <3>2. QED
      BY <1>2, <1>5, <2>1, <3>1, SoundPages DEF PastOf
  <2>2. CASE \E q \in Pages : ss[q].open /\ Same(ss[q], y.s)
    BY <1>2, <2>2, SoundPages DEF PastOf
  <2>3. QED
    BY <1>5, <2>1, <2>2
<1>6. QED
  BY <1>3, <1>4, <1>5 DEF PastOf

(* An edit in the live page.                                               *)
LEMMA EditMoves ==
  ASSUME NEW n \in Texts, NEW m, NEW w, NEW r, NEW z, NEW ss, NEW x, NEW p \in Pages, NEW text \in 0 .. n,
         InvOf(n, w, m, r, ss, x), w.intake, ss[p].open, ss[p].active, z \in Preferences,
         ~z.enabled => ~r.enabled,
         text = ss[p].sql \/ text = 0 \/ text # ss[p].savedSql
  PROVE  LET u == Edited(w, z, ss[p], p, text)
         IN  Moves(n, w, u.w, p) /\ MayTrack(w, Retyped(ss[p], text), u.w, u.s)
<1> DEFINE s == ss[p]
<1>1. Orderly(n, w) /\ Tended(n, m, w, r, s, p) /\ Quiet(w, r)
  BY DEF InvOf
<1>2. Served(n, m, w, s, p) /\ s.open /\ s.active /\ Sound(n, w, s, p) /\ Traces(w, s, p)
  BY <1>1, OwnsTraces DEF Tended, Served
<1>3. z.enabled \in BOOLEAN /\ (~z.enabled => Freed(w, p))
  BY <1>1 DEF Preferences, Quiet, Freed
<1> HIDE DEF s
<1>4. Moves(n, w, Edited(w, z, s, p, text).w, p)
  <2>1. text = s.sql \/ text = 0 \/ text # s.savedSql
    BY DEF s
  <2>2. QED
    BY <1>1, <1>2, <1>3, <2>1, EditedServes
<1>5. LET u == Edited(w, z, s, p, text) IN MayTrack(w, Retyped(s, text), u.w, u.s)
  BY <1>1, <1>2, EditedTracks
<1>6. QED
  BY <1>4, <1>5 DEF s

-----------------------------------------------------------------------------
(* The report: what the user gave each draft is owed, or is on disk.       *)

\* The session has the draft: its revision is the newest.
Has(w, s, d) == s.origin # None /\ s.origin.draft = d /\ w.latest[d] = s.origin.rev

\* The text last given to a draft is that of the session that has it.
Mine(w, a, s) ==
    \A d \in Contexts : Has(w, s, d) /\ a[d] # 0 =>
      s.sql = a[d] /\ s.bound = d /\ (Acked(s) => ~s.overtaken)

\* It is on disk, and nothing on its way changes that.
Settled(m, a, d) ==
    /\ m.disk[d] = a[d]
    /\ \A i \in DOMAIN m.queue :
         d \in m.queue[i].ids =>
           m.queue[i].op = "write" /\ (i = 1 /\ m.entered => m.queue[i].capture.sql = a[d])

\* It is what the draft's current write has, and is owed unless it is settled.
Accounted(w, m, a, d) ==
    a[d] # 0 => /\ w.current[d] # None => w.current[d].sql = a[d]
                /\ w.unconfirmed[d] # 0 \/ Settled(m, a, d)

\* The capture is of the newest revision of the draft, whose current write, if
\* any, it then is, and whose text it then has.
Newly(w, d, cap) == cap.draft = d /\ cap.rev = w.latest[d] /\ w.latest[d] # 0

Agrees(w, a, d, cap) == w.current[d] \in {None, cap} /\ a[d] \in {0, cap.sql}

\* Nothing behind it in line touches the draft.
InLine(w, m, a, d) ==
    \A i \in DOMAIN m.queue : m.queue[i].op = "write" /\ Newly(w, d, m.queue[i].capture) =>
      /\ Agrees(w, a, d, m.queue[i].capture)
      /\ \A j \in DOMAIN m.queue : i < j => d \notin m.queue[j].ids

\* Nothing in line does once it has been written.
Answered(w, m, a, d) ==
    \A i \in DOMAIN m.results : m.results[i].job.op = "write" =>
      LET cap == m.results[i].job.capture
      IN  Newly(w, d, cap) =>
            /\ Agrees(w, a, d, cap)
            /\ \A j \in DOMAIN m.queue : d \notin m.queue[j].ids
            /\ m.results[i].code = "ok" => m.disk[d] = cap.sql

Told(w, m, a, d) == Accounted(w, m, a, d) /\ InLine(w, m, a, d) /\ Answered(w, m, a, d)

\* A blank that waits to be saved has a draft to be the blank of.
Blanked(s) ==
    s.state = "pending" /\ s.sql = 0 =>
      s.pending # None \/ (s.capture # None /\ s.capture.editor = s.editor)

\* Away from the live page it has no write, and that draft is its origin's.
Away(s) ==
    s.capture = None /\ (s.pending # None => s.origin # None /\ s.origin.draft = s.pending)

Minded(w, a, s) == Mine(w, a, s) /\ Blanked(s) /\ (~s.active => Away(s))

OwedOf(n, w, m, a, ss, x) ==
    /\ a \in [Contexts -> 0 .. n]
    /\ \A d \in Contexts : Told(w, m, a, d)
    /\ \A p \in Pages : ss[p].open => Minded(w, a, ss[p])
    /\ x # None => Mine(w, a, x.s) /\ Blanked(x.s) /\ Away(x.s)

\* It holds unless the report has counted something.
RInv ==
    /\ writer.intake => Running
    /\ (report.phase = "done" => report.count = 0) =>
         OwedOf(edits + 1, writer, Line, wanted, session, snapshot)
    /\ report.phase = "done" /\ report.count = 0 => \A d \in Contexts : writer.unconfirmed[d] = 0

-----------------------------------------------------------------------------
(* How they follow the coordinator.                                        *)

\* A draft keeps its text, or loses it, while it keeps its revision.
Keeps(w, v, a, b) == \A d \in Contexts : v.latest[d] = w.latest[d] => b[d] \in {0, a[d]}

LEMMA NewlyStill ==
  ASSUME NEW n, NEW w, NEW v, NEW p, NEW d \in Contexts, NEW cap \in CapturesTo(n),
         Orderly(n, w), Moves(n, w, v, p), cap.rev <= w.sequence, Newly(v, d, cap)
  PROVE  Newly(w, d, cap) /\ v.latest[d] = w.latest[d] /\ v.current[d] \in {w.current[d], None}
<1>1. v.latest[d] \in Nat /\ w.latest[d] \in Nat /\ w.sequence \in Nat /\ cap.rev \in Nat
  BY DEF Orderly, Moves, WritersTo, CapturesTo
<1>2. ~(v.latest[d] > w.sequence)
  BY <1>1 DEF Newly
<1>3. v.latest[d] = w.latest[d] /\ v.current[d] \in {w.current[d], None}
  BY <1>2 DEF Moves, Advances
<1>4. QED
  BY <1>3 DEF Newly

LEMMA ToldLater ==
  ASSUME NEW n, NEW m, NEW w, NEW v, NEW p, NEW a, NEW b, NEW d \in Contexts,
         Orderly(n, w), Moves(n, w, v, p), Stored(n, m), Lined(w, m), Awaited(w, m),
         Told(w, m, a, d), Accounted(v, m, b, d), Keeps(w, v, a, b)
  PROVE  Told(v, m, b, d)
<1>1. ASSUME NEW cap \in CapturesTo(n), cap.rev <= w.sequence, Newly(v, d, cap)
      PROVE  Newly(w, d, cap) /\ (Agrees(w, a, d, cap) => Agrees(v, b, d, cap))
  <2>1. Newly(w, d, cap) /\ v.latest[d] = w.latest[d] /\ v.current[d] \in {w.current[d], None}
    BY <1>1, NewlyStill
  <2>2. QED
    BY <2>1 DEF Agrees, Keeps
<1>2. InLine(v, m, b, d)
  <2>1. SUFFICES ASSUME NEW i \in DOMAIN m.queue, m.queue[i].op = "write", Newly(v, d, m.queue[i].capture)
                 PROVE  /\ Agrees(v, b, d, m.queue[i].capture)
                        /\ \A j \in DOMAIN m.queue : i < j => d \notin m.queue[j].ids
    BY DEF InLine
  <2>2. m.queue[i].capture \in CapturesTo(n) /\ m.queue[i].capture.rev <= w.sequence
    BY <2>1, JobsAndResults DEF Lined
  <2>3. QED
    BY <1>1, <2>1, <2>2 DEF Told, InLine
<1>3. Answered(v, m, b, d)
  <2>1. SUFFICES ASSUME NEW i \in DOMAIN m.results, m.results[i].job.op = "write",
                        Newly(v, d, m.results[i].job.capture)
                 PROVE  LET cap == m.results[i].job.capture
                        IN  /\ Agrees(v, b, d, cap)
                            /\ \A j \in DOMAIN m.queue : d \notin m.queue[j].ids
                            /\ m.results[i].code = "ok" => m.disk[d] = cap.sql
    BY DEF Answered
  <2>2. m.results[i].job.capture \in CapturesTo(n) /\ m.results[i].job.capture.rev <= w.sequence
    BY <2>1, JobsAndResults DEF Awaited
  <2>3. QED
    BY <1>1, <2>1, <2>2 DEF Told, Answered
<1>4. QED
  BY <1>2, <1>3 DEF Told

LEMMA MineLater ==
  ASSUME NEW n, NEW w, NEW v, NEW p, NEW q, NEW s, NEW a, NEW b,
         Orderly(n, w), Moves(n, w, v, p), Sound(n, w, s, q), Mine(w, a, s), Keeps(w, v, a, b)
  PROVE  Mine(v, b, s)
<1>1. SUFFICES ASSUME NEW d \in Contexts, Has(v, s, d), b[d] # 0
               PROVE  s.sql = b[d] /\ s.bound = d /\ (Acked(s) => ~s.overtaken)
  BY DEF Mine
<1>2. s.origin.rev <= w.sequence
  BY <1>1 DEF Sound, Coherent, Has
<1>3. v.latest[d] \in Nat /\ w.sequence \in Nat
  BY DEF Orderly, Moves, WritersTo
<1>4. v.latest[d] = w.latest[d]
  BY <1>1, <1>2, <1>3 DEF Moves, Advances, Has
<1>5. QED
  BY <1>1, <1>4 DEF Mine, Keeps, Has

(* A step of page p.                                                       *)
LEMMA OwedPage ==
  ASSUME NEW n, NEW m, NEW w, NEW v, NEW r, NEW ss, NEW tt, NEW x, NEW y, NEW a, NEW b,
         NEW p \in Pages, NEW t, InvOf(n, w, m, r, ss, x), OwedOf(n, w, m, a, ss, x),
         Moves(n, w, v, p), b \in [Contexts -> 0 .. n], Keeps(w, v, a, b),
         \A d \in Contexts : Accounted(v, m, b, d), t.open => Minded(v, b, t),
         tt = [ss EXCEPT ![p] = t], y = None \/ y = x
  PROVE  OwedOf(n, v, m, b, tt, y)
<1>1. /\ Orderly(n, w) /\ Stored(n, m) /\ Lined(w, m) /\ Awaited(w, m)
      /\ \A q \in Pages : Sound(n, w, ss[q], q)
      /\ x # None => Sound(n, w, x.s, x.page)
      /\ ss \in [Pages -> SessionsTo(n)]
  BY SoundPages DEF InvOf
<1>2. ASSUME NEW d \in Contexts PROVE Told(v, m, b, d)
  <2>1. Told(w, m, a, d) /\ Accounted(v, m, b, d)
    BY DEF OwedOf
  <2>2. QED
    BY <1>1, <2>1, ToldLater
<1>3. ASSUME NEW q \in Pages, tt[q].open PROVE Minded(v, b, tt[q])
  <2>1. CASE q = p
    BY <1>1, <1>3, <2>1
  <2>2. CASE q # p
    <3>1. tt[q] = ss[q] /\ Minded(w, a, ss[q]) /\ Sound(n, w, ss[q], q)
      BY <1>1, <1>3, <2>2 DEF OwedOf
    <3>2. Mine(v, b, ss[q])
      BY <1>1, <3>1, MineLater DEF Minded
    <3>3. QED
      BY <3>1, <3>2 DEF Minded
  <2>3. QED
    BY <2>1, <2>2
<1>4. ASSUME y # None PROVE Mine(v, b, y.s) /\ Blanked(y.s) /\ Away(y.s)
  <2>1. y = x /\ Mine(w, a, x.s) /\ Blanked(x.s) /\ Away(x.s)
    BY <1>4 DEF OwedOf
  <2>2. Mine(v, b, x.s)
    BY <1>1, <1>4, <2>1, MineLater
  <2>3. QED
    BY <2>1, <2>2
<1>5. QED
  BY <1>2, <1>3, <1>4 DEF OwedOf

-----------------------------------------------------------------------------
(* What the session's operations owe.                                      *)

\* From w to v the drafts outside D keep their revisions; the coordinator owes
\* nothing more for some that the session has.
Eases(w, v, s, D) ==
    \A e \in Contexts : e \notin D =>
      /\ v.latest[e] = w.latest[e] /\ v.current[e] \in {w.current[e], None}
      /\ v.unconfirmed[e] = w.unconfirmed[e] \/ Has(w, s, e)

\* The session is the same up to its origin, its capture and what it says.
Likewise(s, t) ==
    /\ t.sql = s.sql /\ t.bound = s.bound /\ t.savedSql = s.savedSql /\ t.active = s.active
    /\ t.savedContext = s.savedContext /\ t.overtaken = s.overtaken

\* The coordinator has taken the session's text as the newest of draft d, and owes
\* it unless it is the acknowledged one.
Takes(w, s, v, t, d) ==
    /\ Eases(w, v, s, {d}) /\ v.latest[d] > w.sequence
    /\ t.origin = [draft |-> d, rev |-> v.latest[d]] /\ t.origin \in Origins
    /\ v.current[d] # None => v.current[d].sql = s.sql
    /\ s.sql # 0 =>
         /\ s.bound = d
         /\ \/ v.unconfirmed[d] # 0
            \/ ~Unsaved(s, d) /\ (s.origin = None \/ Has(w, s, s.origin.draft))

\* It has, or at most lets go of the session's drafts.
Treats(w, s, v, t) ==
    /\ Likewise(s, t)
    /\ \/ t.origin = s.origin /\ Eases(w, v, s, {})
       \/ \E d \in Contexts : Takes(w, s, v, t, d)

LEMMA EasesNothing ==
  ASSUME NEW w, NEW s
  PROVE  Eases(w, w, s, {})
BY DEF Eases

LEMMA EasesTwice ==
  ASSUME NEW w, NEW v, NEW u, NEW s, NEW D, Eases(w, v, s, {}), Eases(v, u, s, D)
  PROVE  Eases(w, u, s, D)
<1>1. SUFFICES ASSUME NEW e \in Contexts, e \notin D
               PROVE  /\ u.latest[e] = w.latest[e] /\ u.current[e] \in {w.current[e], None}
                      /\ u.unconfirmed[e] = w.unconfirmed[e] \/ Has(w, s, e)
  BY DEF Eases
<1>2. /\ v.latest[e] = w.latest[e] /\ v.current[e] \in {w.current[e], None}
      /\ v.unconfirmed[e] = w.unconfirmed[e] \/ Has(w, s, e)
  BY DEF Eases
<1>3. /\ u.latest[e] = v.latest[e] /\ u.current[e] \in {v.current[e], None}
      /\ u.unconfirmed[e] = v.unconfirmed[e] \/ Has(v, s, e)
  BY <1>1 DEF Eases
<1>4. Has(v, s, e) => Has(w, s, e)
  BY <1>2 DEF Has
<1>5. QED
  BY <1>2, <1>3, <1>4

LEMMA FenceEases ==
  ASSUME NEW n, NEW w, NEW s, NEW d \in Contexts, Orderly(n, w), Has(w, s, d), NEW a
  PROVE  Eases(w, Fence(w, {d}, a, FALSE), s, {})
<1> DEFINE f == Fence(w, {d}, a, FALSE)
<1>1. f.latest = w.latest
  BY DEF Fence, Orderly, WritersTo
<1>2. \A e \in Contexts : /\ f.current[e] \in {w.current[e], None}
                          /\ e # d => f.unconfirmed[e] = w.unconfirmed[e]
  BY DEF Fence, Orderly, WritersTo
<1> HIDE DEF f
<1>3. QED
  BY <1>1, <1>2 DEF Eases, f

LEMMA TrackEases ==
  ASSUME NEW n, NEW w, NEW s, NEW d \in Contexts, Orderly(n, w), NEW a \in BOOLEAN
  PROVE  LET t == Track(w, d, a)
         IN  /\ Eases(w, t, s, {d}) /\ t.latest[d] = w.sequence + 1
             /\ a => t.unconfirmed[d] # 0
<1> DEFINE f == Fence(w, {d}, TRUE, FALSE)
           k == f.sequence + 1
           t == [f EXCEPT !.sequence = k, !.latest[d] = k, !.unconfirmed[d] = IF a THEN k ELSE 0]
<1>1. Track(w, d, a) = t
  BY DEF Track
<1>2. /\ f.latest = w.latest /\ f.sequence = w.sequence
      /\ \A e \in Contexts : /\ f.current[e] \in {w.current[e], None}
                             /\ e # d => f.unconfirmed[e] = w.unconfirmed[e]
  BY DEF Fence, Orderly, WritersTo
<1>3. f \in WritersTo(n)
  BY DEF Fence, Orderly, WritersTo
<1> HIDE DEF f
<1>4. /\ t.current = f.current /\ t.latest[d] = k
      /\ t.unconfirmed[d] = IF a THEN k ELSE 0
      /\ \A e \in Contexts : e # d => t.latest[e] = f.latest[e] /\ t.unconfirmed[e] = f.unconfirmed[e]
  BY <1>3 DEF WritersTo
<1> HIDE DEF t
<1>5. Eases(w, t, s, {d})
  BY <1>2, <1>4 DEF Eases
<1>6. w.sequence \in Nat
  BY DEF Orderly, WritersTo
<1>7. k = w.sequence + 1 /\ (a => t.unconfirmed[d] # 0)
  BY <1>2, <1>4, <1>6
<1>8. QED
  BY <1>1, <1>4, <1>5, <1>7

LEMMA ReleaseEases ==
  ASSUME NEW n, NEW w, NEW s, Orderly(n, w), s.origin \in Origins \union {None}
  PROVE  Eases(w, Release(w, s), s, {})
<1> DEFINE d == s.origin.draft
           r == [w EXCEPT !.retained[d] = @ \ {s.origin.rev}]
<1>1. CASE ~s.active \/ s.origin = None
  BY <1>1, EasesNothing DEF Release
<1>2. CASE s.active /\ s.origin # None
  <2>1. d \in Contexts /\ s.origin.rev \in Nat
    BY <1>2 DEF Origins
  <2>2. r.latest = w.latest /\ r.current = w.current /\ r.unconfirmed = w.unconfirmed
        /\ r.timers = w.timers /\ r.sequence = w.sequence
    BY DEF Orderly, WritersTo
  <2>3. r \in WritersTo(n)
    BY <2>1 DEF Orderly, WritersTo
  <2>4. Release(w, s) = IF r.latest[d] = s.origin.rev THEN Fence(r, {d}, TRUE, FALSE) ELSE r
    BY <1>2 DEF Release
  <2>5. Eases(w, r, s, {})
    BY <2>2 DEF Eases
  <2> HIDE DEF r
  <2>6. CASE r.latest[d] = s.origin.rev
    <3>1. Orderly(n, r) /\ Has(r, s, d)
      BY <1>2, <2>2, <2>3, <2>6 DEF Orderly, Coordinated, Has
    <3>2. Eases(r, Fence(r, {d}, TRUE, FALSE), s, {})
      BY <2>1, <3>1, FenceEases
    <3>3. QED
      BY <2>4, <2>5, <2>6, <3>2, EasesTwice
  <2>7. QED
    BY <2>4, <2>5, <2>6
<1>3. QED
  BY <1>1, <1>2

LEMMA RevokeEases ==
  ASSUME NEW n, NEW w, NEW s, NEW p, Orderly(n, w), Traces(w, s, p),
         s.capture \in CapturesTo(n) \union {None}, s.capture # None => s.capture.page = p
  PROVE  Eases(w, Revoke(w, s), s, {})
<1>1. CASE Holds(w, s.capture)
  <2> DEFINE d == s.capture.draft
  <2>1. d \in Contexts /\ s.capture # None /\ w.current[d] = s.capture /\ s.capture.page = p
    BY <1>1 DEF Holds, CapturesTo
  <2>2. s.origin = [draft |-> d, rev |-> s.capture.rev] /\ s.capture.rev = w.latest[d]
    BY <2>1 DEF Traces, Orderly, Coordinated
  <2>3. s.origin # None
    <3>1. s.origin \in Origins
      BY <2>1, <2>2 DEF Origins, CapturesTo
    <3>2. QED
      BY <3>1, NoneIsNoValue
  <2>4. Has(w, s, d)
    BY <2>2, <2>3 DEF Has
  <2>5. QED
    BY <1>1, <2>1, <2>4, FenceEases DEF Revoke
<1>2. CASE ~Holds(w, s.capture)
  BY <1>2, EasesNothing DEF Revoke
<1>3. QED
  BY <1>1, <1>2

\* The session waits for the write that it has.
Waits(t) == t.capture # None /\ t.capture.editor = t.editor

LEMMA ScheduleTakes ==
  ASSUME NEW n \in Texts, NEW w, NEW r, NEW s, NEW p \in Pages, NEW d \in Contexts,
         Orderly(n, w), s \in SessionsTo(n), s.sql # 0 => s.bound = d,
         w.intake, r.enabled, ~r.suspended, Traces(w, s, p)
  PROVE  LET u == ScheduleSession(w, r, s, p, d)
         IN  Likewise(s, u.s) /\ Takes(w, s, u.w, u.s, d) /\ Waits(u.s)
<1> DEFINE u == ScheduleSession(w, r, s, p, d)
           v == Release(w, s)
           t == Track(v, d, s.sql # 0)
           cap == [draft |-> d, rev |-> t.sequence, sql |-> s.sql, page |-> p, editor |-> s.editor]
           new == [draft |-> d, rev |-> cap.rev]
           x == [t EXCEPT !.current[d] = cap, !.timers = @ \union {d}]
           y == [s EXCEPT !.capture = cap, !.origin = new]
<1>1. u = [w |-> x, s |-> y]
  BY DEF ScheduleSession
<1>2. Moves(n, w, v, p)
  BY ReleaseMoves DEF SessionsTo
<1>3. Orderly(n, v) /\ v.sequence \in Nat /\ w.sequence \in Nat /\ w.sequence <= v.sequence
  BY <1>2 DEF Moves, Advances, Orderly, WritersTo
<1>4. Eases(w, v, s, {})
  BY ReleaseEases DEF SessionsTo
<1> HIDE DEF v
<1>5. /\ t.sequence = v.sequence + 1 /\ t.latest[d] = t.sequence
  BY <1>3, TrackFields
<1>6. Eases(v, t, s, {d}) /\ (s.sql # 0 => t.unconfirmed[d] # 0)
  BY <1>3, TrackEases
<1>7. Moves(n, v, t, p)
  BY <1>3, TrackMoves
<1>8. Eases(w, t, s, {d})
  BY <1>4, <1>6, EasesTwice
<1> HIDE DEF t
<1>9. /\ x.latest = t.latest /\ x.current[d] = cap /\ x.unconfirmed = t.unconfirmed
      /\ \A e \in Contexts \ {d} : x.current[e] = t.current[e]
  BY <1>7 DEF Moves, Orderly, WritersTo
<1>10. Eases(w, x, s, {d})
  BY <1>8, <1>9 DEF Eases
<1>11. new \in Origins /\ new = [draft |-> d, rev |-> t.sequence] /\ cap.sql = s.sql /\ cap.editor = s.editor
  BY <1>3, <1>5 DEF Origins
<1>12. cap \in CapturesTo(n)
  BY <1>3, <1>5 DEF CapturesTo, SessionsTo
<1>13. y.origin = new /\ y.capture = cap /\ y.editor = s.editor /\ Likewise(s, y)
  BY DEF SessionsTo, Likewise
<1> HIDE DEF x, y, new, cap
<1>14. cap # None
  BY <1>12, NoneIsNone
<1>15. x.latest[d] = t.sequence /\ x.latest[d] > w.sequence
  BY <1>3, <1>5, <1>9
<1>16. Takes(w, s, x, y, d)
  BY <1>6, <1>9, <1>10, <1>11, <1>13, <1>15 DEF Takes
<1>17. QED
  BY <1>1, <1>11, <1>13, <1>14, <1>16 DEF Waits

\* What RetainUnscheduled does.
Retains(w, r, s, u) ==
    /\ Treats(w, s, u.w, u.s)
    /\ u.s.state = s.state /\ u.s.capture = s.capture /\ u.s.editor = s.editor
    /\ u.s.pending = s.pending
    /\ r.enabled /\ s.active /\ w.intake /\ s.sql # 0 /\ ~Superseded(w, s) =>
         Takes(w, s, u.w, u.s, Home(s))
    /\ s.sql = 0 \/ Superseded(w, s) => u.s = s
    /\ Superseded(w, s) => u.w = w
    /\ s.sql # 0 => u.w = w \/ Takes(w, s, u.w, u.s, Home(s))

LEMMA RetainTreats ==
  ASSUME NEW n \in Texts, NEW w, NEW r, NEW s, NEW p, Orderly(n, w), s \in SessionsTo(n),
         s.context \in Contexts, s.sql # 0 <=> s.bound # None, Traces(w, s, p)
  PROVE  Retains(w, r, s, RetainUnscheduled(w, r, s))
<1> DEFINE u == RetainUnscheduled(w, r, s)
           v == Release(w, s)
           d == Home(s)
           t == Track(v, d, Unsaved(s, d))
           new == [draft |-> d, rev |-> t.sequence]
           y == [s EXCEPT !.origin = new]
           Not == \/ ~r.enabled \/ ~s.active \/ ~w.intake
                  \/ s.origin # None /\ w.latest[s.origin.draft] # s.origin.rev
<1>1. u = IF Not THEN [w |-> w, s |-> s]
          ELSE IF s.sql = 0 THEN [w |-> v, s |-> s] ELSE [w |-> t, s |-> y]
  BY DEF RetainUnscheduled
<1>2. /\ Superseded(w, s) => Not
      /\ Not => ~r.enabled \/ ~s.active \/ ~w.intake \/ Superseded(w, s)
      /\ ~Not => s.origin = None \/ w.latest[s.origin.draft] = s.origin.rev
  BY DEF Superseded
<1> HIDE DEF Not
<1>3. s \in SessionsTo(n) /\ d \in Contexts /\ (s.sql # 0 => s.bound = d)
  BY DEF Home, SessionsTo
<1>4. Moves(n, w, v, p)
  BY <1>3, ReleaseMoves DEF SessionsTo
<1>5. Orderly(n, v) /\ v.sequence \in Nat /\ w.sequence \in Nat /\ w.sequence <= v.sequence
  BY <1>4 DEF Moves, Advances, Orderly, WritersTo
<1>6. Eases(w, v, s, {}) /\ Eases(w, w, s, {})
  BY <1>3, ReleaseEases, EasesNothing DEF SessionsTo
<1> HIDE DEF v
<1>7. CASE Not \/ s.sql = 0
  <2>1. u.s = s /\ (u.w = w \/ u.w = v)
    BY <1>1, <1>7
  <2>2. Treats(w, s, u.w, u.s)
    BY <1>6, <2>1 DEF Treats, Likewise
  <2>3. ~(r.enabled /\ s.active /\ w.intake /\ s.sql # 0 /\ ~Superseded(w, s))
    BY <1>2, <1>7, Zenon
  <2>4. (Superseded(w, s) => u.w = w) /\ (s.sql # 0 => u.w = w)
    BY <1>1, <1>2, <1>7
  <2>5. QED
    BY <2>1, <2>2, <2>3, <2>4, Zenon DEF Retains
<1>8. CASE ~Not /\ s.sql # 0
  <2>1. u.w = t /\ u.s = y
    BY <1>1, <1>8
  <2>2. /\ t.sequence = v.sequence + 1 /\ t.latest[d] = t.sequence /\ t.current[d] = None
    BY <1>3, <1>5, TrackFields
  <2>3. Unsaved(s, d) \in BOOLEAN
    BY DEF Unsaved
  <2>4. Eases(v, t, s, {d}) /\ (Unsaved(s, d) => t.unconfirmed[d] # 0)
    BY <1>3, <1>5, <2>3, TrackEases
  <2> HIDE DEF t
  <2>5. Eases(w, t, s, {d})
    BY <1>6, <2>4, EasesTwice
  <2>6. /\ y.origin = new /\ Likewise(s, y)
        /\ y.state = s.state /\ y.capture = s.capture /\ y.editor = s.editor /\ y.pending = s.pending
    BY <1>3 DEF SessionsTo, Likewise
  <2>7. new \in Origins /\ new = [draft |-> d, rev |-> t.latest[d]] /\ t.latest[d] > w.sequence
    BY <1>3, <1>5, <2>2 DEF Origins
  <2>8. s.origin = None \/ Has(w, s, s.origin.draft)
    BY <1>2, <1>8 DEF Has
  <2> HIDE DEF y, new, d
  <2>9. Takes(w, s, t, y, d)
    BY <1>3, <1>8, <2>2, <2>4, <2>5, <2>6, <2>7, <2>8 DEF Takes
  <2>10. Treats(w, s, t, y)
    BY <1>3, <2>6, <2>9 DEF Treats
  <2>11. QED
    BY <1>2, <1>8, <2>1, <2>6, <2>9, <2>10 DEF d, Retains
<1>9. QED
  BY <1>7, <1>8

\* The session f was so treated and says something else now, being t.
Says(w, s, v, f, t, state) ==
    /\ Treats(w, s, v, t) /\ \A d \in Contexts : Takes(w, s, v, f, d) => Takes(w, s, v, t, d)
    /\ t.origin = f.origin /\ t.state = state
    /\ Waits(f) => Waits(t)

LEMMA SayingTreats ==
  ASSUME NEW n, NEW w, NEW v, NEW s, NEW f \in SessionsTo(n), NEW state, NEW t,
         Treats(w, s, v, f), t = [f EXCEPT !.state = state]
  PROVE  Says(w, s, v, f, t, state)
<1>1. /\ t.origin = f.origin /\ t.capture = f.capture /\ t.editor = f.editor
      /\ t.sql = f.sql /\ t.bound = f.bound /\ t.savedSql = f.savedSql /\ t.active = f.active
      /\ t.savedContext = f.savedContext /\ t.overtaken = f.overtaken /\ t.state = state
  BY DEF SessionsTo
<1>2. \A d : Takes(w, s, v, f, d) => Takes(w, s, v, t, d)
  BY <1>1 DEF Takes
<1>3. Treats(w, s, v, t)
  BY <1>1, <1>2 DEF Treats, Likewise
<1>4. QED
  BY <1>1, <1>2, <1>3 DEF Waits, Says

(* Both steps after one that lets go.                                      *)
LEMMA EasesThenTreats ==
  ASSUME NEW n, NEW w, NEW v, NEW x, NEW p, NEW s, NEW t, Orderly(n, w), Moves(n, w, v, p),
         v.latest = w.latest, Eases(w, v, s, {}), Treats(v, s, x, t)
  PROVE  Treats(w, s, x, t) /\ \A d \in Contexts : Takes(v, s, x, t, d) => Takes(w, s, x, t, d)
<1>1. w.sequence \in Nat /\ v.sequence \in Nat /\ w.sequence <= v.sequence
  BY DEF Moves, Advances, Orderly, WritersTo
<1>2. \A d : Has(v, s, d) <=> Has(w, s, d)
  BY DEF Has
<1>3. ASSUME NEW d \in Contexts, Takes(v, s, x, t, d) PROVE Takes(w, s, x, t, d)
  <2>1. Eases(w, x, s, {d})
    BY <1>3, EasesTwice DEF Takes
  <2>2. x.latest[d] \in Nat /\ x.latest[d] > v.sequence
    <3>1. t.origin.rev = x.latest[d] /\ t.origin \in Origins
      BY <1>3 DEF Takes
    <3>2. QED
      BY <1>3, <3>1 DEF Takes, Origins
  <2>3. x.latest[d] > w.sequence
    BY <1>1, <2>2
  <2>4. QED
    BY <1>2, <1>3, <2>1, <2>3 DEF Takes
<1>4. Eases(v, x, s, {}) => Eases(w, x, s, {})
  BY EasesTwice
<1>5. QED
  BY <1>3, <1>4 DEF Treats

\* What an edit does.
EditsTo(w, r, s, text, u) ==
    LET e == Retyped(s, text)
        b == BlankOrigin(w, s)
    IN  /\ Treats(w, e, u.w, u.s) /\ Blanked(u.s)
        /\ text # 0 /\ r.enabled =>
             \/ Takes(w, e, u.w, u.s, Home(s))
             \/ u.s.origin = e.origin /\ Superseded(u.w, u.s)
        /\ text = 0 =>
             \/ u.s.origin = e.origin /\ Eases(w, u.w, e, {})
             \/ b \in Contexts /\ Takes(w, e, u.w, u.s, b)

LEMMA EditedTreats ==
  ASSUME NEW n \in Texts, NEW w, NEW r, NEW s, NEW p \in Pages, NEW text \in 0 .. n,
         Orderly(n, w), Sound(n, w, s, p), Traces(w, s, p), s.open, s.active, w.intake
  PROVE  EditsTo(w, r, s, text, Edited(w, r, s, p, text))
<1> DEFINE u == Edited(w, r, s, p, text)
           e == Retyped(s, text)
           v == Revoke(w, e)
           b == BlankOrigin(w, s)
           Rest == /\ text # 0 /\ r.enabled =>
                        \/ Takes(w, e, u.w, u.s, Home(s))
                        \/ u.s.origin = e.origin /\ Superseded(u.w, u.s)
                   /\ text = 0 =>
                        \/ u.s.origin = e.origin /\ Eases(w, u.w, e, {})
                        \/ b \in Contexts /\ Takes(w, e, u.w, u.s, b)
           Goal == Treats(w, e, u.w, u.s) /\ Blanked(u.s) /\ Rest
<1>1. /\ e.open /\ e.active = s.active /\ e.sql = text /\ e.deleted = FALSE /\ e.context = s.context
      /\ e.bound = (IF text = 0 THEN None ELSE Home(s)) /\ e.origin = s.origin
      /\ e \in SessionsTo(n) /\ (e.sql # 0 <=> e.bound # None) /\ Home(s) \in Contexts
  BY RetypedFields
<1>2. u = IF ~e.active \/ ~r.enabled THEN [w |-> v, s |-> [e EXCEPT !.state = "off"]]
          ELSE IF r.suspended THEN [RetainUnscheduled(v, r, e) EXCEPT !.s.state = "error"]
          ELSE IF text = 0 /\ b = None
          THEN [w |-> Release(v, e), s |-> [e EXCEPT !.capture = None, !.state = "empty"]]
          ELSE IF text = 0 THEN [ScheduleSession(w, r, e, p, b) EXCEPT !.s.state = "pending"]
          ELSE IF NeedsGuard(e) THEN [RetainUnscheduled(v, r, e) EXCEPT !.s.state = "context_required"]
          ELSE [ScheduleSession(w, r, e, p, e.context) EXCEPT !.s.state = "pending"]
  BY DEF Edited
<1> SUFFICES Goal
  BY DEF EditsTo, Goal, Rest, u, e, b
<1>4. s \in SessionsTo(n) /\ s.context \in Contexts
  BY DEF Sound, Coherent
<1>5. b \in Contexts \union {None}
  BY <1>4 DEF BlankOrigin, SessionsTo, CapturesTo, Holds
<1>6. e.capture = s.capture /\ (e.capture # None => e.capture.page = p) /\ e.active
  BY <1>1, <1>4 DEF Sound, Retyped, SessionsTo
<1> HIDE DEF e, b, u
<1>7. Traces(w, e, p)
  BY <1>1 DEF Traces
<1>8. Moves(n, w, v, p) /\ v.latest = w.latest /\ Orderly(n, v)
  BY RevokeMoves DEF Moves
<1>9. Eases(w, v, e, {})
  BY <1>1, <1>6, <1>7, RevokeEases DEF SessionsTo
<1>10. v.intake = w.intake
  BY <1>8 DEF Moves
<1>11. Traces(v, e, p)
  <2>1. Silent(w, v)
    BY <1>8, SilentMove
  <2>2. QED
    BY <1>7, <2>1 DEF Traces, Silent
<1> HIDE DEF v
<1>21. /\ Orderly(n, v) /\ e \in SessionsTo(n) /\ e.context \in Contexts
       /\ (e.sql # 0 <=> e.bound # None) /\ Traces(v, e, p)
  BY <1>1, <1>4, <1>8, <1>11
<1>12. CASE ~r.enabled
  <2> DEFINE f == [e EXCEPT !.state = "off"]
  <2>1. u.w = v /\ u.s = f
    BY <1>2, <1>12
  <2>2. Treats(w, e, v, e)
    BY <1>9 DEF Treats, Likewise
  <2>3. f.origin = e.origin /\ f.state = "off" /\ Treats(w, e, v, f)
    BY <1>1, <2>2, SayingTreats DEF Says
  <2>4. Blanked(f)
    BY <2>3 DEF Blanked
  <2>5. Rest
    BY <1>9, <1>12, <2>1, <2>3 DEF Rest
  <2>6. QED
    BY <2>1, <2>3, <2>4, <2>5 DEF Goal
<1>13. ASSUME NEW state, u = [RetainUnscheduled(v, r, e) EXCEPT !.s.state = state], state # "pending",
              r.enabled
       PROVE  Goal
  <2> DEFINE x == RetainUnscheduled(v, r, e)
  <2>1. PICK a, c : x = [w |-> a, s |-> c]
    BY ReturnsBoth
  <2>2. Retains(v, r, e, x)
    BY <1>21, RetainTreats
  <2>3. x.s \in SessionsTo(n)
    BY <1>21, RetainTracks
  <2> HIDE DEF x
  <2> DEFINE f == [x.s EXCEPT !.state = state]
  <2>12. f = [x.s EXCEPT !.state = state]
    OBVIOUS
  <2>4. u.w = x.w /\ u.s = f
    BY <1>13, <2>1, SayingAfter DEF x
  <2>5. /\ Treats(w, e, x.w, x.s)
        /\ \A d \in Contexts : Takes(v, e, x.w, x.s, d) => Takes(w, e, x.w, x.s, d)
    BY <1>8, <1>9, <2>2, EasesThenTreats DEF Retains
  <2> HIDE DEF f
  <2>13. Says(w, e, x.w, x.s, f, state)
    BY <2>3, <2>5, <2>12, SayingTreats
  <2>6. /\ Treats(w, e, x.w, f) /\ f.origin = x.s.origin /\ f.state = state
        /\ \A d \in Contexts : Takes(w, e, x.w, x.s, d) => Takes(w, e, x.w, f, d)
    BY <2>13 DEF Says
  <2>7. Blanked(f)
    BY <1>13, <2>6 DEF Blanked
  <2>8. ASSUME text # 0
        PROVE  Takes(w, e, x.w, f, Home(s)) \/ (f.origin = e.origin /\ Superseded(x.w, f))
    <3>1. CASE Superseded(v, e)
      <4>1. x.w = v /\ x.s = e
        BY <2>2, <3>1 DEF Retains
      <4>2. QED
        BY <2>6, <3>1, <4>1 DEF Superseded
    <3>2. CASE ~Superseded(v, e)
      <4>1. Takes(v, e, x.w, x.s, Home(e))
        BY <1>1, <1>6, <1>10, <1>13, <2>2, <2>8, <3>2 DEF Retains
      <4>2. Home(e) = Home(s)
        BY <1>1, <2>8 DEF Home
      <4>3. QED
        BY <1>1, <2>5, <2>6, <4>1, <4>2
    <3>3. QED
      BY <3>1, <3>2
  <2>9. ASSUME text = 0 PROVE f.origin = e.origin /\ Eases(w, x.w, e, {})
    <3>1. x.s = e
      BY <1>1, <2>2, <2>9 DEF Retains
    <3>2. f.origin = e.origin
      BY <2>6, <3>1
    <3>3. ASSUME NEW d \in Contexts PROVE ~Takes(w, e, x.w, f, d)
      <4>1. SUFFICES ASSUME Takes(w, e, x.w, f, d) PROVE FALSE
        OBVIOUS
      <4>2. e.origin # None /\ e.origin \in Origins /\ e.origin.rev = x.w.latest[d] /\ x.w.latest[d] > w.sequence
        BY <3>2, <4>1, NoneIsNone DEF Takes
      <4>3. e.origin.rev <= w.sequence
        BY <1>1, <4>2 DEF Sound, Coherent
      <4>4. QED
        BY <4>2, <4>3 DEF Origins, Orderly, WritersTo
    <3>4. QED
      BY <2>6, <3>2, <3>3 DEF Treats
  <2>10. Rest
    BY <2>4, <2>8, <2>9 DEF Rest
  <2>11. QED
    BY <2>4, <2>6, <2>7, <2>10 DEF Goal
<1>14. ASSUME NEW d \in Contexts, text # 0 => e.bound = d /\ d = Home(s), text = 0 => d = b,
              r.enabled, ~r.suspended,
              u = [ScheduleSession(w, r, e, p, d) EXCEPT !.s.state = "pending"]
       PROVE  Goal
  <2> DEFINE x == ScheduleSession(w, r, e, p, d)
  <2>1. PICK a, c : x = [w |-> a, s |-> c]
    BY ReturnsBoth
  <2>2. Likewise(e, x.s) /\ Takes(w, e, x.w, x.s, d) /\ Waits(x.s)
    BY <1>1, <1>7, <1>14, ScheduleTakes
  <2>3. x.s \in SessionsTo(n)
    BY <1>1, <1>7, <1>14, ScheduleTracks
  <2> HIDE DEF x
  <2> DEFINE f == [x.s EXCEPT !.state = "pending"]
  <2>4. u.w = x.w /\ u.s = f
    BY <1>14, <2>1, SayingAfter DEF x
  <2>5. Treats(w, e, x.w, x.s)
    BY <2>2 DEF Treats
  <2>10. f = [x.s EXCEPT !.state = "pending"]
    OBVIOUS
  <2> HIDE DEF f
  <2>11. Says(w, e, x.w, x.s, f, "pending")
    BY <2>3, <2>5, <2>10, SayingTreats
  <2>6. Treats(w, e, x.w, f) /\ Takes(w, e, x.w, f, d) /\ Waits(f)
    BY <1>14, <2>2, <2>11 DEF Says
  <2>7. Blanked(f)
    BY <2>6 DEF Blanked, Waits
  <2>8. Rest
    BY <1>14, <2>4, <2>6 DEF Rest
  <2>9. QED
    BY <2>4, <2>6, <2>7, <2>8 DEF Goal
<1>15. CASE r.enabled /\ r.suspended
  <2>1. u = [RetainUnscheduled(v, r, e) EXCEPT !.s.state = "error"]
    BY <1>2, <1>6, <1>15
  <2>2. QED
    BY <1>13, <1>15, <2>1
<1>16. CASE r.enabled /\ ~r.suspended /\ text = 0 /\ b = None
  <2> DEFINE x == Release(v, e)
             f == [e EXCEPT !.capture = None, !.state = "empty"]
  <2>1. u.w = x /\ u.s = f
    BY <1>2, <1>6, <1>16
  <2>2. Eases(v, x, e, {})
    BY <1>1, <1>8, ReleaseEases DEF SessionsTo
  <2> HIDE DEF x
  <2>3. Eases(w, x, e, {})
    BY <1>9, <2>2, EasesTwice
  <2>4. f.origin = e.origin /\ Likewise(e, f) /\ f.state = "empty"
    BY <1>1 DEF Likewise, SessionsTo
  <2> HIDE DEF f
  <2>5. Blanked(f) /\ Treats(w, e, x, f)
    BY <2>3, <2>4 DEF Blanked, Treats
  <2>6. Rest
    BY <1>16, <2>1, <2>3, <2>4 DEF Rest
  <2>7. QED
    BY <2>1, <2>5, <2>6 DEF Goal
<1>17. CASE r.enabled /\ ~r.suspended /\ text = 0 /\ b # None
  <2>1. u = [ScheduleSession(w, r, e, p, b) EXCEPT !.s.state = "pending"]
    BY <1>2, <1>6, <1>17
  <2>2. QED
    BY <1>5, <1>14, <1>17, <2>1
<1>18. CASE r.enabled /\ ~r.suspended /\ text # 0 /\ NeedsGuard(e)
  <2>1. u = [RetainUnscheduled(v, r, e) EXCEPT !.s.state = "context_required"]
    BY <1>2, <1>6, <1>18
  <2>2. QED
    BY <1>13, <1>18, <2>1
<1>19. CASE r.enabled /\ ~r.suspended /\ text # 0 /\ ~NeedsGuard(e)
  <2>1. e.bound = e.context /\ e.bound = Home(s)
    BY <1>1, <1>19 DEF NeedsGuard
  <2>2. u = [ScheduleSession(w, r, e, p, e.context) EXCEPT !.s.state = "pending"]
    BY <1>2, <1>6, <1>19
  <2>3. QED
    BY <1>1, <1>14, <1>19, <2>1, <2>2
<1>20. QED
  BY <1>12, <1>15, <1>16, <1>17, <1>18, <1>19

(* What the coordinator takes is of a new revision.                        *)
LEMMA TakesNew ==
  ASSUME NEW n, NEW w, NEW v, NEW s, NEW t, NEW d \in Contexts, Orderly(n, w), Takes(w, s, v, t, d),
         s.origin # None => s.origin.rev <= w.sequence
  PROVE  t.origin # s.origin
<1>1. SUFFICES ASSUME t.origin = s.origin PROVE FALSE
  OBVIOUS
<1>2. /\ t.origin \in Origins /\ t.origin.rev = v.latest[d] /\ v.latest[d] > w.sequence
      /\ w.sequence \in Nat
  BY DEF Takes, Orderly, WritersTo
<1>3. s.origin # None
  BY <1>1, <1>2, NoneIsNoValue
<1>4. s.origin.rev <= w.sequence
  BY <1>3
<1>5. QED
  BY <1>1, <1>2, <1>4 DEF Origins

\* A restored session that has become the live one: it is as it was, or its text
\* has been taken, the draft having stayed the session's, or it has no draft.
Adopts(w, s, v, t) ==
    \/ Likewise(s, t) /\ t.origin = s.origin /\ Eases(w, v, s, {}) /\ (s.sql # 0 => v = w)
    \/ /\ Likewise(s, t) /\ ~Superseded(w, s)
       /\ \E d \in Contexts : Takes(w, s, v, t, d) /\ (s.sql = 0 => Has(w, s, d))
    \/ /\ t.sql = s.sql /\ t.bound = s.bound /\ t.active = s.active
       /\ Superseded(w, s) /\ Superseded(v, t)
       /\ t.origin.draft = s.origin.draft /\ Eases(w, v, s, {})

LEMMA ClaimAdopts ==
  ASSUME NEW n \in Texts, NEW w, NEW r, NEW s0, NEW p \in Pages, Orderly(n, w), Sound(n, w, s0, p),
         Traces(w, s0, p), s0.open, w.intake, Blanked(s0), Away(s0)
  PROVE  LET u == Claim(w, r, s0, p) IN Adopts(w, s0, u.w, u.s) /\ Blanked(u.s)
<1> DEFINE u == Claim(w, r, s0, p)
           s == [s0 EXCEPT !.transferred = FALSE]
           c == IF s.sql = 0 /\ s.pending # None THEN s.pending ELSE Home(s)
           Goal == Adopts(w, s0, u.w, u.s) /\ Blanked(u.s)
<1>1. s0 \in SessionsTo(n) /\ s0.context \in Contexts /\ (s0.sql # 0 <=> s0.bound # None) /\ Coherent(w, s0)
  BY DEF Sound, Coherent
<1>2. /\ Likewise(s0, s) /\ s.origin = s0.origin /\ s \in SessionsTo(n) /\ s.context = s0.context
      /\ s.capture = s0.capture /\ s.pending = s0.pending /\ s.editor = s0.editor /\ s.state = s0.state
      /\ s.deleted = s0.deleted
  BY <1>1 DEF SessionsTo, Likewise
<1>3. u = IF ~r.enabled
          THEN [w |-> w, s |-> [s EXCEPT !.overtaken = @ \/ Superseded(w, s)]]
          ELSE IF ~w.intake \/ s.deleted THEN [w |-> w, s |-> s]
          ELSE IF Superseded(w, s)
          THEN IF s.sql = 0 THEN [w |-> w, s |-> s]
               ELSE [w |-> Retain(w, s.origin),
                     s |-> [s EXCEPT !.savedSql = 0, !.savedContext = None, !.failed = TRUE,
                                     !.origin.rev = Retain(w, s.origin).sequence,
                                     !.state = IF NeedsGuard(s)
                                               THEN "context_required" ELSE "error"]]
          ELSE IF s.state = "pending" /\ ~r.suspended /\ ~NeedsGuard(s)
          THEN ScheduleSession(w, r, s, p, c)
          ELSE RetainUnscheduled(w, r, s)
  BY DEF Claim
<1> SUFFICES Goal
  BY DEF u, Goal
<1> HIDE DEF s, u
<1>4. Blanked(s) /\ Away(s)
  BY <1>2 DEF Blanked, Away, Likewise
<1>5. Traces(w, s, p) /\ (s.sql # 0 <=> s.bound # None) /\ s.context \in Contexts
  BY <1>1, <1>2 DEF Traces, Likewise
<1>6. Coherent(w, s0) /\ (Superseded(w, s) <=> Superseded(w, s0)) /\ \A d : Has(w, s, d) <=> Has(w, s0, d)
  BY <1>1, <1>2 DEF Superseded, Has
<1>7. Eases(w, w, s0, {})
  BY EasesNothing
<1>8. CASE r.enabled /\ (s.deleted \/ (Superseded(w, s) /\ s.sql = 0))
  <2>1. u.w = w /\ u.s = s
    BY <1>3, <1>8
  <2>2. QED
    BY <1>2, <1>4, <1>7, <2>1 DEF Goal, Adopts
<1>9. CASE ~r.enabled
  <2> DEFINE o == (s.overtaken \/ Superseded(w, s))
             y == [s EXCEPT !.overtaken = o]
  <2>1. u.w = w /\ u.s = y
    BY <1>3, <1>9
  <2>2. /\ y.sql = s.sql /\ y.bound = s.bound /\ y.active = s.active /\ y.origin = s.origin
        /\ y.savedSql = s.savedSql /\ y.savedContext = s.savedContext /\ y.overtaken = o
        /\ y.capture = s.capture /\ y.editor = s.editor /\ y.pending = s.pending /\ y.state = s.state
    BY <1>2 DEF SessionsTo
  <2>3. ~Superseded(w, s) => o = s.overtaken
    BY <1>2, Zenon DEF SessionsTo
  <2> HIDE DEF y, o
  <2>4. Blanked(y)
    BY <1>4, <2>2 DEF Blanked
  <2>5. CASE Superseded(w, s)
    <3>1. Superseded(w, y) /\ Superseded(w, s0) /\ y.origin.draft = s0.origin.draft
      BY <1>2, <1>6, <2>2, <2>5 DEF Superseded
    <3>2. y.sql = s0.sql /\ y.bound = s0.bound /\ y.active = s0.active
      BY <1>2, <2>2 DEF Likewise
    <3>3. QED
      BY <1>7, <2>1, <2>4, <3>1, <3>2 DEF Goal, Adopts
  <2>6. CASE ~Superseded(w, s)
    <3>1. Likewise(s0, y) /\ y.origin = s0.origin
      BY <1>2, <2>2, <2>3, <2>6 DEF Likewise
    <3>2. QED
      BY <1>7, <2>1, <2>4, <3>1 DEF Goal, Adopts
  <2>7. QED
    BY <2>5, <2>6
<1>10. CASE r.enabled /\ w.intake /\ ~s.deleted /\ Superseded(w, s) /\ s.sql # 0
  <2> DEFINE t == Retain(w, s.origin)
             state == IF NeedsGuard(s) THEN "context_required" ELSE "error"
             y == [s EXCEPT !.savedSql = 0, !.savedContext = None, !.failed = TRUE,
                            !.origin.rev = t.sequence, !.state = state]
  <2>1. u.w = t /\ u.s = y
    BY <1>3, <1>10
  <2>2. s.origin \in Origins
    BY <1>2, <1>10 DEF SessionsTo, Superseded
  <2>3. Moves(n, w, t, p) /\ t.latest = w.latest /\ t.current = w.current /\ t.sequence = w.sequence + 1
    BY <2>2, RetainMoves
  <2>4. t.unconfirmed = w.unconfirmed
    BY DEF Retain, Orderly, WritersTo
  <2> HIDE DEF t
  <2>5. Eases(w, t, s0, {})
    BY <2>3, <2>4 DEF Eases
  <2>6. y.origin = [s.origin EXCEPT !.rev = t.sequence] /\ y.sql = s.sql /\ y.bound = s.bound
        /\ y.active = s.active
    BY <1>2 DEF SessionsTo
  <2>7. [s.origin EXCEPT !.rev = t.sequence].rev = t.sequence
        /\ [s.origin EXCEPT !.rev = t.sequence].draft = s.origin.draft
        /\ [s.origin EXCEPT !.rev = t.sequence] \in Origins /\ s.origin.draft \in Contexts
    BY <2>2, <2>3 DEF Origins, Moves, Orderly, WritersTo
  <2>8. y.state # "pending"
    BY <1>2 DEF SessionsTo
  <2> HIDE DEF y, state
  <2>9. y.origin # None
    BY <2>6, <2>7, NoneIsNone
  <2>10. w.latest[s.origin.draft] # t.sequence
    BY <2>3, <2>7 DEF Orderly, Coordinated, WritersTo
  <2>11. Superseded(t, y)
    BY <2>3, <2>6, <2>7, <2>9, <2>10 DEF Superseded
  <2>12. y.sql = s0.sql /\ y.bound = s0.bound /\ y.active = s0.active /\ y.origin.draft = s0.origin.draft
    BY <1>2, <2>6, <2>7 DEF Likewise
  <2>13. QED
    BY <1>6, <1>10, <2>1, <2>5, <2>8, <2>11, <2>12 DEF Goal, Adopts, Blanked
<1>11. ASSUME NEW d \in Contexts, Likewise(s, u.s), Takes(w, s, u.w, u.s, d), s.sql = 0 => Has(w, s, d),
              ~Superseded(w, s), Blanked(u.s)
       PROVE  Goal
  <2>1. Likewise(s0, u.s)
    BY <1>2, <1>11 DEF Likewise
  <2>2. Takes(w, s0, u.w, u.s, d)
    BY <1>2, <1>6, <1>11 DEF Takes, Eases, Likewise, Unsaved
  <2>3. s0.sql = 0 => Has(w, s0, d)
    BY <1>2, <1>6, <1>11 DEF Likewise
  <2>4. ~Superseded(w, s0)
    BY <1>6, <1>11
  <2>5. QED
    BY <1>11, <2>1, <2>2, <2>3, <2>4 DEF Goal, Adopts
<1>12. CASE r.enabled /\ w.intake /\ ~s.deleted /\ ~Superseded(w, s)
            /\ s.state = "pending" /\ ~r.suspended /\ ~NeedsGuard(s)
  <2>1. u = ScheduleSession(w, r, s, p, c)
    BY <1>3, <1>12
  <2>2. c \in Contexts /\ (s.sql # 0 => s.bound = c)
    BY <1>2, <1>5 DEF Home, SessionsTo
  <2>3. s.sql = 0 => Has(w, s, c)
    <3>1. SUFFICES ASSUME s.sql = 0 PROVE Has(w, s, c)
      OBVIOUS
    <3>2. s.pending # None
      BY <1>4, <1>12, <3>1 DEF Blanked, Away
    <3>3. c = s.pending /\ s.origin # None /\ s.origin.draft = c
      BY <1>4, <3>1, <3>2 DEF Away
    <3>4. QED
      BY <1>12, <3>3 DEF Superseded, Has
  <2> HIDE DEF c
  <2>4. Likewise(s, u.s) /\ Takes(w, s, u.w, u.s, c) /\ Waits(u.s)
    BY <1>2, <1>5, <1>12, <2>1, <2>2, ScheduleTakes
  <2>5. Blanked(u.s)
    BY <2>4 DEF Blanked, Waits
  <2>6. QED
    BY <1>11, <1>12, <2>2, <2>3, <2>4, <2>5
<1>13. CASE r.enabled /\ w.intake /\ ~s.deleted /\ ~Superseded(w, s)
            /\ ~(s.state = "pending" /\ ~r.suspended /\ ~NeedsGuard(s))
  <2>1. u = RetainUnscheduled(w, r, s)
    BY <1>3, <1>13
  <2>2. Retains(w, r, s, u)
    BY <1>2, <1>5, <2>1, RetainTreats
  <2>3. Treats(w, s, u.w, u.s) /\ (s.sql = 0 => u.s = s)
        /\ u.s.state = s.state /\ u.s.capture = s.capture /\ u.s.editor = s.editor /\ u.s.pending = s.pending
    BY <2>2 DEF Retains
  <2>4. Blanked(u.s)
    BY <1>4, <2>3 DEF Blanked, Treats, Likewise
  <2>8. s.origin # None => s.origin.rev <= w.sequence
    BY <1>1, <1>2 DEF Coherent
  <2>5. CASE u.s.origin = s.origin /\ Eases(w, u.w, s, {})
    <3>1. Likewise(s0, u.s) /\ u.s.origin = s0.origin
      BY <1>2, <2>3, <2>5 DEF Likewise, Treats
    <3>2. Eases(w, u.w, s0, {})
      BY <1>6, <2>5 DEF Eases
    <3>4. Home(s) \in Contexts
      BY <1>2, <1>5 DEF Home, SessionsTo
    <3>5. ~Takes(w, s, u.w, u.s, Home(s))
      BY <2>5, <2>8, <3>4, TakesNew
    <3>6. s0.sql # 0 => u.w = w
      BY <1>2, <2>2, <3>5 DEF Retains, Likewise
    <3>3. QED
      BY <2>4, <3>1, <3>2, <3>6 DEF Goal, Adopts
  <2>6. CASE \E d \in Contexts : Takes(w, s, u.w, u.s, d)
    <3>1. PICK d \in Contexts : Takes(w, s, u.w, u.s, d)
      BY <2>6
    <3>3. s.sql # 0
      BY <2>3, <2>8, <3>1, TakesNew
    <3>4. QED
      BY <1>11, <1>13, <2>3, <2>4, <3>1, <3>3 DEF Treats
  <2>7. QED
    BY <2>3, <2>5, <2>6 DEF Treats
<1>14. QED
  BY <1>8, <1>9, <1>10, <1>12, <1>13

\* The coordinator owes the same.
Stands(w, v) == v.latest = w.latest /\ v.current = w.current /\ v.unconfirmed = w.unconfirmed

\* A page has come to its end: at most it saves again what is its own.
Finishes(w, s, v, t) ==
    /\ Likewise(s, t)
    /\ \/ t.origin = s.origin /\ Stands(w, v)
       \/ \E d \in Contexts : Has(w, s, d) /\ Takes(w, s, v, t, d)

LEMMA FinishesLaunched ==
  ASSUME NEW w, NEW v, NEW s, NEW t, NEW ids
  PROVE  Finishes(w, s, v, t) <=> Finishes(w, s, Launch(v, ids), t)
<1> DEFINE k == Launch(v, ids)
<1>1. k.latest = v.latest /\ k.current = v.current /\ k.unconfirmed = v.unconfirmed
  BY DEF Launch
<1> HIDE DEF k
<1>2. \A D : Eases(w, v, s, D) <=> Eases(w, k, s, D)
  BY <1>1 DEF Eases
<1>3. \A d : Takes(w, s, v, t, d) <=> Takes(w, s, k, t, d)
  BY <1>1, <1>2 DEF Takes
<1>4. QED
  BY <1>1, <1>3 DEF Finishes, Stands, k

LEMMA PrepareFinalFinishes ==
  ASSUME NEW n \in Texts, NEW w, NEW r, NEW s, NEW p \in Pages, Orderly(n, w), Sound(n, w, s, p),
         Owns(w, s, p), s.open, Quiet(w, r), Blanked(s)
  PROVE  LET u == PrepareFinal(w, r, s, p) IN Finishes(w, s, u.w, u.s) /\ Blanked(u.s)
<1> DEFINE u == PrepareFinal(w, r, s, p)
           Not == \/ ~w.intake \/ r.suspended \/ s.deleted \/ ~Holds(w, s.capture)
                  \/ s.capture.editor # s.editor
           y == IF s.failed THEN ScheduleSession(w, r, s, p, s.capture.draft) ELSE [w |-> w, s |-> s]
           d == y.s.capture.draft
<1>1. u = IF Not THEN [w |-> w, s |-> s, jobs |-> << >>]
          ELSE [w |-> Launch(y.w, {d}), s |-> y.s,
                jobs |-> IF d \in y.w.timers THEN <<WriteJob(y.s.capture)>> ELSE << >>]
  BY DEF PrepareFinal
<1>2. Finishes(w, s, w, s)
  BY DEF Finishes, Likewise, Stands
<1>3. CASE Not
  <2>1. u.w = w /\ u.s = s
    BY <1>1, <1>3
  <2>2. QED
    BY <1>2, <2>1
<1>4. CASE ~Not
  <2>1. u.w = Launch(y.w, {d}) /\ u.s = y.s
    BY <1>1, <1>4
  <2>2. Holds(w, s.capture) /\ s \in SessionsTo(n) /\ s.capture # None /\ w.intake /\ ~r.suspended
    BY <1>4 DEF Sound, Holds
  <2> DEFINE c == s.capture.draft
  <2>3. s.capture \in CapturesTo(n) /\ s.capture.page = p /\ c \in Contexts /\ w.current[c] = s.capture
    BY <2>2 DEF Sound, SessionsTo, CapturesTo, Holds
  <2>4. s.sql = s.capture.sql /\ (s.capture.sql # 0 => s.bound = c)
        /\ s.origin = [draft |-> c, rev |-> s.capture.rev]
    BY <2>2, <2>3 DEF Owns
  <2>5. s.capture.rev = w.latest[c]
    BY <2>2, <2>3 DEF Orderly, Coordinated
  <2>6. s.origin # None
    BY <2>3, <2>4, NoneIsNoValue DEF Origins, CapturesTo
  <2>7. Has(w, s, c)
    BY <2>4, <2>5, <2>6 DEF Has
  <2>8. r.enabled
    BY <2>2, <2>3 DEF Quiet
  <2>9. Finishes(w, s, y.w, y.s) /\ Blanked(y.s)
    <3>1. CASE s.failed
      <4>1. y = ScheduleSession(w, r, s, p, c)
        BY <3>1
      <4> HIDE DEF y, c
      <4>2. Likewise(s, y.s) /\ Takes(w, s, y.w, y.s, c) /\ Waits(y.s)
        BY <2>2, <2>3, <2>4, <2>8, <4>1, OwnsTraces, ScheduleTakes
      <4>3. QED
        BY <2>3, <2>7, <4>2 DEF Finishes, Blanked, Waits
    <3>2. CASE ~s.failed
      BY <1>2, <3>2
    <3>3. QED
      BY <3>1, <3>2
  <2> HIDE DEF y, d
  <2>10. QED
    BY <2>1, <2>9, FinishesLaunched
<1>5. QED
  BY <1>3, <1>4

-----------------------------------------------------------------------------
(* What the operations owe, in terms of what was given.                    *)

\* Of the drafts outside D none gets a text, and one that the session has loses
\* it, or it is settled.
LetsGo(m, w, s, a, b, D) ==
    \A e \in Contexts : e \notin D =>
      b[e] \in {0, a[e]} /\ (Has(w, s, e) => b[e] = 0 \/ Settled(m, b, e))

LEMMA EasesAccounts ==
  ASSUME NEW m, NEW w, NEW v, NEW s, NEW a, NEW b, NEW D, NEW e \in Contexts, e \notin D,
         Accounted(w, m, a, e), Eases(w, v, s, D), LetsGo(m, w, s, a, b, D)
  PROVE  Accounted(v, m, b, e)
<1>1. SUFFICES ASSUME b[e] # 0
               PROVE  /\ v.current[e] # None => v.current[e].sql = b[e]
                      /\ v.unconfirmed[e] # 0 \/ Settled(m, b, e)
  BY DEF Accounted
<1>2. b[e] = a[e] /\ (Has(w, s, e) => Settled(m, b, e))
  BY <1>1 DEF LetsGo
<1>3. /\ v.current[e] \in {w.current[e], None}
      /\ v.unconfirmed[e] = w.unconfirmed[e] \/ Has(w, s, e)
  BY DEF Eases
<1>4. /\ w.current[e] # None => w.current[e].sql = a[e]
      /\ w.unconfirmed[e] # 0 \/ Settled(m, a, e)
  BY <1>1, <1>2 DEF Accounted
<1>5. Settled(m, a, e) => Settled(m, b, e)
  BY <1>2 DEF Settled
<1>6. QED
  BY <1>2, <1>3, <1>4, <1>5

\* What the step means for everybody else.
Tells(n, m, w, v, a, b) ==
    /\ b \in [Contexts -> 0 .. n] /\ Keeps(w, v, a, b)
    /\ \A e \in Contexts : Accounted(v, m, b, e)

LEMMA EasesTells ==
  ASSUME NEW n, NEW m, NEW w, NEW v, NEW s, NEW a, NEW b,
         \A e \in Contexts : Accounted(w, m, a, e), b \in [Contexts -> 0 .. n],
         Eases(w, v, s, {}), LetsGo(m, w, s, a, b, {})
  PROVE  Tells(n, m, w, v, a, b)
<1>1. \A e \in Contexts : Accounted(v, m, b, e)
  BY EasesAccounts
<1>2. Keeps(w, v, a, b)
  BY DEF LetsGo, Keeps
<1>3. QED
  BY <1>1, <1>2 DEF Tells

LEMMA TakesTells ==
  ASSUME NEW n, NEW m, NEW w, NEW v, NEW s, NEW t, NEW a, NEW b, NEW d \in Contexts, Orderly(n, w),
         \A e \in Contexts : Accounted(w, m, a, e), b \in [Contexts -> 0 .. n],
         Takes(w, s, v, t, d), LetsGo(m, w, s, a, b, {d}), b[d] \in {0, s.sql},
         b[d] # 0 /\ ~Unsaved(s, d) /\ (s.origin = None \/ Has(w, s, s.origin.draft)) => Settled(m, b, d)
  PROVE  Tells(n, m, w, v, a, b)
<1>1. \A e \in Contexts \ {d} : Accounted(v, m, b, e)
  BY EasesAccounts DEF Takes
<1>2. Accounted(v, m, b, d)
  BY DEF Takes, Accounted
<1>3. v.latest[d] # w.latest[d]
  <2>1. v.latest[d] \in Nat /\ v.latest[d] > w.sequence /\ w.latest[d] <= w.sequence
        /\ w.sequence \in Nat /\ w.latest[d] \in Nat
    BY DEF Takes, Orderly, Coordinated, WritersTo, Origins
  <2>2. QED
    BY <2>1
<1>4. Keeps(w, v, a, b)
  BY <1>3 DEF LetsGo, Keeps
<1>5. QED
  BY <1>1, <1>2, <1>4 DEF Tells


(* A session stays its draft's.                                            *)
LEMMA TakesMine ==
  ASSUME NEW w, NEW v, NEW s, NEW t, NEW b, NEW d \in Contexts, Likewise(s, t), Takes(w, s, v, t, d),
         b[d] \in {0, s.sql}, b[d] # 0 /\ Acked(s) => ~s.overtaken
  PROVE  Mine(v, b, t)
<1>1. SUFFICES ASSUME NEW e \in Contexts, Has(v, t, e), b[e] # 0
               PROVE  t.sql = b[e] /\ t.bound = e /\ (Acked(t) => ~t.overtaken)
  BY DEF Mine
<1>2. e = d
  BY <1>1 DEF Has, Takes
<1>3. s.sql # 0 /\ s.sql = b[d] /\ s.bound = d
  BY <1>1, <1>2 DEF Takes
<1>4. QED
  BY <1>1, <1>2, <1>3 DEF Likewise, Acked

LEMMA EasesMine ==
  ASSUME NEW w, NEW v, NEW s, NEW t, NEW a, NEW b, Likewise(s, t), t.origin = s.origin,
         Eases(w, v, s, {}), Mine(w, a, s), \A e \in Contexts : b[e] \in {0, a[e]}
  PROVE  Mine(v, b, t)
<1>1. SUFFICES ASSUME NEW e \in Contexts, Has(v, t, e), b[e] # 0
               PROVE  t.sql = b[e] /\ t.bound = e /\ (Acked(t) => ~t.overtaken)
  BY DEF Mine
<1>2. Has(w, s, e) /\ b[e] = a[e]
  BY <1>1 DEF Has, Eases
<1>3. QED
  BY <1>1, <1>2 DEF Mine, Likewise, Acked

(* A text that is its draft's, and that was acknowledged, is on disk.      *)
LEMMA AckedSettles ==
  ASSUME NEW n, NEW m, NEW w, NEW s, NEW a, NEW b, NEW d \in Contexts, Mine(w, a, s), Backed(m, w, s),
         Coherent(w, s), Has(w, s, d), a[d] # 0, b[d] = a[d], ~Unsaved(s, d)
  PROVE  Settled(m, b, d)
<1>1. s.sql = a[d] /\ s.sql # 0 /\ Acked(s) /\ ~s.overtaken /\ s.savedContext = d
  BY DEF Mine, Unsaved, Acked
<1>2. Kept(w, s)
  BY <1>1 DEF Kept, Has
<1>3. QED
  BY <1>1, <1>2 DEF Backed, Settled

-----------------------------------------------------------------------------
(* The live page's text changes, or is saved again.                        *)

LEMMA GivenTo ==
  ASSUME NEW n \in Texts, NEW a \in [Contexts -> 0 .. n], NEW c \in Contexts \union {None}, NEW j \in 0 .. n,
         NEW b, b = IF c = None THEN a ELSE [a EXCEPT ![c] = j]
  PROVE  /\ b \in [Contexts -> 0 .. n]
         /\ \A d \in Contexts : d # c => b[d] = a[d]
         /\ c # None => b[c] = j
<1>1. CASE c = None
  BY <1>1
<1>2. CASE c \in Contexts /\ c # None
  BY <1>2
<1>3. QED
  BY <1>1, <1>2

\* The draft whose text this text is to be.
Aim(w, s, text) == IF text # 0 THEN Home(s) ELSE BlankOrigin(w, s)

\* The text is given to the draft if the coordinator has accepted it, or else the
\* draft loses the text that it was given.
Gives(w, z, s, text, u, a, b) ==
    \E j \in {0, text} :
      /\ j # 0 => z.enabled /\ Accepted(u)
      /\ j # 0 /\ text = s.savedSql => text = s.sql /\ ~s.overtaken
      /\ b = IF Aim(w, s, text) = None THEN a ELSE [a EXCEPT ![Aim(w, s, text)] = j]

LEMMA EditTells ==
  ASSUME NEW n \in Texts, NEW m, NEW w, NEW z, NEW s, NEW p \in Pages, NEW text \in 0 .. n,
         Orderly(n, w), Sound(n, w, s, p), Traces(w, s, p), Newest(w, s), Backed(m, w, s),
         s.open, s.active, w.intake,
         NEW a \in [Contexts -> 0 .. n], \A d \in Contexts : Accounted(w, m, a, d), Mine(w, a, s),
         NEW u, u = Edited(w, z, s, p, text),
         NEW b, Gives(w, z, s, text, u, a, b)
  PROVE  Tells(n, m, w, u.w, a, b) /\ Minded(u.w, b, u.s)
<1> DEFINE e == Retyped(s, text)
           v == u.w
           t == u.s
           c == Aim(w, s, text)
<1>1. s \in SessionsTo(n) /\ Coherent(w, s)
  BY DEF Sound
<1>2. /\ e.active = s.active /\ e.sql = text /\ e.bound = (IF text = 0 THEN None ELSE Home(s))
      /\ e.origin = s.origin /\ Home(s) \in Contexts
  BY <1>1 DEF Retyped, SessionsTo, Home, Coherent
<1>3. e.savedSql = s.savedSql /\ e.savedContext = s.savedContext /\ e.overtaken = (s.overtaken /\ text = s.sql)
  BY <1>1 DEF Retyped, SessionsTo
<1>4. /\ Treats(w, e, v, t) /\ Blanked(t)
      /\ text # 0 /\ z.enabled => \/ Takes(w, e, v, t, Home(s))
                                  \/ t.origin = e.origin /\ Superseded(v, t)
      /\ text = 0 => \/ t.origin = e.origin /\ Eases(w, v, e, {})
                     \/ BlankOrigin(w, s) \in Contexts /\ Takes(w, e, v, t, BlankOrigin(w, s))
  <2>1. EditsTo(w, z, s, text, u)
    BY EditedTreats
  <2>2. QED
    BY <2>1 DEF EditsTo
<1>5. c \in Contexts \union {None}
  BY <1>1, <1>2 DEF Aim, BlankOrigin, SessionsTo, CapturesTo, Holds
<1> HIDE DEF e, v, t, c
<1>20. PICK j \in {0, text} :
         /\ j # 0 => z.enabled /\ Accepted(u)
         /\ j # 0 /\ text = s.savedSql => text = s.sql /\ ~s.overtaken
         /\ b = IF c = None THEN a ELSE [a EXCEPT ![c] = j]
  BY Zenon DEF Gives, c
<1>6. /\ b \in [Contexts -> 0 .. n]
      /\ \A d \in Contexts : d # c => b[d] = a[d]
      /\ c # None => b[c] = j
  <2>1. j \in 0 .. n
    BY DEF Texts
  <2>2. QED
    BY <1>5, <1>20, <2>1, GivenTo
<1>7. ASSUME NEW d \in Contexts, Has(w, e, d), a[d] # 0 PROVE d = c
  <2>1. s.sql = a[d] /\ s.bound = d
    BY <1>2, <1>7 DEF Mine, Has
  <2>2. s.bound # None
    BY <2>1, NoneIsNone
  <2>3. QED
    BY <2>1, <2>2 DEF c, Aim, Home, BlankOrigin
<1>8. s.origin # None => s.origin.rev <= w.sequence
  BY <1>1 DEF Coherent
<1>9. \A d \in Contexts : d # None
  BY NoneIsNone
<1>10. ASSUME Mine(v, b, t) PROVE Minded(v, b, t)
  BY <1>2, <1>4, <1>10 DEF Minded, Treats, Likewise
<1>12. CASE t.origin = e.origin /\ Eases(w, v, e, {})
  <2>1. ASSUME NEW d \in Contexts PROVE ~Takes(w, e, v, t, d)
    BY <1>2, <1>8, <1>12, TakesNew
  <2>2. c # None => b[c] = 0
    <3>1. SUFFICES ASSUME c # None, j # 0 PROVE FALSE
      BY <1>6
    <3>2. text # 0 /\ z.enabled /\ Accepted(u)
      BY <1>20, <3>1
    <3>3. Superseded(v, t)
      BY <1>2, <1>4, <2>1, <3>2
    <3>4. QED
      BY <3>2, <3>3 DEF Accepted, v, t
  <2>3. \A d \in Contexts : b[d] \in {0, a[d]} /\ (Has(w, e, d) => b[d] = 0)
    <3>1. SUFFICES ASSUME NEW d \in Contexts PROVE b[d] \in {0, a[d]} /\ (Has(w, e, d) => b[d] = 0)
      OBVIOUS
    <3>2. d = c => b[d] = 0
      BY <1>9, <2>2
    <3>3. d # c => b[d] = a[d] /\ (Has(w, e, d) => a[d] = 0)
      BY <1>6, <1>7
    <3>4. QED
      BY <3>2, <3>3
  <2>4. LetsGo(m, w, e, a, b, {}) /\ Mine(w, b, e)
    BY <2>3 DEF LetsGo, Mine
  <2>5. Tells(n, m, w, v, a, b)
    BY <1>6, <1>12, <2>4, EasesTells
  <2>6. Mine(v, b, t)
    BY <1>4, <1>12, <2>4, EasesMine DEF Treats
  <2>7. QED
    BY <1>10, <2>5, <2>6 DEF v, t
<1>13. CASE \E d \in Contexts : Takes(w, e, v, t, d)
  <2>1. PICK d \in Contexts : Takes(w, e, v, t, d)
    BY <1>13
  <2>2. t.origin # e.origin
    BY <1>2, <1>8, <2>1, TakesNew
  <2>3. d = c
    <3>1. CASE text # 0
      BY <1>2, <2>1, <3>1 DEF c, Aim, Takes
    <3>2. CASE text = 0
      <4>1. Takes(w, e, v, t, c) /\ c \in Contexts
        BY <1>4, <2>2, <3>2 DEF c, Aim
      <4>2. t.origin = [draft |-> c, rev |-> v.latest[c]] /\ t.origin = [draft |-> d, rev |-> v.latest[d]]
        BY <2>1, <4>1 DEF Takes
      <4>3. QED
        BY <4>2
    <3>3. QED
      BY <3>1, <3>2
  <2>4. b[d] = j /\ b[d] \in {0, e.sql}
    BY <1>2, <1>6, <1>9, <1>20, <2>3
  <2>5. LetsGo(m, w, e, a, b, {d})
    BY <1>6, <1>7, <2>3 DEF LetsGo
  <2>6. b[d] # 0 /\ e.savedSql = e.sql => text # 0 /\ text = s.sql /\ ~s.overtaken /\ Acked(s)
    BY <1>2, <1>3, <1>20, <2>4 DEF Acked
  <2>7. b[d] # 0 /\ ~Unsaved(e, d) => Settled(m, b, d)
    <3>1. SUFFICES ASSUME b[d] # 0, ~Unsaved(e, d) PROVE Settled(m, b, d)
      OBVIOUS
    <3>2. e.sql = e.savedSql /\ d = e.savedContext /\ b[d] = e.sql
      BY <2>4, <3>1 DEF Unsaved
    <3>3. text # 0 /\ text = s.sql /\ ~s.overtaken /\ Acked(s)
      BY <2>6, <3>1, <3>2
    <3>4. Kept(w, s) /\ s.savedContext = d /\ b[d] = s.sql
      BY <1>2, <1>3, <3>2, <3>3 DEF Newest, Kept
    <3>5. QED
      BY <3>4 DEF Backed, Settled
  <2>8. Tells(n, m, w, v, a, b)
    BY <1>6, <2>1, <2>4, <2>5, <2>7, TakesTells
  <2>9. Mine(v, b, t)
    <3>1. b[d] # 0 /\ Acked(e) => ~e.overtaken
      BY <1>3, <2>6 DEF Acked
    <3>2. QED
      BY <1>4, <2>1, <2>4, <3>1, TakesMine DEF Treats
  <2>10. QED
    BY <1>10, <2>8, <2>9 DEF v, t
<1>14. QED
  BY <1>4, <1>12, <1>13 DEF Treats

LEMMA TellsOwed ==
  ASSUME NEW n, NEW m, NEW w, NEW v, NEW r, NEW ss, NEW x, NEW a, NEW b, NEW p \in Pages, NEW t,
         InvOf(n, w, m, r, ss, x), OwedOf(n, w, m, a, ss, x), Moves(n, w, v, p),
         Tells(n, m, w, v, a, b), Minded(v, b, t)
  PROVE  OwedOf(n, v, m, b, [ss EXCEPT ![p] = t], x)
BY OwedPage DEF Tells

LEMMA EditOwed ==
  ASSUME NEW n \in Texts, NEW m, NEW w, NEW r, NEW z, NEW ss, NEW x, NEW p \in Pages, NEW text \in 0 .. n,
         InvOf(n, w, m, r, ss, x), w.intake, ss[p].open, ss[p].active, z \in Preferences,
         ~z.enabled => ~r.enabled,
         text = ss[p].sql \/ text = 0 \/ text # ss[p].savedSql,
         NEW a, OwedOf(n, w, m, a, ss, x),
         NEW u, u = Edited(w, z, ss[p], p, text),
         NEW b, Gives(w, z, ss[p], text, u, a, b)
  PROVE  OwedOf(n, u.w, m, b, [ss EXCEPT ![p] = u.s], x)
<1>1. /\ Orderly(n, w) /\ Sound(n, w, ss[p], p) /\ Traces(w, ss[p], p)
      /\ \A d \in Contexts : Accounted(w, m, a, d)
      /\ Mine(w, a, ss[p]) /\ a \in [Contexts -> 0 .. n]
  BY SoundPages, OwnsTraces DEF OwedOf, Told, Minded
<1>2. Newest(w, ss[p]) /\ Backed(m, w, ss[p])
  BY DEF InvOf, Tended
<1>3. Tells(n, m, w, u.w, a, b) /\ Minded(u.w, b, u.s)
  BY <1>1, <1>2, EditTells
<1>4. Moves(n, w, u.w, p)
  BY EditMoves
<1>5. QED
  BY <1>3, <1>4, TellsOwed

-----------------------------------------------------------------------------
(* A restored editor becomes the live one.                                 *)

\* What is wanted once the session s has become what the coordinator made of it.
Bringing(s, u, a, b) == b = IF Brings(s, u) THEN [a EXCEPT ![s.bound] = s.sql] ELSE a

LEMMA ClaimTells ==
  ASSUME NEW n \in Texts, NEW m, NEW w, NEW r, NEW s, NEW p \in Pages, Orderly(n, w), Sound(n, w, s, p),
         Traces(w, s, p), Backed(m, w, s), s.open, s.active, w.intake, Blanked(s), Away(s),
         NEW a \in [Contexts -> 0 .. n], \A d \in Contexts : Accounted(w, m, a, d), Mine(w, a, s),
         NEW u, u = Claim(w, r, s, p), NEW b, Bringing(s, u, a, b)
  PROVE  Tells(n, m, w, u.w, a, b) /\ Minded(u.w, b, u.s)
<1> DEFINE v == u.w
           t == u.s
<1>1. Adopts(w, s, v, t) /\ Blanked(t)
  BY ClaimAdopts
<1>2. s \in SessionsTo(n) /\ Coherent(w, s)
  BY DEF Sound
<1>3. s.origin # None => s.origin.rev <= w.sequence
  BY <1>2 DEF Coherent
<1> HIDE DEF v, t
<1>4. ASSUME Tells(n, m, w, v, a, b), Mine(v, b, t), t.active = s.active
      PROVE  Tells(n, m, w, u.w, a, b) /\ Minded(u.w, b, u.s)
  BY <1>1, <1>4 DEF Minded, v, t
<1>5. ~Brings(s, u) => b = a
  BY DEF Bringing
<1>6. ASSUME NEW d \in Contexts, Has(w, s, d), a[d] # 0 PROVE s.sql # 0 /\ s.sql = a[d] /\ s.bound = d
  BY <1>6 DEF Mine
<1>7. CASE Likewise(s, t) /\ t.origin = s.origin /\ Eases(w, v, s, {}) /\ (s.sql # 0 => v = w)
  <2>1. b = a
    BY <1>5, <1>7 DEF Brings, t
  <2>2. Mine(v, b, t)
    BY <1>7, <2>1, EasesMine
  <2>3. Tells(n, m, w, v, a, b)
    <3>1. CASE s.sql # 0
      BY <1>7, <2>1, <3>1 DEF Tells, Keeps
    <3>2. CASE s.sql = 0
      <4>1. LetsGo(m, w, s, a, b, {})
        BY <1>6, <2>1, <3>2 DEF LetsGo
      <4>2. QED
        BY <1>7, <2>1, <4>1, EasesTells
    <3>3. QED
      BY <3>1, <3>2
  <2>4. QED
    BY <1>4, <1>7, <2>2, <2>3 DEF Likewise
<1>8. CASE /\ Likewise(s, t) /\ ~Superseded(w, s)
           /\ \E d \in Contexts : Takes(w, s, v, t, d) /\ (s.sql = 0 => Has(w, s, d))
  <2>1. PICK d \in Contexts : Takes(w, s, v, t, d) /\ (s.sql = 0 => Has(w, s, d))
    BY <1>8
  <2>2. t.origin # s.origin /\ t.origin.draft = d
    <3>1. t.origin # s.origin
      BY <1>3, <2>1, TakesNew
    <3>2. QED
      BY <2>1, <3>1 DEF Takes
  <2>3. s.sql # 0 => s.bound = d
    BY <2>1 DEF Takes
  <2>4. Acked(s) => s.sql # 0 /\ s.origin # None /\ s.origin.draft = d /\ s.savedContext = d
    BY <1>2, <2>3 DEF Coherent, Acked
  <2>5. /\ b \in [Contexts -> 0 .. n] /\ \A e \in Contexts \ {d} : b[e] = a[e]
        /\ b[d] \in {0, s.sql}
        /\ b[d] # 0 /\ Acked(s) => b[d] = a[d] /\ Has(w, s, d)
    <3>1. CASE Brings(s, u)
      <4>1. s.sql # 0 /\ b = [a EXCEPT ![d] = s.sql] /\ (s.origin = None \/ s.origin.draft # d)
        BY <2>3, <3>1 DEF Brings, Bringing, Stranger
      <4>2. s.sql \in 0 .. n /\ ~Acked(s)
        BY <1>2, <2>4, <4>1 DEF SessionsTo
      <4>3. QED
        BY <4>1, <4>2
    <3>2. CASE ~Brings(s, u)
      <4>1. b = a
        BY <1>5, <3>2
      <4>2. s.sql # 0 => s.origin # None /\ s.origin.draft = d
        BY <2>2, <2>3, <3>2 DEF Brings, Stranger, t
      <4>3. Has(w, s, d)
        BY <1>8, <2>1, <4>2 DEF Superseded, Has
      <4>4. QED
        BY <1>6, <4>1, <4>3
    <3>3. QED
      BY <3>1, <3>2
  <2>6. LetsGo(m, w, s, a, b, {d})
    <3>1. SUFFICES ASSUME NEW e \in Contexts, e \notin {d}
                   PROVE  b[e] \in {0, a[e]} /\ (Has(w, s, e) => b[e] = 0 \/ Settled(m, b, e))
      BY DEF LetsGo
    <3>2. b[e] = a[e] /\ (Has(w, s, e) => a[e] = 0)
      BY <1>6, <2>3, <2>5, <3>1
    <3>3. QED
      BY <3>2
  <2>7. b[d] # 0 /\ ~Unsaved(s, d) => Settled(m, b, d)
    <3>1. SUFFICES ASSUME b[d] # 0, ~Unsaved(s, d) PROVE Settled(m, b, d)
      OBVIOUS
    <3>2. Acked(s)
      BY <2>5, <3>1 DEF Acked, Unsaved
    <3>3. Has(w, s, d) /\ b[d] = a[d]
      BY <2>5, <3>1, <3>2
    <3>4. QED
      BY <1>2, <3>1, <3>3, AckedSettles
  <2>8. Tells(n, m, w, v, a, b)
    BY <2>1, <2>5, <2>6, <2>7, TakesTells
  <2>9. b[d] # 0 /\ Acked(s) => ~s.overtaken
    BY <2>5 DEF Mine
  <2>10. Mine(v, b, t)
    BY <1>8, <2>1, <2>5, <2>9, TakesMine
  <2>11. QED
    BY <1>4, <1>8, <2>8, <2>10 DEF Likewise
<1>9. CASE /\ t.sql = s.sql /\ t.bound = s.bound /\ t.active = s.active
           /\ Superseded(w, s) /\ Superseded(v, t)
           /\ t.origin.draft = s.origin.draft /\ Eases(w, v, s, {})
  <2>1. b = a
    BY <1>5, <1>9 DEF Brings, Stranger, Superseded, t
  <2>2. (\A d : ~Has(w, s, d)) /\ (\A d : ~Has(v, t, d))
    BY <1>9 DEF Superseded, Has
  <2>3. LetsGo(m, w, s, a, b, {}) /\ Mine(v, b, t)
    BY <2>1, <2>2 DEF LetsGo, Mine
  <2>4. Tells(n, m, w, v, a, b)
    BY <1>9, <2>1, <2>3, EasesTells
  <2>5. QED
    BY <1>4, <1>9, <2>3, <2>4
<1>10. QED
  BY <1>1, <1>7, <1>8, <1>9 DEF Adopts

(* The same text, seen from a page.                                        *)
LEMMA SameText ==
  ASSUME NEW w, NEW a, NEW s, NEW t, Mine(w, a, s), t.sql = s.sql, t.bound = s.bound, t.origin = s.origin,
         t.savedSql = s.savedSql, t.overtaken = s.overtaken
  PROVE  Mine(w, a, t)
BY DEF Mine, Has, Acked

LEMMA ActivateOwed ==
  ASSUME NEW n \in Texts, NEW m, NEW w, NEW r, NEW ss, NEW x, NEW p \in Pages,
         InvOf(n, w, m, r, ss, x), ss[p].open, ~ss[p].active, w.intake,
         \A q \in Pages : ~(ss[q].open /\ ss[q].active), NEW u,
         NEW t, t = [ss[p] EXCEPT !.active = TRUE],
         u = Claim(w, r, t, p), NEW a, OwedOf(n, w, m, a, ss, x), NEW b, Bringing(t, u, a, b)
  PROVE  OwedOf(n, u.w, m, b, [ss EXCEPT ![p] = u.s], x)
<1> DEFINE s == ss[p]
<1>1. Orderly(n, w) /\ Tended(n, m, w, r, s, p) /\ Minded(w, a, s) /\ a \in [Contexts -> 0 .. n]
      /\ \A d \in Contexts : Accounted(w, m, a, d)
  BY DEF InvOf, OwedOf, Told
<1>2. Sound(n, w, s, p) /\ Owns(w, s, p) /\ Backed(m, w, s) /\ s.open /\ ~s.active
  BY <1>1 DEF Tended
<1>3. /\ t.open /\ t.active /\ t.sql = s.sql /\ t.bound = s.bound /\ t.origin = s.origin
      /\ t.savedSql = s.savedSql /\ t.savedContext = s.savedContext /\ t.overtaken = s.overtaken
      /\ t.capture = s.capture /\ t.editor = s.editor /\ t.pending = s.pending /\ t.state = s.state
      /\ t.deleted = s.deleted /\ t.context = s.context /\ t \in SessionsTo(n)
  BY <1>2 DEF Sound, SessionsTo
<1>4. Freed(w, p)
  BY <1>2 DEF Owns, Freed
<1> HIDE DEF s
<1>5. Sound(n, w, t, p) /\ Traces(w, t, p) /\ Backed(m, w, t)
  <2>1. Sound(n, w, t, p)
    BY <1>2, <1>3 DEF Sound, Coherent, Acked
  <2>2. Traces(w, t, p)
    BY <1>4, FreedOwns
  <2>3. Backed(m, w, t)
    BY <1>2, <1>3 DEF Acked, Backed, Kept
  <2>4. QED
    BY <2>1, <2>2, <2>3
<1>6. Mine(w, a, t) /\ Blanked(t) /\ Away(t)
  <2>1. Mine(w, a, s) /\ Blanked(s) /\ Away(s)
    BY <1>1, <1>2 DEF Minded
  <2>2. Mine(w, a, t)
    BY <1>3, <2>1 DEF Mine, Has, Acked
  <2>3. Blanked(t)
    BY <1>3, <2>1 DEF Blanked
  <2>4. Away(t)
    BY <1>3, <2>1 DEF Away
  <2>5. QED
    BY <2>2, <2>3, <2>4
<1>7. Tells(n, m, w, u.w, a, b) /\ Minded(u.w, b, u.s)
  BY <1>1, <1>3, <1>5, <1>6, ClaimTells
<1>8. Moves(n, w, u.w, p)
  <2>1. Orderly(n, w) /\ Sound(n, w, t, p) /\ Backed(m, w, t) /\ Freed(w, p) /\ t.open /\ t.active
    BY <1>1, <1>3, <1>4, <1>5
  <2>2. Moves(n, w, Claim(w, r, t, p).w, p)
    BY <2>1, ClaimServes
  <2>3. QED
    BY <2>2
<1>9. QED
  BY <1>7, <1>8, TellsOwed

\* The user has given up a text that was not saved.
GivingUp(s, a, b) == b = IF s.bound # None /\ Unsaved(s, s.bound) THEN [a EXCEPT ![s.bound] = 0] ELSE a

LEMMA GiveUpLetsGo ==
  ASSUME NEW n \in Texts, NEW m, NEW w, NEW s, NEW a \in [Contexts -> 0 .. n], NEW b, s \in SessionsTo(n),
         Coherent(w, s), Mine(w, a, s), Backed(m, w, s), GivingUp(s, a, b)
  PROVE  b \in [Contexts -> 0 .. n] /\ LetsGo(m, w, s, a, b, {})
<1>1. /\ b \in [Contexts -> 0 .. n] /\ \A e \in Contexts : b[e] \in {0, a[e]}
      /\ \A e \in Contexts : b[e] # 0 /\ s.bound = e => ~Unsaved(s, e)
  <2>1. CASE s.bound # None /\ Unsaved(s, s.bound)
    <3>1. s.bound \in Contexts /\ b = [a EXCEPT ![s.bound] = 0]
      BY <2>1 DEF SessionsTo, GivingUp
    <3>2. 0 \in 0 .. n
      BY DraftParameters DEF Texts
    <3>3. QED
      BY <2>1, <3>1, <3>2
  <2>2. CASE ~(s.bound # None /\ Unsaved(s, s.bound))
    <3>1. b = a
      BY <2>2 DEF GivingUp
    <3>2. \A e \in Contexts : e # None
      BY NoneIsNone
    <3>3. QED
      BY <2>2, <3>1, <3>2
  <2>3. QED
    BY <2>1, <2>2
<1>2. SUFFICES ASSUME NEW e \in Contexts, Has(w, s, e), b[e] # 0 PROVE Settled(m, b, e)
  BY <1>1 DEF LetsGo
<1>3. b[e] = a[e] /\ a[e] # 0 /\ s.bound = e
  BY <1>1, <1>2 DEF Mine
<1>4. ~Unsaved(s, e)
  BY <1>1, <1>2, <1>3
<1>5. QED
  BY <1>2, <1>3, <1>4, AckedSettles


(* What an installed session has of the snapshot.                          *)
LEMMA InstalledText ==
  ASSUME NEW n, NEW w, NEW a, NEW s, NEW x \in SessionsTo(n), Mine(w, a, x), Blanked(x), Away(x)
  PROVE  LET t == Installed(s, x) IN Mine(w, a, t) /\ Blanked(t) /\ Away(t)
<1> DEFINE t == Installed(s, x)
<1>1. /\ t.sql = x.sql /\ t.bound = x.bound /\ t.origin = x.origin /\ t.savedSql = x.savedSql
      /\ t.overtaken = x.overtaken /\ t.capture = x.capture /\ t.pending = x.pending
      /\ t.state \in {x.state, "context_required"}
  BY DEF Installed, SessionsTo
<1> HIDE DEF t
<1>2. Mine(w, a, t)
  BY <1>1, SameText
<1>3. Away(t)
  BY <1>1 DEF Away
<1>4. Blanked(t)
  BY <1>1 DEF Blanked, Away
<1>5. QED
  BY <1>2, <1>3, <1>4 DEF t

(* Both steps, each of which keeps the drafts' texts or loses them.        *)
LEMMA KeepsTwice ==
  ASSUME NEW n, NEW w, NEW g, NEW v, NEW a, NEW b, NEW c, g.latest = w.latest, Keeps(w, g, a, c),
         Keeps(g, v, c, b)
  PROVE  Keeps(w, v, a, b)
BY DEF Keeps

LEMMA InstallOwed ==
  ASSUME NEW n \in Texts, NEW m, NEW w, NEW ss, NEW x, NEW p \in Pages,
         InvOf(n, w, m, pref, ss, x), ss[p].open, ss[p].active, x # None, w.intake,
         NEW g, g = Release(Revoke(w, ss[p]), ss[p]), NEW t, t = Installed(ss[p], x.s),
         NEW u, u = Claim(g, pref, t, p), NEW a, OwedOf(n, w, m, a, ss, x),
         NEW c, GivingUp(ss[p], a, c), NEW b, Bringing(t, u, c, b)
  PROVE  OwedOf(n, u.w, m, b, [ss EXCEPT ![p] = u.s], None)
<1> DEFINE s == ss[p]
           o == x.s
           q == x.page
<1>1. Orderly(n, w) /\ Tended(n, m, w, pref, s, p) /\ Carried(n, m, w, x)
  BY DEF InvOf
<1>2. /\ \A d \in Contexts : Accounted(w, m, a, d)
      /\ a \in [Contexts -> 0 .. n] /\ Mine(w, a, s)
      /\ Mine(w, a, o) /\ Blanked(o) /\ Away(o)
  BY DEF OwedOf, Told, Minded
<1>3. Moves(n, w, g, p) /\ g.latest = w.latest /\ Freed(g, p)
  BY <1>1, GivenUp
<1>4. Eases(w, g, s, {})
  <2>1. /\ Sound(n, w, s, p) /\ Traces(w, s, p)
        /\ s.capture \in CapturesTo(n) \union {None} /\ s.origin \in Origins \union {None}
        /\ (s.capture # None => s.capture.page = p)
    BY <1>1, OwnsTraces DEF Tended, Sound, SessionsTo
  <2> DEFINE r == Revoke(w, s)
  <2>2. Eases(w, r, s, {})
    BY <1>1, <2>1, RevokeEases
  <2>3. Orderly(n, r)
    BY <1>1, RevokeMoves DEF Moves
  <2> HIDE DEF r
  <2>4. Eases(r, Release(r, s), s, {})
    BY <2>1, <2>3, ReleaseEases
  <2>5. Eases(w, Release(r, s), s, {})
    BY <2>2, <2>4, EasesTwice
  <2>6. QED
    BY <2>5 DEF r
<1>5. s \in SessionsTo(n) /\ Coherent(w, s) /\ Backed(m, w, s) /\ s.editor \in Nat /\ s.active \in BOOLEAN
  BY <1>1 DEF Tended, Sound, SessionsTo
<1>6. s.active /\ GivingUp(s, a, c) /\ t = Installed(s, o) /\ o \in SessionsTo(n)
  BY <1>1 DEF Carried
<1> HIDE DEF s, o, q
<1>7. c \in [Contexts -> 0 .. n] /\ LetsGo(m, w, s, a, c, {})
  BY <1>2, <1>5, <1>6, GiveUpLetsGo
<1>8. Tells(n, m, w, g, a, c)
  BY <1>2, <1>4, <1>7, EasesTells
<1>9. Orderly(n, g) /\ Carried(n, m, g, x) /\ g.intake
  BY <1>1, <1>3, CarriedMoves DEF Moves
<1>10. Sound(n, g, o, q) /\ Backed(m, g, o) /\ Honest(o) /\ o.capture = None /\ o.open /\ Sound(n, w, o, q)
  BY <1>1, <1>9 DEF Carried, o, q
<1>11. Mine(g, c, o)
  BY <1>1, <1>2, <1>3, <1>8, <1>10, MineLater DEF Tells
<1>12. Mine(g, c, t) /\ Blanked(t) /\ Away(t)
  BY <1>2, <1>6, <1>11, InstalledText
<1>13. Sound(n, g, t, p) /\ Backed(m, g, t) /\ t.open /\ t.active
  <2> DEFINE y == Installed(s, o)
  <2>1. Sound(n, g, y, p) /\ Backed(m, g, y) /\ y.open /\ y.active = s.active
    <3> HIDE DEF y
    <3>1. QED
      BY <1>5, <1>10, InstalledIsSound DEF y
  <2>2. t = y
    BY <1>6
  <2> HIDE DEF y
  <2>3. QED
    BY <1>6, <2>1, <2>2
<1>14. Traces(g, t, p)
  BY <1>3, FreedOwns
<1>15. \A d \in Contexts : Accounted(g, m, c, d)
  BY <1>8 DEF Tells
<1>16. Tells(n, m, g, u.w, c, b) /\ Minded(u.w, b, u.s)
  BY <1>7, <1>9, <1>12, <1>13, <1>14, <1>15, ClaimTells
<1>17. Moves(n, g, u.w, p)
  <2>1. Moves(n, g, Claim(g, pref, t, p).w, p)
    BY <1>3, <1>9, <1>13, ClaimServes
  <2>2. QED
    BY <2>1
<1>18. Moves(n, w, u.w, p)
  BY <1>1, <1>3, <1>17, AdvanceTwice
<1>19. Keeps(w, u.w, a, b)
  BY <1>3, <1>8, <1>16, KeepsTwice DEF Tells
<1>20. b \in [Contexts -> 0 .. n] /\ \A d \in Contexts : Accounted(u.w, m, b, d)
  BY <1>16 DEF Tells
<1>21. QED
  BY <1>16, <1>18, <1>19, <1>20, OwedPage

-----------------------------------------------------------------------------
(* The live page shows the stored draft of its context.                    *)

\* The session s now shows this stored text.
Shown(s, y, d, j, rev) ==
    /\ y.sql = j /\ y.bound = d /\ y.active = s.active /\ y.state = "saved" /\ y.overtaken = FALSE
    /\ y.origin = [draft |-> d, rev |-> rev]

LEMMA RecoveredText ==
  ASSUME NEW n, NEW s \in SessionsTo(n), NEW d, NEW j, NEW rev
  PROVE  Shown(s, Recovered(s, d, j, rev), d, j, rev)
<1> DEFINE o == [draft |-> d, rev |-> rev]
           i == s.editor + 1
           y == [s EXCEPT !.pending = None, !.capture = None, !.editor = i, !.origin = o,
                          !.failed = FALSE, !.overtaken = FALSE, !.sql = j, !.bound = d,
                          !.savedSql = j, !.savedContext = d, !.deleted = FALSE, !.state = "saved"]
<1>1. Recovered(s, d, j, rev) = y
  BY DEF Recovered
<1> HIDE DEF o, i
<1>2. /\ y.sql = j /\ y.bound = d /\ y.active = s.active /\ y.state = "saved" /\ y.overtaken = FALSE
      /\ y.origin = o
  BY DEF SessionsTo
<1> HIDE DEF y
<1>3. Shown(s, y, d, j, rev)
  BY <1>2 DEF Shown, o
<1>4. QED
  BY <1>1, <1>3

LEMMA RecoverOwed ==
  ASSUME NEW n \in Texts, NEW m, NEW w, NEW r, NEW ss, NEW x, NEW p \in Pages, NEW g, NEW t, NEW y, NEW s, NEW d,
         InvOf(n, w, m, r, ss, x), s = ss[p], s.open, s.active, DOMAIN m.queue = {},
         d = s.context, m.disk[d] # 0, g = Release(w, s), t = Renewed(g, d),
         y = Recovered(s, d, m.disk[d], t.sequence), NEW a, OwedOf(n, w, m, a, ss, x),
         NEW c, GivingUp(s, a, c), NEW b, b = [c EXCEPT ![d] = m.disk[d]]
  PROVE  OwedOf(n, t, m, b, [ss EXCEPT ![p] = y], x)
<1>1. Orderly(n, w) /\ Tended(n, m, w, r, s, p) /\ s \in SessionsTo(n)
  BY DEF InvOf
<1>2. Sound(n, w, s, p) /\ Traces(w, s, p) /\ Backed(m, w, s) /\ Coherent(w, s)
  BY <1>1, OwnsTraces DEF Tended, Sound
<1>3. d \in Contexts /\ s.origin \in Origins \union {None}
  BY <1>1, <1>2 DEF Sound, Coherent, SessionsTo
<1>4. /\ \A e \in Contexts : Accounted(w, m, a, e)
      /\ a \in [Contexts -> 0 .. n] /\ Mine(w, a, s)
  BY DEF OwedOf, Told, Minded
<1>5. Moves(n, w, g, p) /\ g.latest = w.latest /\ Orderly(n, g)
  BY <1>1, <1>2, <1>3, ReleaseMoves DEF Moves
<1>6. t.latest[d] = g.sequence + 1 /\ t.current[d] = None /\ Moves(n, g, t, p) /\ t.sequence = g.sequence + 1
  <2>1. Renews(n, g, t, d, p)
    BY <1>3, <1>5, RenewedMoves
  <2>2. QED
    BY <2>1 DEF Renews
<1>7. Moves(n, w, t, p)
  BY <1>1, <1>5, <1>6, AdvanceTwice, SMTT(30)
<1>8. Eases(w, t, s, {d})
  <2>1. Eases(w, g, s, {})
    BY <1>1, <1>3, ReleaseEases
  <2>2. Eases(g, t, s, {d})
    BY <1>3, <1>5, TrackEases DEF Renewed
  <2>3. QED
    BY <2>1, <2>2, EasesTwice
<1>9. c \in [Contexts -> 0 .. n] /\ LetsGo(m, w, s, a, c, {})
  BY <1>1, <1>2, <1>4, GiveUpLetsGo
<1> DEFINE j == m.disk[d]
<1>10. j \in 0 .. n /\ j # 0
  BY <1>3 DEF InvOf, Stored
<1>11. y = Recovered(s, d, j, t.sequence) /\ b = [c EXCEPT ![d] = j] /\ m.disk[d] = j
  OBVIOUS
<1> HIDE DEF j
<1>12. b \in [Contexts -> 0 .. n] /\ b[d] = j /\ \A e \in Contexts : e # d => b[e] = c[e]
  BY <1>3, <1>9, <1>10, <1>11
<1>13. y.sql = j /\ y.bound = d /\ y.active = s.active /\ y.state = "saved" /\ y.overtaken = FALSE
       /\ y.origin = [draft |-> d, rev |-> t.sequence]
  <2>1. Shown(s, Recovered(s, d, j, t.sequence), d, j, t.sequence)
    BY <1>1, RecoveredText
  <2>2. Shown(s, y, d, j, t.sequence)
    BY <1>11, <2>1
  <2>3. QED
    BY <2>2 DEF Shown
<1>14. Minded(t, b, y)
  <2>1. Mine(t, b, y)
    BY <1>12, <1>13 DEF Mine, Has
  <2>2. Blanked(y)
    BY <1>13 DEF Blanked
  <2>3. y.active
    BY <1>13
  <2>4. QED
    BY <2>1, <2>2, <2>3 DEF Minded
<1>15. LetsGo(m, w, s, a, b, {d})
  <2>1. SUFFICES ASSUME NEW e \in Contexts, e \notin {d}
                 PROVE  b[e] \in {0, a[e]} /\ (Has(w, s, e) => b[e] = 0 \/ Settled(m, b, e))
    BY DEF LetsGo
  <2>2. b[e] = c[e]
    BY <1>12, <2>1
  <2>3. c[e] \in {0, a[e]} /\ (Has(w, s, e) => c[e] = 0 \/ Settled(m, c, e))
    BY <1>9 DEF LetsGo
  <2>4. QED
    BY <2>2, <2>3 DEF Settled
<1>16. \A e \in Contexts : Accounted(t, m, b, e)
  <2>1. SUFFICES ASSUME NEW e \in Contexts PROVE Accounted(t, m, b, e)
    OBVIOUS
  <2>2. CASE e = d
    BY <1>6, <1>11, <1>12, <2>2 DEF Accounted, Settled
  <2>3. CASE e # d
    <3>1. e \notin {d}
      BY <2>3
    <3>2. QED
      BY <1>4, <1>8, <1>15, <3>1, EasesAccounts
  <2>4. QED
    BY <2>2, <2>3
<1>17. Keeps(w, t, a, b)
  <2>1. w.latest[d] # t.latest[d]
    <3>1. w.latest[d] \in Nat /\ w.sequence \in Nat /\ g.sequence \in Nat
          /\ w.latest[d] <= w.sequence /\ w.sequence <= g.sequence
      BY <1>1, <1>3, <1>5 DEF Orderly, WritersTo, Coordinated, Moves, Advances
    <3>2. QED
      BY <1>6, <3>1
  <2>2. QED
    BY <1>15, <2>1 DEF Keeps, LetsGo
<1>18. Tells(n, m, w, t, a, b)
  BY <1>12, <1>16, <1>17 DEF Tells
<1>19. QED
  BY <1>7, <1>14, <1>18, TellsOwed

-----------------------------------------------------------------------------
(* What changes neither the revisions nor what is owed.                    *)

LEMMA StandsOwed ==
  ASSUME NEW n, NEW m, NEW w, NEW v, NEW ss, NEW x, NEW a, OwedOf(n, w, m, a, ss, x), Stands(w, v)
  PROVE  OwedOf(n, v, m, a, ss, x)
<1>1. \A d \in Contexts : Told(v, m, a, d)
  BY DEF OwedOf, Told, Accounted, InLine, Answered, Newly, Agrees, Stands
<1>2. \A s : Mine(w, a, s) => Mine(v, a, s)
  BY DEF Mine, Has, Stands
<1>3. QED
  BY <1>1, <1>2 DEF OwedOf, Minded

(* The writes that a page or a timer starts are put in line.               *)
LEMMA StartedJob ==
  ASSUME NEW n, NEW m, NEW k, NEW w, NEW ids, Orderly(n, w), ids \subseteq w.timers,
         Longer(n, w, ids, m, k), NEW d \in Contexts, NEW i \in DOMAIN k.queue, i \notin DOMAIN m.queue
  PROVE  /\ k.queue[i].op = "write"
         /\ d \in k.queue[i].ids \/ k.queue[i].capture.draft = d =>
              /\ d \in w.timers /\ w.current[d] # None /\ w.current[d].draft = d
              /\ k.queue[i] = WriteJob(w.current[d]) /\ k.queue[i].capture = w.current[d]
<1>1. PICK e \in ids : k.queue[i] = WriteJob(w.current[e])
  BY DEF Longer
<1>2. e \in w.timers /\ e \in Contexts
  BY <1>1 DEF Orderly, WritersTo
<1>3. w.current[e] # None /\ w.current[e].draft = e
  BY <1>2 DEF Orderly, Coordinated
<1>4. /\ k.queue[i].op = "write" /\ k.queue[i].capture = w.current[e]
      /\ k.queue[i].ids = {w.current[e].draft}
  BY <1>1 DEF WriteJob
<1>5. QED
  BY <1>1, <1>2, <1>3, <1>4

LEMMA WritesTold ==
  ASSUME NEW n, NEW m, NEW k, NEW w, NEW ids, NEW a, Orderly(n, w), Stored(n, m), Lined(w, m),
         Awaited(w, m), ids \subseteq w.timers, Longer(n, w, ids, m, k), NEW d \in Contexts, Told(w, m, a, d)
  PROVE  Told(w, k, a, d)
<1>1. /\ k.disk = m.disk /\ k.entered = m.entered /\ k.results = m.results
      /\ \A i \in DOMAIN m.queue : i \in DOMAIN k.queue /\ k.queue[i] = m.queue[i]
      /\ \A i, j \in DOMAIN k.queue :
           i \notin DOMAIN m.queue /\ j \notin DOMAIN m.queue /\ k.queue[i] = k.queue[j] => i = j
      /\ \A i \in DOMAIN k.queue : i \notin DOMAIN m.queue => \A j \in DOMAIN m.queue : j < i
      /\ \A i \in DOMAIN k.queue : i \in Nat
  BY DEF Longer
<1>2. \A i \in DOMAIN k.queue : i \notin DOMAIN m.queue =>
        /\ k.queue[i].op = "write"
        /\ d \in k.queue[i].ids \/ k.queue[i].capture.draft = d =>
             /\ d \in w.timers /\ w.current[d] # None /\ w.current[d].draft = d
             /\ k.queue[i] = WriteJob(w.current[d]) /\ k.queue[i].capture = w.current[d]
  BY StartedJob
<1>3. m.entered => 1 \in DOMAIN m.queue
  BY DEF Stored
<1>4. Accounted(w, k, a, d)
  <2>1. SUFFICES ASSUME Settled(m, a, d) PROVE Settled(k, a, d)
    BY DEF Told, Accounted
  <2>2. QED
    BY <1>1, <1>2, <1>3, <2>1 DEF Settled
\* A write that was known before is not one that starts.
<1>5. ASSUME NEW cap, Agrees(w, a, d, cap), \A e \in w.timers : cap # w.current[e],
             NEW j \in DOMAIN k.queue, j \notin DOMAIN m.queue, d \in k.queue[j].ids
      PROVE  FALSE
  BY <1>2, <1>5 DEF Agrees
<1>6. InLine(w, k, a, d)
  <2>1. SUFFICES ASSUME NEW i \in DOMAIN k.queue, k.queue[i].op = "write", Newly(w, d, k.queue[i].capture)
                 PROVE  /\ Agrees(w, a, d, k.queue[i].capture)
                        /\ \A j \in DOMAIN k.queue : i < j => d \notin k.queue[j].ids
    BY DEF InLine
  <2>2. CASE i \in DOMAIN m.queue
    <3>1. k.queue[i] = m.queue[i]
      BY <1>1, <2>2
    <3>2. /\ Agrees(w, a, d, k.queue[i].capture)
          /\ \A j \in DOMAIN m.queue : i < j => d \notin m.queue[j].ids
      BY <2>1, <2>2, <3>1 DEF Told, InLine
    <3>3. \A e \in w.timers : k.queue[i].capture # w.current[e]
      BY <2>1, <2>2, <3>1 DEF Lined
    <3>4. QED
      BY <1>1, <1>5, <3>2, <3>3
  <2>3. CASE i \notin DOMAIN m.queue
    <3>1. k.queue[i] = WriteJob(w.current[d]) /\ k.queue[i].capture = w.current[d] /\ w.current[d] # None
      BY <1>2, <2>1, <2>3 DEF Newly
    <3>2. Agrees(w, a, d, k.queue[i].capture)
      BY <3>1 DEF Told, Accounted, Agrees
    <3>3. ASSUME NEW j \in DOMAIN k.queue, i < j, d \in k.queue[j].ids PROVE FALSE
      <4>1. i \in Nat /\ j \in Nat
        BY <1>1
      <4>2. j \notin DOMAIN m.queue
        BY <1>1, <2>3, <3>3, <4>1
      <4>3. k.queue[j] = k.queue[i]
        BY <1>2, <3>1, <3>3, <4>2
      <4>4. i = j
        BY <1>1, <2>3, <4>2, <4>3
      <4>5. QED
        BY <3>3, <4>1, <4>4
    <3>4. QED
      BY <3>2, <3>3
  <2>4. QED
    BY <2>2, <2>3
<1>7. Answered(w, k, a, d)
  <2>1. SUFFICES ASSUME NEW i \in DOMAIN m.results, m.results[i].job.op = "write",
                        Newly(w, d, m.results[i].job.capture)
                 PROVE  LET cap == m.results[i].job.capture
                        IN  /\ Agrees(w, a, d, cap)
                            /\ \A j \in DOMAIN k.queue : d \notin k.queue[j].ids
                            /\ m.results[i].code = "ok" => m.disk[d] = cap.sql
    BY <1>1 DEF Answered
  <2> DEFINE cap == m.results[i].job.capture
  <2>2. /\ Agrees(w, a, d, cap)
        /\ \A j \in DOMAIN m.queue : d \notin m.queue[j].ids
        /\ m.results[i].code = "ok" => m.disk[d] = cap.sql
    BY <2>1 DEF Told, Answered
  <2>3. \A e \in w.timers : cap # w.current[e]
    BY <2>1 DEF Awaited
  <2> HIDE DEF cap
  <2>4. \A j \in DOMAIN k.queue : d \notin k.queue[j].ids
    BY <1>1, <1>5, <2>2, <2>3
  <2>5. QED
    BY <2>2, <2>4 DEF cap
<1>8. QED
  BY <1>4, <1>6, <1>7 DEF Told

LEMMA WritesOwed ==
  ASSUME NEW n, NEW m, NEW k, NEW w, NEW r, NEW ss, NEW x, NEW a, NEW ids, NEW jobs,
         InvOf(n, w, m, r, ss, x), OwedOf(n, w, m, a, ss, x), Starts(w, ids, jobs),
         k.disk = m.disk, k.entered = m.entered, k.results = m.results,
         Follows(JobsTo(n), m.queue, jobs, k.queue)
  PROVE  OwedOf(n, Launch(w, ids), k, a, ss, x)
<1>1. Orderly(n, w) /\ Stored(n, m) /\ Lined(w, m) /\ Awaited(w, m)
  BY DEF InvOf
<1>2. Longer(n, w, ids, m, k) /\ ids \subseteq w.timers
  BY WritesLonger DEF Starts
<1>3. \A d \in Contexts : Told(w, k, a, d)
  BY <1>1, <1>2, WritesTold DEF OwedOf
<1>4. OwedOf(n, w, k, a, ss, x)
  BY <1>3 DEF OwedOf
<1>5. Stands(w, Launch(w, ids))
  BY <1>1 DEF Launch, Stands, Orderly, WritersTo
<1>6. QED
  BY <1>4, <1>5, StandsOwed

-----------------------------------------------------------------------------
(* A page comes to its end.                                                *)

LEMMA FinishTells ==
  ASSUME NEW n, NEW m, NEW w, NEW v, NEW s, NEW t, NEW a \in [Contexts -> 0 .. n], Orderly(n, w),
         Coherent(w, s), Backed(m, w, s), \A d \in Contexts : Accounted(w, m, a, d), Mine(w, a, s),
         Finishes(w, s, v, t)
  PROVE  Tells(n, m, w, v, a, a) /\ Mine(v, a, t)
<1>1. CASE Likewise(s, t) /\ t.origin = s.origin /\ Stands(w, v)
  <2>1. \A d \in Contexts : Accounted(v, m, a, d)
    BY <1>1 DEF Accounted, Stands
  <2>2. Keeps(w, v, a, a)
    BY DEF Keeps
  <2>3. Mine(v, a, t)
    BY <1>1 DEF Mine, Has, Acked, Likewise, Stands
  <2>4. QED
    BY <2>1, <2>2, <2>3 DEF Tells
<1>2. ASSUME NEW d \in Contexts, Likewise(s, t), Has(w, s, d), Takes(w, s, v, t, d)
      PROVE  Tells(n, m, w, v, a, a) /\ Mine(v, a, t)
  <2>1. a[d] # 0 => s.sql = a[d] /\ (Acked(s) => ~s.overtaken)
    BY <1>2 DEF Mine
  <2>2. LetsGo(m, w, s, a, a, {d})
    BY <1>2 DEF LetsGo, Has
  <2>3. a[d] # 0 /\ ~Unsaved(s, d) => Settled(m, a, d)
    BY <1>2, AckedSettles
  <2>4. a[d] \in {0, s.sql}
    BY <2>1
  <2>5. Tells(n, m, w, v, a, a)
    BY <1>2, <2>2, <2>3, <2>4, TakesTells
  <2>6. Mine(v, a, t)
    BY <1>2, <2>1, <2>4, TakesMine
  <2>7. QED
    BY <2>5, <2>6
<1>3. QED
  BY <1>1, <1>2 DEF Finishes

\* The page is gone, or it is live still and has the same text.
Closes(s, t) == t.open => t.active /\ Blanked(t) /\ \A w, a : Mine(w, a, s) => Mine(w, a, t)

LEMMA EndedOwed ==
  ASSUME NEW n, NEW m, NEW k, NEW w, NEW r, NEW ss, NEW x, NEW p \in Pages, NEW u, NEW t,
         InvOf(n, w, m, r, ss, x), Ends(n, m, w, r, ss[p], p, u),
         \A v : Tended(n, m, v, r, u.s, p) => Tended(n, m, v, r, t, p),
         t.open /\ t.active => u.s.open /\ u.s.active, ss[p].open,
         k.disk = m.disk, k.entered = m.entered, k.results = m.results,
         Chained(m.queue, u.jobs, k.queue),
         NEW a, OwedOf(n, w, m, a, ss, x), Finishes(w, ss[p], u.w, u.s), Closes(u.s, t)
  PROVE  OwedOf(n, u.w, k, a, [ss EXCEPT ![p] = t], x)
<1>1. PICK v, ids :
         /\ Moves(n, w, v, p) /\ Tended(n, m, v, r, u.s, p) /\ Quiet(v, r)
         /\ ss[p].active \/ v.latest = w.latest
         /\ u.w = Launch(v, ids) /\ Starts(v, ids, u.jobs)
  BY DEF Ends
<1>2. /\ u.jobs \in Seq(JobsTo(n)) /\ u.s.open = ss[p].open /\ u.s.active = ss[p].active
  BY DEF Ends
<1>3. r \in Preferences /\ Requested(m, r) /\ m.queue \in Seq(JobsTo(n))
  BY DEF InvOf, Stored
<1>4. \A q \in Pages \ {p} : ss[q].open /\ ss[q].active => ~ss[p].active
  BY DEF InvOf, OneLive
<1>5. Tended(n, m, v, r, t, p)
  BY <1>1
<1>6. \A q \in Pages \ {p} : ss[q].open /\ ss[q].active =>
         v.latest = w.latest /\ (r.enabled => r.enabled) /\ ~(t.open /\ t.active)
  BY <1>1, <1>2, <1>4
<1>7. InvOf(n, v, m, r, [ss EXCEPT ![p] = t], x)
  BY <1>1, <1>3, <1>5, <1>6, PageMoves
<1>8. Follows(JobsTo(n), m.queue, u.jobs, k.queue)
  BY <1>2, <1>3 DEF Chained
<1>9. OwedOf(n, v, m, a, [ss EXCEPT ![p] = t], x)
  <2>1. Finishes(w, ss[p], v, u.s)
    BY <1>1, FinishesLaunched
  <2>2. /\ a \in [Contexts -> 0 .. n] /\ Orderly(n, w) /\ \A d \in Contexts : Accounted(w, m, a, d)
        /\ Mine(w, a, ss[p]) /\ Coherent(w, ss[p]) /\ Backed(m, w, ss[p])
    BY DEF OwedOf, Told, Minded, InvOf, Tended, Sound
  <2>3. Tells(n, m, w, v, a, a) /\ Mine(v, a, u.s)
    BY <2>1, <2>2, FinishTells
  <2>4. t.open => Minded(v, a, t)
    BY <2>3 DEF Closes, Minded
  <2>5. QED
    BY <1>1, <2>3, <2>4, OwedPage DEF Tells
<1>10. QED
  BY <1>1, <1>7, <1>8, <1>9, WritesOwed
=============================================================================
