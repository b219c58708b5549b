------------------------------ MODULE Outputs ------------------------------
(***************************************************************************)
(* What the knowledge base produced (src/src/domain/outputs.ts): answers   *)
(* and reports are recorded, listed page by page, promoted (answers only)  *)
(* by way of an ordinary ingest job, and swept after the retention.        *)
(*                                                                         *)
(* promoteOutput reads the row, enqueues and then stamps the row: three    *)
(* statements.  listOutputs is one query per page; its cursor names a row  *)
(* of the page before.                                                     *)
(***************************************************************************)
EXTENDS Integers, FiniteSets

CONSTANTS
  MaxOutputs,  \* bound: outputs recorded; ids are uuids, given out in any order
  Kinds,       \* "answer", and the kinds of report ("briefing", "health")
  Promoters,   \* promotions in flight at a time
  PageLimit,   \* limit of listOutputs
  Retention,   \* WIKIKIT_OUTPUT_RETENTION_DAYS, 0 to keep for ever
  MaxJobs,     \* bound: jobs enqueued
  MaxTime      \* bound: the last instant

Ids == 1..MaxOutputs

ASSUME OutputsAssumption ==
  /\ MaxOutputs \in Nat
  /\ "answer" \in Kinds
  /\ PageLimit \in Nat \ {0}
  /\ Retention \in Nat
  /\ MaxJobs \in Nat
  /\ MaxTime \in Nat

VARIABLES
  clock,
  output,     \* output[o]: a row of wk_outputs
  jobs,       \* how many ingest jobs promotions have enqueued, so far
  promoter,   \* promoter[w]: where a promotion is
  walk,       \* a client paging through listOutputs
  \* what the properties remember
  job,        \* job[j]: of which output, whether its promotion was late, its fate
  stranded    \* outputs swept while a promotion was between read and write

vars == <<clock, output, jobs, promoter, walk, job, stranded>>

-----------------------------------------------------------------------------
(* State *)

Row == [state : {"none", "there", "swept"}, kind : Kinds, at : 0..MaxTime, ingest : 0..MaxJobs]
PromoterState ==
  [pc : {"idle", "enqueue", "write"}, o : 0..MaxOutputs, ingest : 0..MaxJobs,
   late : BOOLEAN]      \* it read the row while another promotion of it was on its way
Job == [of : 0..MaxOutputs, late : BOOLEAN,
        fate : {"none", "open", "kept", "lost"}]  \* of its id: on its way to the row,
                                                  \* written to it, given up
WalkState ==
  [pc : {"off", "paging", "done"}, cursor : 0..MaxOutputs,
   due : SUBSET Ids,    \* there since the walk began, and not shown yet
   shown : SUBSET Ids,
   twice : BOOLEAN]     \* a row was shown a second time

Idle == [pc |-> "idle", o |-> 0, ingest |-> 0, late |-> FALSE]

(* The rows and the records of the requests have the declared shape.       *)
TypeOK ==
  /\ clock \in 0..MaxTime
  /\ output \in [Ids -> Row]
  /\ jobs \in 0..MaxJobs
  /\ promoter \in [Promoters -> PromoterState]
  /\ walk \in WalkState
  /\ job \in [1..MaxJobs -> Job]
  /\ stranded \subseteq Ids

Init ==
  /\ clock = 0
  /\ output = [o \in Ids |-> [state |-> "none", kind |-> "answer", at |-> 0, ingest |-> 0]]
  /\ jobs = 0
  /\ promoter = [w \in Promoters |-> Idle]
  /\ walk = [pc |-> "off", cursor |-> 0, due |-> {}, shown |-> {}, twice |-> FALSE]
  /\ job = [j \in 1..MaxJobs |-> [of |-> 0, late |-> FALSE, fate |-> "none"]]
  /\ stranded = {}

There(o) == output[o].state = "there"
Present == {o \in Ids : There(o)}

-----------------------------------------------------------------------------
(* recordOutput, cleanupOutputs and time *)

RecordOutput(o, kind) ==
  /\ output[o].state = "none"
  /\ output' = [output EXCEPT ![o] = [state |-> "there", kind |-> kind, at |-> clock, ingest |-> 0]]
  /\ UNCHANGED <<clock, jobs, promoter, walk, job, stranded>>

(* created_at < now() - retention                                          *)
Old(o) == output[o].at < clock - Retention

(* only an unpromoted row is collectable                                   *)
Collectable(o) == There(o) /\ Old(o) /\ output[o].ingest = 0

CleanupOutputs ==
  LET gone == {o \in Ids : Collectable(o)} IN
  /\ Retention > 0
  /\ gone # {}
  /\ output' = [o \in Ids |-> IF o \in gone THEN [output[o] EXCEPT !.state = "swept"] ELSE output[o]]
  /\ walk' = [walk EXCEPT !.due = @ \ gone]
  /\ stranded' = stranded \cup {o \in gone : \E w \in Promoters : promoter[w].o = o}
  /\ UNCHANGED <<clock, jobs, promoter, job>>

Tick ==
  /\ clock < MaxTime
  /\ clock' = clock + 1
  /\ UNCHANGED <<output, jobs, promoter, walk, job, stranded>>

-----------------------------------------------------------------------------
(* promoteOutput *)

(* a promotion of o is on its way *)
Overlapped(o) == \E v \in Promoters : promoter[v].o = o

Promote(w, o) ==
  promoter' = [promoter EXCEPT ![w] = [pc |-> "enqueue", o |-> o, ingest |-> 0, late |-> Overlapped(o)]]

(* the stored id is not looked at                                          *)
ReadOutputAfresh(w, o) ==
  /\ promoter[w] = Idle
  /\ There(o)
  /\ output[o].kind = "answer"
  /\ Promote(w, o)
  /\ UNCHANGED <<clock, output, jobs, walk, job, stranded>>

(* the row is read: a report is refused, and a promoted answer answers     *)
(* with the stored id, which changes nothing                               *)
ReadOutput(w, o) ==
  /\ promoter[w] = Idle
  /\ There(o)
  /\ output[o].kind = "answer"
  /\ output[o].ingest = 0
  /\ Promote(w, o)
  /\ UNCHANGED <<clock, output, jobs, walk, job, stranded>>

(* enqueue answers with a job: nothing compares it with jobs not archived  *)
(* yet                                                                     *)
Enqueue(w) ==
  /\ promoter[w].pc = "enqueue"
  /\ jobs < MaxJobs
  /\ jobs' = jobs + 1
  /\ promoter' = [promoter EXCEPT ![w].pc = "write", ![w].ingest = jobs + 1]
  /\ job' = [job EXCEPT ![jobs + 1] = [of |-> promoter[w].o, late |-> promoter[w].late, fate |-> "open"]]
  /\ UNCHANGED <<clock, output, walk, stranded>>

(* enqueue refuses (already_ingested, a full queue, no model configured),  *)
(* or the request dies here, or before it has written; the job stays      *)
Abandon(w) ==
  /\ promoter[w] # Idle
  /\ promoter' = [promoter EXCEPT ![w] = Idle]
  /\ job' = IF promoter[w].pc = "write" THEN [job EXCEPT ![promoter[w].ingest].fate = "lost"] ELSE job
  /\ UNCHANGED <<clock, output, jobs, walk, stranded>>

(* the row is stamped by id, whatever it says now; a row that is gone is   *)
(* no error                                                                *)
Stamped(o, ingest) == IF There(o) THEN [output EXCEPT ![o].ingest = ingest] ELSE output

WritePromotion(w) ==
  LET o == promoter[w].o IN
  /\ promoter[w].pc = "write"
  /\ output' = Stamped(o, promoter[w].ingest)
  /\ promoter' = [promoter EXCEPT ![w] = Idle]
  /\ job' = [job EXCEPT ![promoter[w].ingest].fate = "kept"]
  /\ UNCHANGED <<clock, jobs, walk, stranded>>

-----------------------------------------------------------------------------
(* listOutputs *)

(* ORDER BY created_at DESC, id DESC: o comes after p                      *)
Before(o, p) == output[o].at < output[p].at \/ (output[o].at = output[p].at /\ o < p)

(* the cursor compares the time alone                                      *)
KeysetByTime(o, cursor) == output[o].at < output[cursor].at

(* (created_at, id) < those of the cursor's row, read again                *)
Keyset(o, cursor) == Before(o, cursor)

(* the rows behind the cursor: its created_at is read again, and is NULL   *)
(* when the row has been swept                                             *)
Behind(cursor) ==
  IF cursor = 0 THEN Present
  ELSE {o \in Present : There(cursor) /\ Keyset(o, cursor)}

(* the newest PageLimit of them                                            *)
PageOf(rows) == {o \in rows : Cardinality({p \in rows : p # o /\ ~Before(p, o)}) < PageLimit}

BeginWalk ==
  /\ walk.pc = "off"
  /\ walk' = [walk EXCEPT !.pc = "paging", !.due = Present]
  /\ UNCHANGED <<clock, output, jobs, promoter, job, stranded>>

(* next_before is the last row of the page when one more row was found     *)
ListOutputs ==
  LET rows == Behind(walk.cursor)
      page == PageOf(rows) IN
  /\ walk.pc = "paging"
  /\ walk' = [walk EXCEPT
       !.pc = IF page = rows THEN "done" ELSE "paging",
       !.cursor = IF page = rows THEN 0 ELSE CHOOSE o \in page : \A p \in page : p = o \/ Before(o, p),
       !.due = @ \ page,
       !.shown = IF page = rows THEN {} ELSE @ \cup page,
       !.twice = @ \/ (page \cap walk.shown # {})]
  /\ UNCHANGED <<clock, output, jobs, promoter, job, stranded>>

Next ==
  \/ \E o \in Ids, kind \in Kinds : RecordOutput(o, kind)
  \/ CleanupOutputs
  \/ Tick
  \/ \E w \in Promoters :
       \/ \E o \in Ids : ReadOutput(w, o)
       \/ Enqueue(w) \/ Abandon(w) \/ WritePromotion(w)
  \/ BeginWalk
  \/ ListOutputs

Spec == Init /\ [][Next]_vars

-----------------------------------------------------------------------------
(* Properties *)

(* A client that follows next_before to the end has seen every row that    *)
(* was there all the time, rows of one instant included, however many were *)
(* recorded and swept meanwhile.  The exception is what lies behind a      *)
(* cursor whose own row was swept: then the walk ends early, and all it    *)
(* misses is older than the retention.                                     *)
WalkMissesOnlyOld ==
  walk.pc = "done" => \A o \in walk.due \cap Present : Retention > 0 /\ Old(o)

(* ... and has seen no row twice.                                          *)
WalkRepeatsNothing == ~walk.twice

(* However often an answer is promoted, by whomever, it costs one ingest   *)
(* job ("RE-PROMOTION IS IDEMPOTENT AND CHEAP", outputs.ts 302), and one   *)
(* more for every promotion that had read the row while another was on its *)
(* way to it, and for every one that ended between the enqueue and the     *)
(* write.                                                                  *)
Excused(j) == job[j].late \/ job[j].fate = "lost"
OneJobPerOutput ==
  \A a, b \in {j \in 1..jobs : ~Excused(j)} : job[a].of = job[b].of => a = b

(* What a promotion of a promoted answer is told is a job of that answer,  *)
(* one whose own promotion came through.                                   *)
ToldOfItsJob ==
  \A o \in Ids : (There(o) /\ output[o].ingest # 0) =>
    LET j == output[o].ingest IN j <= jobs /\ job[j].of = o /\ job[j].fate = "kept"

(* An output a promotion of which came through keeps its row (the source   *)
(* it became names it), unless the sweep took it during a promotion.       *)
PromotedIsKept ==
  \A j \in 1..jobs : job[j].fate = "kept" => (There(job[j].of) \/ job[j].of \in stranded)

(* What promotions leave behind: one job, but for the counted exceptions,  *)
(* the answers that name it, and the row it came from.                     *)
PromotionInv == OneJobPerOutput /\ ToldOfItsJob /\ PromotedIsKept

(* The inductive strengthening.  A promotion on its way is about an answer *)
(* that is there or was swept under it, ...                                *)
Underway ==
  \A w \in Promoters :
    \/ promoter[w] = Idle
    \/ /\ promoter[w].pc # "idle"
       /\ promoter[w].o \in Ids
       /\ output[promoter[w].o].state # "none"
       /\ There(promoter[w].o) \/ promoter[w].o \in stranded

(* ... once it has enqueued it has an open job, to itself, ...             *)
HasItsJob ==
  \A w \in Promoters : promoter[w].pc = "write" =>
    /\ promoter[w].ingest \in 1..jobs
    /\ job[promoter[w].ingest] = [of |-> promoter[w].o, late |-> promoter[w].late, fate |-> "open"]
    /\ \A v \in Promoters :
         (promoter[v].pc = "write" /\ promoter[v].ingest = promoter[w].ingest) => v = w

(* ... only one of the promotions of an output is not late, and before it  *)
(* enqueues there are no jobs of its output but lost and late ones, ...    *)
FirstUnlessLate ==
  \A w \in Promoters : (promoter[w].o \in Ids /\ ~promoter[w].late) =>
    /\ \A v \in Promoters : (promoter[v].o = promoter[w].o /\ ~promoter[v].late) => v = w
    /\ promoter[w].pc = "enqueue" =>
         \A j \in 1..jobs : job[j].of = promoter[w].o => Excused(j)

(* ... an open job has a promotion that will give it a fate, and the row   *)
(* of a job that was kept names a job.                                     *)
JobsAccounted ==
  \A j \in 1..jobs :
    /\ job[j].of \in Ids
    /\ output[job[j].of].state # "none"
    /\ job[j].fate # "none"
    /\ job[j].fate = "open" =>
         \E w \in Promoters : promoter[w].pc = "write" /\ promoter[w].ingest = j
    /\ (job[j].fate = "kept" /\ There(job[j].of)) => output[job[j].of].ingest # 0

(* Types, and a walk over the pages sees what it should, once.             *)
WalkIsComplete == TypeOK /\ WalkMissesOnlyOld /\ WalkRepeatsNothing
=============================================================================
