--------------------------- MODULE OutputsProofs ---------------------------
(***************************************************************************)
(* Promotions and walks over the pages, for any number of outputs,         *)
(* promoters, jobs, instants and any page limit.  Neither plays a part in  *)
(* the other: a promotion stamps a row where it stands in the order.       *)
(***************************************************************************)
EXTENDS Outputs, FiniteSetTheorems, WellFoundedInduction, TLAPS

-----------------------------------------------------------------------------
(* Promotions. *)

(* What TypeOK says of the rows a promotion reads and writes. *)
PromotionTypes ==
  /\ output \in [Ids -> Row]
  /\ jobs \in 0..MaxJobs
  /\ promoter \in [Promoters -> PromoterState]
  /\ job \in [1..MaxJobs -> Job]
  /\ stranded \subseteq Ids
  /\ clock \in 0..MaxTime

PInv ==
  /\ PromotionTypes
  /\ Underway /\ HasItsJob /\ FirstUnlessLate /\ JobsAccounted
  /\ OneJobPerOutput /\ ToldOfItsJob /\ PromotedIsKept

LEMMA PromotionsStart == Init => PInv
<1> SUFFICES ASSUME Init PROVE PInv
  OBVIOUS
<1> USE OutputsAssumption
<1>1. PromotionTypes
  BY DEF Init, PromotionTypes, Row, PromoterState, Job, Idle, Ids
<1>2. Underway /\ HasItsJob /\ FirstUnlessLate
  BY DEF Init, Underway, HasItsJob, FirstUnlessLate, Idle, Ids
<1>3. 1..jobs = {}
  BY DEF Init
<1>4. JobsAccounted /\ OneJobPerOutput /\ PromotedIsKept
  BY <1>3 DEF JobsAccounted, OneJobPerOutput, PromotedIsKept
<1>5. ToldOfItsJob
  BY DEF Init, ToldOfItsJob, There
<1> QED
  BY <1>1, <1>2, <1>4, <1>5 DEF PInv

(* A step that changes none of the rows a promotion is about. *)
LEMMA PromotionsStay ==
  ASSUME PInv, UNCHANGED <<output, jobs, promoter, job, stranded>>,
         clock' \in 0..MaxTime
  PROVE  PInv'
BY DEF PInv, PromotionTypes, Underway, HasItsJob, FirstUnlessLate, JobsAccounted,
       OneJobPerOutput, Excused, ToldOfItsJob, PromotedIsKept, There

(* A step that changes no promotion and no job leaves what relates those   *)
(* two.                                                                    *)
LEMMA PromotionsFrame ==
  ASSUME PInv, UNCHANGED <<jobs, promoter, job>>
  PROVE  HasItsJob' /\ FirstUnlessLate' /\ OneJobPerOutput'
BY DEF PInv, HasItsJob, FirstUnlessLate, OneJobPerOutput, Excused

LEMMA PromotionsRecord ==
  ASSUME PInv, NEW o \in Ids, NEW kind \in Kinds, RecordOutput(o, kind)
  PROVE  PInv'
<1> USE OutputsAssumption
<1>0. PICK row : row = [state |-> "there", kind |-> kind, at |-> clock, ingest |-> 0]
  OBVIOUS
<1>1. /\ output[o].state = "none"
      /\ output' = [output EXCEPT ![o] = row]
      /\ UNCHANGED <<jobs, promoter, job, stranded, clock>>
  BY <1>0 DEF RecordOutput
<1>2. row \in Row /\ row.state = "there" /\ row.ingest = 0
  BY <1>0 DEF Row, PInv, PromotionTypes
<1>3. PromotionTypes'
  BY <1>1, <1>2 DEF PInv, PromotionTypes
<1>4. \A q \in Ids : output'[q] = IF q = o THEN row ELSE output[q]
  BY <1>1 DEF PInv, PromotionTypes
<1>5. Underway'
  BY <1>1, <1>2, <1>4 DEF PInv, Underway, There
<1>6. HasItsJob' /\ FirstUnlessLate' /\ OneJobPerOutput'
  BY <1>1, PromotionsFrame
<1>7. \A j \in 1..jobs : job[j].of \in Ids /\ job[j].of # o
  BY <1>1 DEF PInv, JobsAccounted
<1>8. JobsAccounted'
  BY <1>1, <1>4, <1>7 DEF PInv, JobsAccounted, There
<1>9. ToldOfItsJob'
  BY <1>1, <1>2, <1>4 DEF PInv, ToldOfItsJob, There
<1>10. PromotedIsKept'
  BY <1>1, <1>4, <1>7 DEF PInv, PromotedIsKept, There
<1> QED
  BY <1>3, <1>5, <1>6, <1>8, <1>9, <1>10 DEF PInv

(* The sweep takes no row of a job that was kept: that one names a job. *)
LEMMA PromotionsSweep ==
  ASSUME PInv, CleanupOutputs
  PROVE  PInv'
<1> DEFINE gone == {o \in Ids : Collectable(o)}
<1>1. /\ output' = [o \in Ids |-> IF o \in gone THEN [output[o] EXCEPT !.state = "swept"]
                                  ELSE output[o]]
      /\ stranded' = stranded \cup {o \in gone : \E w \in Promoters : promoter[w].o = o}
      /\ UNCHANGED <<jobs, promoter, job, clock>>
  BY DEF CleanupOutputs
<1>2. \A o \in gone : o \in Ids /\ There(o) /\ output[o].ingest = 0
  BY DEF Collectable
<1>3. \A o \in Ids : output[o] \in Row
  BY DEF PInv, PromotionTypes
<1>4. \A o \in gone : [output[o] EXCEPT !.state = "swept"] \in Row
  BY <1>3 DEF Row
<1>5. \A o \in Ids : /\ o \in gone => output'[o].state = "swept"
                     /\ o \notin gone => output'[o] = output[o]
                     /\ output'[o].ingest = output[o].ingest
  BY <1>1, <1>3 DEF Row
<1>6. PromotionTypes'
  <2>1. output' \in [Ids -> Row]
    BY <1>1, <1>3, <1>4
  <2> QED
    BY <2>1, <1>1, <1>2 DEF PInv, PromotionTypes
<1>7. Underway'
  <2>1. ASSUME NEW w \in Promoters, promoter[w] # Idle
        PROVE  /\ promoter[w].pc # "idle"
               /\ promoter[w].o \in Ids
               /\ output'[promoter[w].o].state # "none"
               /\ output'[promoter[w].o].state = "there" \/ promoter[w].o \in stranded'
    BY <2>1, <1>1, <1>5 DEF PInv, Underway, There
  <2> QED
    BY <2>1, <1>1 DEF Underway, There
<1>8. HasItsJob' /\ FirstUnlessLate' /\ OneJobPerOutput'
  BY <1>1, PromotionsFrame
<1> HIDE DEF gone
<1>9. \A o \in Ids : /\ output'[o].state = "there" => (There(o) /\ output'[o] = output[o])
                     /\ output[o].state # "none" => output'[o].state # "none"
  BY <1>5 DEF There
<1>10. JobsAccounted'
  BY <1>1, <1>9 DEF PInv, JobsAccounted, There
<1>11. ToldOfItsJob'
  BY <1>1, <1>9 DEF PInv, ToldOfItsJob, There
<1>12. PromotedIsKept'
  <2>1. ASSUME NEW j \in 1..jobs, job[j].fate = "kept"
        PROVE  output'[job[j].of].state = "there" \/ job[j].of \in stranded'
    <3>1. job[j].of \in Ids
      BY DEF PInv, JobsAccounted
    <3>2. There(job[j].of) \/ job[j].of \in stranded
      BY <2>1 DEF PInv, PromotedIsKept
    <3>3. There(job[j].of) => job[j].of \notin gone
      BY <2>1, <1>2 DEF PInv, JobsAccounted
    <3> QED
      BY <3>1, <3>2, <3>3, <1>1, <1>5 DEF There
  <2> QED
    BY <2>1, <1>1 DEF PromotedIsKept, There
<1> QED
  BY <1>6, <1>7, <1>8, <1>10, <1>11, <1>12 DEF PInv

LEMMA JobOfAWriter ==
  ASSUME PInv, NEW w \in Promoters, promoter[w].pc = "write"
  PROVE  /\ promoter[w].ingest \in 1..jobs
         /\ job[promoter[w].ingest].of = promoter[w].o
         /\ job[promoter[w].ingest].fate = "open"
<1>1. PICK n, o, late : n = promoter[w].ingest /\ o = promoter[w].o /\ late = promoter[w].late
  OBVIOUS
<1>2. n \in 1..jobs /\ job[n] = [of |-> o, late |-> late, fate |-> "open"]
  BY <1>1 DEF PInv, HasItsJob
<1>3. job[n].of = o /\ job[n].fate = "open"
  BY <1>2
<1> QED
  BY <1>1, <1>2, <1>3

(* An unpromoted row has no job that was kept: one that is neither lost    *)
(* nor late belongs to a promotion on its way.                             *)
LEMMA NoJobUnlessOverlapped ==
  ASSUME PInv, NEW o \in Ids, There(o), output[o].ingest = 0, ~Overlapped(o),
         NEW j \in 1..jobs, job[j].of = o
  PROVE  Excused(j)
<1>1. j \in 1..MaxJobs /\ job[j] \in Job
  BY OutputsAssumption DEF PInv, PromotionTypes
<1>2. job[j].fate # "kept" /\ job[j].fate # "none"
  BY DEF PInv, JobsAccounted
<1>3. job[j].fate # "open"
  <2>1. ASSUME NEW w \in Promoters, promoter[w].pc = "write", promoter[w].ingest = j PROVE FALSE
    <3>1. job[j].of = promoter[w].o
      BY <2>1, JobOfAWriter
    <3> QED
      BY <3>1 DEF Overlapped
  <2> QED
    BY <2>1 DEF PInv, JobsAccounted
<1> QED
  BY <1>1, <1>2, <1>3 DEF Excused, Job

(* A promotion reads its row: it is late, or alone and the first. *)
LEMMA PromotionsRead ==
  ASSUME PInv, NEW w \in Promoters, NEW o \in Ids, ReadOutput(w, o)
  PROVE  PInv'
<1> USE OutputsAssumption
<1>0. PICK mine : mine = [pc |-> "enqueue", o |-> o, ingest |-> 0, late |-> Overlapped(o)]
  OBVIOUS
<1>1. /\ promoter[w] = Idle /\ There(o) /\ output[o].ingest = 0
      /\ promoter' = [promoter EXCEPT ![w] = mine]
      /\ UNCHANGED <<clock, output, jobs, job, stranded>>
  BY <1>0 DEF ReadOutput, Promote
<1>2. /\ mine.pc = "enqueue" /\ mine.o = o /\ mine.late = Overlapped(o)
      /\ mine \in PromoterState
  <2>1. o \in 0..MaxOutputs /\ Overlapped(o) \in BOOLEAN
    BY DEF Ids, Overlapped
  <2> QED
    BY <1>0, <2>1 DEF PromoterState
<1>t. promoter \in [Promoters -> PromoterState]
  BY DEF PInv, PromotionTypes
<1>3. \A v \in Promoters : promoter'[v] = IF v = w THEN mine ELSE promoter[v]
  BY <1>1, <1>t
<1>4. PromotionTypes'
  <2>1. promoter' \in [Promoters -> PromoterState]
    BY <1>1, <1>2, <1>t
  <2> QED
    BY <1>1, <2>1 DEF PInv, PromotionTypes
<1>5. Underway'
  BY <1>1, <1>2, <1>3 DEF PInv, Underway, There
<1>6. HasItsJob'
  BY <1>1, <1>2, <1>3 DEF PInv, HasItsJob
<1>7. FirstUnlessLate'
  <2>1. ASSUME NEW u \in Promoters, promoter'[u].o \in Ids, ~promoter'[u].late
        PROVE  /\ \A v \in Promoters :
                    (promoter'[v].o = promoter'[u].o /\ ~promoter'[v].late) => v = u
               /\ promoter'[u].pc = "enqueue" =>
                    \A j \in 1..jobs : job[j].of = promoter'[u].o => Excused(j)
    <3>1. CASE u = w
      <4>1. ~Overlapped(o)
        BY <2>1, <3>1, <1>2, <1>3
      <4>2. \A v \in Promoters : v # w => promoter'[v].o # o
        BY <4>1, <1>3 DEF Overlapped
      <4>3. \A j \in 1..jobs : job[j].of = o => Excused(j)
        BY <4>1, <1>1, NoJobUnlessOverlapped
      <4> QED
        BY <3>1, <4>2, <4>3, <1>2, <1>3
    <3>2. CASE u # w
      <4>1. promoter'[u] = promoter[u]
        BY <3>2, <1>3
      <4>2. promoter[u].o # o \/ promoter'[w].late
        BY <1>2, <1>3 DEF Overlapped
      <4> QED
        BY <2>1, <3>2, <4>1, <4>2, <1>2, <1>3 DEF PInv, FirstUnlessLate
    <3> QED
      BY <3>1, <3>2
  <2> QED
    BY <2>1, <1>1 DEF FirstUnlessLate, Excused
<1>8. JobsAccounted'
  <2>1. promoter[w].pc # "write"
    BY <1>1 DEF Idle
  <2>2. \A v \in Promoters : promoter[v].pc = "write" => promoter'[v] = promoter[v]
    BY <2>1, <1>3
  <2> QED
    BY <2>2, <1>1 DEF PInv, JobsAccounted, There
<1>9. OneJobPerOutput' /\ ToldOfItsJob' /\ PromotedIsKept'
  BY <1>1 DEF PInv, OneJobPerOutput, Excused, ToldOfItsJob, PromotedIsKept, There
<1> QED
  BY <1>4, <1>5, <1>6, <1>7, <1>8, <1>9 DEF PInv

(* A promotion that is not late enqueues the first job that counts. *)
LEMMA PromotionsEnqueue ==
  ASSUME PInv, NEW w \in Promoters, Enqueue(w)
  PROVE  PInv'
<1> USE OutputsAssumption
<1>t. /\ jobs \in 0..MaxJobs /\ promoter \in [Promoters -> PromoterState]
      /\ job \in [1..MaxJobs -> Job]
  BY DEF PInv, PromotionTypes
<1>1. PICK n : n = jobs + 1
  OBVIOUS
<1>2. PICK o, late : o = promoter[w].o /\ late = promoter[w].late
  OBVIOUS
<1>3. PICK mine : mine = [promoter[w] EXCEPT !.pc = "write", !.ingest = n]
  OBVIOUS
<1>4. PICK rec : rec = [of |-> o, late |-> late, fate |-> "open"]
  OBVIOUS
<1>5. /\ promoter[w].pc = "enqueue" /\ jobs < MaxJobs /\ jobs' = n
      /\ job' = [job EXCEPT ![n] = rec]
      /\ UNCHANGED <<clock, output, stranded>>
  BY <1>1, <1>2, <1>4 DEF Enqueue
<1>6. promoter' = [promoter EXCEPT ![w] = mine]
  BY <1>1, <1>3, <1>t DEF Enqueue, PromoterState
<1>7. /\ n \in 1..MaxJobs /\ n \notin 1..jobs /\ n \in 0..MaxJobs
      /\ \A j : j \in 1..n <=> (j \in 1..jobs \/ j = n)
      /\ \A j \in 1..jobs : j \in 1..MaxJobs
  BY <1>1, <1>5, <1>t
<1>8. /\ mine \in PromoterState /\ mine.o = o /\ mine.late = late
      /\ mine.pc = "write" /\ mine.ingest = n
  <2>1. promoter[w] \in PromoterState
    BY <1>t
  <2> QED
    BY <2>1, <1>2, <1>3, <1>7 DEF PromoterState
<1>9. o \in Ids /\ output[o].state # "none" /\ (There(o) \/ o \in stranded)
  BY <1>2, <1>5 DEF PInv, Underway, Idle
<1>10. rec \in Job /\ rec.of = o /\ rec.late = late /\ rec.fate = "open"
  <2>1. promoter[w] \in PromoterState
    BY <1>t
  <2> QED
    BY <2>1, <1>2, <1>4 DEF PromoterState, Job
<1>11. \A v \in Promoters : promoter'[v] = IF v = w THEN mine ELSE promoter[v]
  BY <1>6, <1>t
<1>12. \A j \in 1..MaxJobs : job'[j] = IF j = n THEN rec ELSE job[j]
  BY <1>5, <1>t
<1>13. job'[n] = rec /\ \A j \in 1..jobs : j # n /\ job'[j] = job[j]
  BY <1>7, <1>12
<1>14. PromotionTypes'
  <2>1. promoter' \in [Promoters -> PromoterState] /\ job' \in [1..MaxJobs -> Job]
    BY <1>5, <1>6, <1>8, <1>10, <1>t
  <2> QED
    BY <2>1, <1>5, <1>7 DEF PInv, PromotionTypes
<1>15. Underway'
  BY <1>5, <1>8, <1>9, <1>11 DEF PInv, Underway, There
<1>16. HasItsJob'
  <2>1. ASSUME NEW v \in Promoters, promoter'[v].pc = "write"
        PROVE  /\ promoter'[v].ingest \in 1..n
               /\ job'[promoter'[v].ingest]
                    = [of |-> promoter'[v].o, late |-> promoter'[v].late, fate |-> "open"]
               /\ v # w => promoter'[v].ingest \in 1..jobs
    <3>1. CASE v = w
      BY <3>1, <1>4, <1>7, <1>8, <1>11, <1>13
    <3>2. CASE v # w
      <4>1. promoter'[v] = promoter[v]
        BY <3>2, <1>11
      <4>2. /\ promoter[v].ingest \in 1..jobs
            /\ job[promoter[v].ingest]
                 = [of |-> promoter[v].o, late |-> promoter[v].late, fate |-> "open"]
        BY <2>1, <4>1 DEF PInv, HasItsJob
      <4> QED
        BY <4>1, <4>2, <1>7, <1>13
    <3> QED
      BY <3>1, <3>2
  <2>2. ASSUME NEW u \in Promoters, NEW v \in Promoters, promoter'[u].pc = "write",
               promoter'[v].pc = "write", promoter'[u].ingest = promoter'[v].ingest
        PROVE  u = v
    <3>1. CASE u # w /\ v # w
      BY <3>1, <2>2, <1>11 DEF PInv, HasItsJob
    <3>2. CASE u = w \/ v = w
      BY <3>2, <2>1, <2>2, <1>7, <1>8, <1>11
    <3> QED
      BY <3>1, <3>2
  <2> QED
    BY <2>1, <2>2, <1>5 DEF HasItsJob
<1>17. FirstUnlessLate'
  <2>1. \A v \in Promoters : promoter'[v].o = promoter[v].o /\ promoter'[v].late = promoter[v].late
    BY <1>2, <1>8, <1>11
  <2>2. ASSUME NEW u \in Promoters, promoter'[u].o \in Ids, ~promoter'[u].late,
               promoter'[u].pc = "enqueue", NEW j \in 1..n, job'[j].of = promoter'[u].o
        PROVE  job'[j].late \/ job'[j].fate = "lost"
    <3>1. u # w /\ promoter'[u] = promoter[u]
      BY <2>2, <1>8, <1>11
    <3>2. CASE j = n
      <4>1. promoter[w].o = promoter[u].o
        BY <3>1, <3>2, <2>2, <1>2, <1>10, <1>13
      <4>2. promoter[w].late
        BY <4>1, <3>1, <2>2 DEF PInv, FirstUnlessLate
      <4> QED
        BY <4>2, <3>2, <1>2, <1>10, <1>13
    <3>3. CASE j \in 1..jobs
      BY <3>1, <3>3, <2>2, <1>13 DEF PInv, FirstUnlessLate, Excused
    <3> QED
      BY <3>2, <3>3, <1>7
  <2>3. ASSUME NEW u \in Promoters, promoter'[u].o \in Ids, ~promoter'[u].late,
               NEW v \in Promoters, promoter'[v].o = promoter'[u].o, ~promoter'[v].late
        PROVE  v = u
    BY <2>3, <2>1 DEF PInv, FirstUnlessLate
  <2> QED
    BY <2>2, <2>3, <1>5 DEF FirstUnlessLate, Excused
<1>18. JobsAccounted'
  <2>1. ASSUME NEW j \in 1..n
        PROVE  /\ job'[j].of \in Ids
               /\ output[job'[j].of].state # "none"
               /\ job'[j].fate # "none"
               /\ job'[j].fate = "open" =>
                    \E v \in Promoters : promoter'[v].pc = "write" /\ promoter'[v].ingest = j
               /\ (job'[j].fate = "kept" /\ There(job'[j].of)) => output[job'[j].of].ingest # 0
    <3>1. CASE j = n
      BY <3>1, <1>8, <1>9, <1>10, <1>11, <1>13
    <3>2. CASE j \in 1..jobs
      <4>1. \A v \in Promoters : promoter[v].pc = "write" => promoter'[v] = promoter[v]
        BY <1>5, <1>11
      <4> QED
        BY <4>1, <3>2, <1>13 DEF PInv, JobsAccounted
    <3> QED
      BY <3>1, <3>2, <1>7
  <2> QED
    BY <2>1, <1>5 DEF JobsAccounted, There
<1>19. OneJobPerOutput'
  <2>1. ASSUME NEW a \in 1..jobs, job[a].of = o, ~Excused(a)
        PROVE  late
    BY <2>1, <1>2, <1>5, <1>9 DEF PInv, FirstUnlessLate
  <2>2. ASSUME NEW a \in 1..n, NEW b \in 1..n, job'[a].of = job'[b].of,
               ~job'[a].late, ~job'[b].late, job'[a].fate # "lost", job'[b].fate # "lost"
        PROVE  a = b
    <3>1. CASE a \in 1..jobs /\ b \in 1..jobs
      <4>1. ~Excused(a) /\ ~Excused(b) /\ job[a].of = job[b].of
        BY <3>1, <2>2, <1>13 DEF Excused
      <4> QED
        BY <4>1, <3>1 DEF PInv, OneJobPerOutput
    <3>2. CASE a = n /\ b \in 1..jobs
      BY <3>2, <2>1, <2>2, <1>10, <1>13 DEF Excused
    <3>3. CASE b = n /\ a \in 1..jobs
      BY <3>3, <2>1, <2>2, <1>10, <1>13 DEF Excused
    <3> QED
      BY <3>1, <3>2, <3>3, <1>7
  <2> QED
    BY <2>2, <1>5 DEF OneJobPerOutput, Excused
<1>20. ToldOfItsJob'
  <2>1. ASSUME NEW q \in Ids, There(q), output[q].ingest # 0
        PROVE  /\ output[q].ingest <= n
               /\ job'[output[q].ingest].of = q
               /\ job'[output[q].ingest].fate = "kept"
    <3>1. PICK j : j = output[q].ingest
      OBVIOUS
    <3>2. j <= jobs /\ job[j].of = q /\ job[j].fate = "kept"
      BY <2>1, <3>1 DEF PInv, ToldOfItsJob
    <3>3. j \in 0..MaxJobs /\ j # 0
      BY <2>1, <3>1 DEF PInv, PromotionTypes, Row
    <3>4. j \in 1..jobs /\ j <= n
      BY <3>2, <3>3, <1>1, <1>t
    <3> QED
      BY <3>1, <3>2, <3>4, <1>13
  <2> QED
    BY <2>1, <1>5 DEF ToldOfItsJob, There
<1>21. PromotedIsKept'
  BY <1>5, <1>7, <1>10, <1>13 DEF PInv, PromotedIsKept, There
<1> QED
  BY <1>14, <1>15, <1>16, <1>17, <1>18, <1>19, <1>20, <1>21 DEF PInv

(* The end of a promotion decides the fate of its job, if it has one: it   *)
(* leaves everything else about jobs and promotions.                       *)
LEMMA PromotionEnds ==
  ASSUME PInv, NEW w \in Promoters, NEW fate \in {"kept", "lost"},
         promoter' = [promoter EXCEPT ![w] = Idle],
         job' = IF promoter[w].pc = "write" THEN [job EXCEPT ![promoter[w].ingest].fate = fate] ELSE job,
         UNCHANGED <<clock, jobs, stranded>>
  PROVE  /\ promoter' \in [Promoters -> PromoterState] /\ job' \in [1..MaxJobs -> Job]
         /\ \A v \in Promoters : promoter'[v] = IF v = w THEN Idle ELSE promoter[v]
         /\ \A j \in 1..jobs :
              /\ job'[j].of = job[j].of /\ job'[j].late = job[j].late
              /\ job'[j].fate = IF promoter[w].pc = "write" /\ j = promoter[w].ingest
                                THEN fate ELSE job[j].fate
         /\ HasItsJob' /\ FirstUnlessLate' /\ OneJobPerOutput'
<1> USE OutputsAssumption
<1>t. /\ jobs \in 0..MaxJobs /\ promoter \in [Promoters -> PromoterState]
      /\ job \in [1..MaxJobs -> Job]
  BY DEF PInv, PromotionTypes
<1>i. Idle \in PromoterState /\ Idle.pc = "idle" /\ Idle.o \notin Ids
  BY DEF Idle, PromoterState, Ids
<1>1. \A v \in Promoters : promoter'[v] = IF v = w THEN Idle ELSE promoter[v]
  BY <1>t
<1>2. PICK n : n = promoter[w].ingest
  OBVIOUS
<1>3. promoter[w].pc = "write" => (n \in 1..jobs /\ job[n].fate = "open")
  BY <1>2, JobOfAWriter
<1>4. \A j \in 1..jobs : j \in 1..MaxJobs
  BY <1>t
<1>5. PICK rec : rec = [job[n] EXCEPT !.fate = fate]
  OBVIOUS
<1>6. n \in 1..jobs => /\ rec \in Job /\ rec.fate = fate
                       /\ rec.of = job[n].of /\ rec.late = job[n].late
  BY <1>4, <1>5, <1>t DEF Job
<1>7. promoter[w].pc = "write" => job' = [job EXCEPT ![n] = rec]
  BY <1>2, <1>5
<1>8. /\ promoter' \in [Promoters -> PromoterState]
      /\ job' \in [1..MaxJobs -> Job]
  BY <1>i, <1>3, <1>6, <1>7, <1>t
<1>9. \A j \in 1..jobs : job'[j] = IF promoter[w].pc = "write" /\ j = n THEN rec ELSE job[j]
  BY <1>4, <1>7, <1>t
<1>10. \A j \in 1..jobs :
         /\ job'[j].of = job[j].of /\ job'[j].late = job[j].late
         /\ job'[j].fate = IF promoter[w].pc = "write" /\ j = n THEN fate ELSE job[j].fate
  <2>1. ASSUME NEW j \in 1..jobs, promoter[w].pc = "write", j = n
        PROVE  /\ job'[j].of = job[j].of /\ job'[j].late = job[j].late
               /\ job'[j].fate = fate
    BY <2>1, <1>6, <1>9
  <2>2. ASSUME NEW j \in 1..jobs, ~(promoter[w].pc = "write" /\ j = n)
        PROVE  job'[j] = job[j]
    BY <2>2, <1>9
  <2> TAKE j \in 1..jobs
  <2>3. CASE promoter[w].pc = "write" /\ j = n
    BY <2>3, <2>1
  <2>4. CASE ~(promoter[w].pc = "write" /\ j = n)
    <3>1. job'[j] = job[j]
      BY <2>4, <2>2
    <3>2. job'[j].late = job[j].late
      BY <3>1, Zenon
    <3>3. /\ job'[j].of = job[j].of
          /\ job'[j].fate = job[j].fate
      BY <3>1, Zenon
    <3>4. job'[j].fate = IF promoter[w].pc = "write" /\ j = n THEN fate ELSE job[j].fate
      BY <2>4, <3>3
    <3> QED
      BY <3>2, <3>3, <3>4
  <2> QED
    BY <2>3, <2>4
<1>11. HasItsJob'
  <2>1. ASSUME NEW v \in Promoters, promoter'[v].pc = "write"
        PROVE  v # w /\ promoter'[v] = promoter[v]
    BY <2>1, <1>1, <1>i
  <2>2. ASSUME NEW v \in Promoters, promoter'[v].pc = "write"
        PROVE  /\ promoter'[v].ingest \in 1..jobs
               /\ job'[promoter'[v].ingest] = job[promoter'[v].ingest]
    <3>1. v # w /\ promoter'[v] = promoter[v] /\ promoter[v].ingest \in 1..jobs
      BY <2>1, <2>2 DEF PInv, HasItsJob
    <3>2. ~(promoter[w].pc = "write" /\ promoter[v].ingest = n)
      BY <3>1, <2>2, <1>2 DEF PInv, HasItsJob
    <3> QED
      BY <3>1, <3>2, <1>9
  <2> QED
    BY <2>1, <2>2 DEF PInv, HasItsJob
<1>12. FirstUnlessLate'
  <2>1. ASSUME NEW v \in Promoters, promoter'[v].o \in Ids
        PROVE  v # w /\ promoter'[v] = promoter[v]
    BY <2>1, <1>1, <1>i
  <2>2. \A j \in 1..jobs : Excused(j) => (job'[j].late \/ job'[j].fate = "lost")
    BY <1>3, <1>10 DEF Excused
  <2>3. ASSUME NEW u \in Promoters, promoter'[u].o \in Ids, ~promoter'[u].late,
               NEW v \in Promoters, promoter'[v].o = promoter'[u].o, ~promoter'[v].late
        PROVE  v = u
    BY <2>1, <2>3 DEF PInv, FirstUnlessLate
  <2>4. ASSUME NEW u \in Promoters, promoter'[u].o \in Ids, ~promoter'[u].late,
               promoter'[u].pc = "enqueue", NEW j \in 1..jobs, job'[j].of = promoter'[u].o
        PROVE  job'[j].late \/ job'[j].fate = "lost"
    <3>1. Excused(j)
      BY <2>1, <2>4, <1>10 DEF PInv, FirstUnlessLate
    <3> QED
      BY <3>1, <2>2
  <2> QED
    BY <2>3, <2>4 DEF FirstUnlessLate, Excused
<1>13. OneJobPerOutput'
  <2>1. ASSUME NEW j \in 1..jobs, ~job'[j].late, job'[j].fate # "lost"
        PROVE  ~Excused(j)
    BY <2>1, <1>3, <1>10 DEF Excused
  <2> QED
    BY <2>1, <1>10 DEF PInv, OneJobPerOutput, Excused
<1> QED
  BY <1>1, <1>2, <1>8, <1>10, <1>11, <1>12, <1>13

LEMMA PromotionsAbandon ==
  ASSUME PInv, NEW w \in Promoters, Abandon(w)
  PROVE  PInv'
<1>1. /\ promoter[w] # Idle
      /\ promoter' = [promoter EXCEPT ![w] = Idle]
      /\ job' = IF promoter[w].pc = "write" THEN [job EXCEPT ![promoter[w].ingest].fate = "lost"] ELSE job
      /\ UNCHANGED <<clock, output, jobs, stranded>>
  BY DEF Abandon
<1>2. /\ promoter' \in [Promoters -> PromoterState] /\ job' \in [1..MaxJobs -> Job]
      /\ \A v \in Promoters : promoter'[v] = IF v = w THEN Idle ELSE promoter[v]
      /\ \A j \in 1..jobs :
           /\ job'[j].of = job[j].of /\ job'[j].late = job[j].late
           /\ job'[j].fate = IF promoter[w].pc = "write" /\ j = promoter[w].ingest
                             THEN "lost" ELSE job[j].fate
      /\ HasItsJob' /\ FirstUnlessLate' /\ OneJobPerOutput'
  BY <1>1, PromotionEnds
<1>3. PromotionTypes'
  BY <1>1, <1>2 DEF PInv, PromotionTypes
<1>4. Underway'
  BY <1>1, <1>2 DEF PInv, Underway, There
<1>5. JobsAccounted'
  <2>1. ASSUME NEW j \in 1..jobs, job'[j].fate = "open"
        PROVE  \E v \in Promoters : promoter'[v].pc = "write" /\ promoter'[v].ingest = j
    <3>1. PICK v \in Promoters : promoter[v].pc = "write" /\ promoter[v].ingest = j
      BY <2>1, <1>2 DEF PInv, JobsAccounted
    <3>2. v # w
      BY <3>1, <2>1, <1>2
    <3> QED
      BY <3>1, <3>2, <1>2
  <2> QED
    BY <2>1, <1>1, <1>2 DEF PInv, JobsAccounted, There
<1>6. ToldOfItsJob'
  <2>1. ASSUME NEW q \in Ids, There(q), output[q].ingest # 0
        PROVE  /\ output[q].ingest <= jobs
               /\ job'[output[q].ingest].of = q
               /\ job'[output[q].ingest].fate = "kept"
    <3>1. PICK j : j = output[q].ingest
      OBVIOUS
    <3>2. j <= jobs /\ job[j].of = q /\ job[j].fate = "kept"
      BY <2>1, <3>1 DEF PInv, ToldOfItsJob
    <3>3. j \in 1..jobs
      BY <2>1, <3>1, <3>2, OutputsAssumption DEF PInv, PromotionTypes, Row
    <3>4. ~(promoter[w].pc = "write" /\ j = promoter[w].ingest)
      BY <3>2, JobOfAWriter
    <3> QED
      BY <3>1, <3>2, <3>3, <3>4, <1>2
  <2> QED
    BY <2>1, <1>1 DEF ToldOfItsJob, There
<1>7. PromotedIsKept'
  BY <1>1, <1>2 DEF PInv, PromotedIsKept, There
<1> QED
  BY <1>2, <1>3, <1>4, <1>5, <1>6, <1>7 DEF PInv

(* The job is stamped on the row, if there is one. *)
LEMMA PromotionsWrite ==
  ASSUME PInv, NEW w \in Promoters, WritePromotion(w)
  PROVE  PInv'
<1> USE OutputsAssumption
<1>1. PICK o, n : o = promoter[w].o /\ n = promoter[w].ingest
  OBVIOUS
<1>2. /\ promoter[w].pc = "write"
      /\ output' = IF There(o) THEN [output EXCEPT ![o].ingest = n] ELSE output
      /\ promoter' = [promoter EXCEPT ![w] = Idle]
      /\ job' = [job EXCEPT ![promoter[w].ingest].fate = "kept"]
      /\ UNCHANGED <<clock, jobs, stranded>>
  BY <1>1 DEF WritePromotion, Stamped
<1>3. /\ promoter' \in [Promoters -> PromoterState] /\ job' \in [1..MaxJobs -> Job]
      /\ \A v \in Promoters : promoter'[v] = IF v = w THEN Idle ELSE promoter[v]
      /\ \A j \in 1..jobs :
           /\ job'[j].of = job[j].of /\ job'[j].late = job[j].late
           /\ job'[j].fate = IF promoter[w].pc = "write" /\ j = promoter[w].ingest
                             THEN "kept" ELSE job[j].fate
      /\ HasItsJob' /\ FirstUnlessLate' /\ OneJobPerOutput'
  BY <1>2, PromotionEnds
<1>4. /\ o \in Ids /\ output[o].state # "none" /\ (There(o) \/ o \in stranded)
      /\ n \in 1..jobs /\ job[n].of = o
  <2>1. promoter[w] # Idle
    BY <1>2 DEF Idle
  <2> QED
    BY <2>1, <1>1, <1>2, JobOfAWriter DEF PInv, Underway
<1>5. \A j \in 1..jobs : job'[j].of = job[j].of /\ job'[j].fate = IF j = n THEN "kept" ELSE job[j].fate
  BY <1>1, <1>2, <1>3
<1>t. output \in [Ids -> Row] /\ n \in 1..MaxJobs /\ n # 0
  BY <1>4 DEF PInv, PromotionTypes
<1>6. PICK row : row = [output[o] EXCEPT !.ingest = n]
  OBVIOUS
<1>7. row \in Row /\ row.state = output[o].state /\ row.ingest = n
  BY <1>4, <1>t, <1>6 DEF Row
<1>8. \A q \in Ids : output'[q] = IF q = o /\ There(o) THEN row ELSE output[q]
  BY <1>2, <1>4, <1>t, <1>6
<1>9. \A q \in Ids : /\ output'[q].state = output[q].state
                     /\ output'[q].ingest = IF q = o /\ There(o) THEN n ELSE output[q].ingest
  BY <1>7, <1>8
<1>10. PromotionTypes'
  <2>1. output' \in [Ids -> Row]
    BY <1>2, <1>t, <1>6, <1>7
  <2> QED
    BY <2>1, <1>2, <1>3 DEF PInv, PromotionTypes
<1>11. Underway'
  BY <1>2, <1>3, <1>9 DEF PInv, Underway, There
<1>12. JobsAccounted'
  <2>1. ASSUME NEW j \in 1..jobs, job'[j].fate = "open"
        PROVE  \E v \in Promoters : promoter'[v].pc = "write" /\ promoter'[v].ingest = j
    <3>1. j # n /\ job[j].fate = "open"
      BY <2>1, <1>5
    <3>2. PICK v \in Promoters : promoter[v].pc = "write" /\ promoter[v].ingest = j
      BY <3>1 DEF PInv, JobsAccounted
    <3> QED
      BY <3>1, <3>2, <1>1, <1>3
  <2>2. ASSUME NEW j \in 1..jobs, job'[j].fate = "kept", output[job[j].of].state = "there"
        PROVE  output'[job[j].of].ingest # 0
    <3>1. job[j].of \in Ids
      BY DEF PInv, JobsAccounted
    <3>2. CASE j = n
      BY <3>1, <3>2, <2>2, <1>4, <1>9, <1>t DEF There
    <3>3. CASE j # n
      <4>1. output[job[j].of].ingest # 0
        BY <3>3, <2>2, <1>5 DEF PInv, JobsAccounted, There
      <4> QED
        BY <4>1, <3>1, <1>9, <1>t
    <3> QED
      BY <3>2, <3>3
  <2>3. ASSUME NEW j \in 1..jobs
        PROVE  job[j].of \in Ids /\ output[job[j].of].state # "none" /\ job'[j].fate # "none"
    BY <1>5 DEF PInv, JobsAccounted
  <2>4. jobs' = jobs
    BY <1>2
  <2> QED
    BY <2>1, <2>2, <2>3, <2>4, <1>5, <1>9 DEF JobsAccounted, There
<1>13. ToldOfItsJob'
  <2>1. ASSUME NEW q \in Ids, There(q), output'[q].ingest # 0
        PROVE  /\ output'[q].ingest <= jobs
               /\ job'[output'[q].ingest].of = q
               /\ job'[output'[q].ingest].fate = "kept"
    <3>1. CASE q = o
      <4>1. output'[q].ingest = n
        BY <3>1, <2>1, <1>9
      <4>2. n <= jobs
        BY <1>4 DEF PInv, PromotionTypes
      <4> QED
        BY <3>1, <4>1, <4>2, <1>4, <1>5
    <3>2. CASE q # o
      <4>1. PICK j : j = output[q].ingest
        OBVIOUS
      <4>2. output'[q].ingest = j
        BY <3>2, <4>1, <1>9
      <4>3. j <= jobs /\ job[j].of = q /\ job[j].fate = "kept"
        BY <2>1, <4>1, <4>2 DEF PInv, ToldOfItsJob
      <4>4. j \in 1..jobs
        BY <2>1, <4>1, <4>2, <4>3 DEF PInv, PromotionTypes, Row
      <4> QED
        BY <4>2, <4>3, <4>4, <1>5
    <3> QED
      BY <3>1, <3>2
  <2>2. jobs' = jobs
    BY <1>2
  <2> QED
    BY <2>1, <2>2, <1>9 DEF ToldOfItsJob, There
<1>14. PromotedIsKept'
  <2>1. ASSUME NEW j \in 1..jobs, job'[j].fate = "kept"
        PROVE  output[job[j].of].state = "there" \/ job[j].of \in stranded
    BY <2>1, <1>4, <1>5 DEF PInv, PromotedIsKept, There
  <2>2. \A j \in 1..jobs : job[j].of \in Ids
    BY DEF PInv, JobsAccounted
  <2> QED
    BY <2>1, <2>2, <1>2, <1>5, <1>9 DEF PromotedIsKept, There
<1> QED
  BY <1>3, <1>10, <1>11, <1>12, <1>13, <1>14 DEF PInv

LEMMA PromotionsNext == PInv /\ [Next]_vars => PInv'
<1> SUFFICES ASSUME PInv, [Next]_vars PROVE PInv'
  OBVIOUS
<1>0. clock \in 0..MaxTime /\ MaxTime \in Nat
  BY OutputsAssumption DEF PInv, PromotionTypes
<1>1. CASE \E o \in Ids, kind \in Kinds : RecordOutput(o, kind)
  BY <1>1, PromotionsRecord
<1>2. CASE CleanupOutputs
  BY <1>2, PromotionsSweep
<1>3. CASE Tick
  BY <1>3, <1>0, PromotionsStay DEF Tick
<1>4. CASE \E w \in Promoters : \E o \in Ids : ReadOutput(w, o)
  BY <1>4, PromotionsRead
<1>5. CASE \E w \in Promoters : Enqueue(w)
  BY <1>5, PromotionsEnqueue
<1>6. CASE \E w \in Promoters : Abandon(w)
  BY <1>6, PromotionsAbandon
<1>7. CASE \E w \in Promoters : WritePromotion(w)
  BY <1>7, PromotionsWrite
<1>8. CASE BeginWalk
  BY <1>8, <1>0, PromotionsStay DEF BeginWalk
<1>9. CASE ListOutputs
  BY <1>9, <1>0, PromotionsStay DEF ListOutputs
<1>10. CASE UNCHANGED vars
  BY <1>10, <1>0, PromotionsStay DEF vars
<1> QED
  BY <1>1, <1>2, <1>3, <1>4, <1>5, <1>6, <1>7, <1>8, <1>9, <1>10 DEF Next

(* However often an answer is promoted it costs one job, and one more for   *)
(* each promotion that overlapped another or ended between the enqueue and  *)
(* the write; a promoted row names such a job, and stays, unless a sweep    *)
(* took it during a promotion (promoteOutput, cleanupOutputs).              *)
THEOREM PromotionsHold == Spec => []PromotionInv
<1>1. PInv => PromotionInv
  BY DEF PInv, PromotionInv
<1> QED
  BY PromotionsStart, PromotionsNext, <1>1, PTL DEF Spec

-----------------------------------------------------------------------------
(* The order of the list. *)

LEMMA LeastNatural ==
  ASSUME NEW S \in SUBSET Nat, S # {}
  PROVE  \E m \in S : \A n \in S : m <= n
<1> DEFINE R == {ss \in Nat \X Nat : ss[1] < ss[2]}
<1>1. IsWellFoundedOn(R, Nat)
  BY NatLessThanWellFounded DEF OpToRel
<1>2. PICK m \in S : \A n \in S : ~(<<n, m>> \in R)
  BY <1>1, WFMin
<1>3. ASSUME NEW n \in S PROVE m <= n
  <2>1. m \in Nat /\ n \in Nat /\ ~(n < m)
    BY <1>2
  <2> QED
    BY <2>1
<1> QED
  BY <1>3

LEMMA LargestBelow ==
  ASSUME NEW N \in Nat, NEW S \in SUBSET (0..N), S # {}
  PROVE  \E m \in S : \A n \in S : n <= m
<1> DEFINE T == {N - n : n \in S}
<1>1. T \in SUBSET Nat /\ T # {}
  <2>1. ASSUME NEW n \in S PROVE N - n \in Nat
    OBVIOUS
  <2> QED
    BY <2>1
<1>2. PICK t \in T : \A u \in T : t <= u
  BY <1>1, LeastNatural
<1>3. PICK m \in S : t = N - m
  BY <1>2
<1>4. ASSUME NEW n \in S PROVE n <= m
  <2>1. N - m <= N - n
    BY <1>2, <1>3
  <2> QED
    BY <2>1
<1> QED
  BY <1>4

(* Before orders the rows: by time, then by id.                             *)
LEMMA BeforeIsOrder ==
  ASSUME output \in [Ids -> Row]
  PROVE  /\ \A o \in Ids : ~Before(o, o)
         /\ \A o, p \in Ids : o = p \/ Before(o, p) \/ Before(p, o)
         /\ \A o, p \in Ids : ~(Before(o, p) /\ Before(p, o))
         /\ \A o, p, q \in Ids : Before(o, p) /\ Before(p, q) => Before(o, q)
<1>1. \A o \in Ids : output[o].at \in Int /\ o \in Int
  BY OutputsAssumption DEF Row, Ids
<1> QED
  BY <1>1 DEF Before

LEMMA OldestOf ==
  ASSUME output \in [Ids -> Row], NEW S \in SUBSET Ids, S # {}
  PROVE  \E o \in S : \A p \in S : p = o \/ Before(o, p)
<1>1. \A o \in S : output[o].at \in Nat /\ o \in Nat
  BY OutputsAssumption DEF Row, Ids
<1> DEFINE Times == {output[o].at : o \in S}
<1>2. PICK t \in Times : \A u \in Times : t <= u
  <2>1. Times \in SUBSET Nat /\ Times # {}
    BY <1>1
  <2> QED
    BY <2>1, LeastNatural
<1> DEFINE First == {o \in S : output[o].at = t}
<1>3. PICK o \in First : \A p \in First : o <= p
  <2>1. First \in SUBSET Nat /\ First # {}
    BY <1>1, <1>2
  <2> QED
    BY <2>1, LeastNatural
<1>4. ASSUME NEW p \in S PROVE p = o \/ Before(o, p)
  <2>1. output[o].at = t /\ t <= output[p].at /\ t \in Nat /\ output[p].at \in Nat /\ o \in Nat /\ p \in Nat
    BY <1>1, <1>2, <1>3
  <2>2. output[p].at = t => o <= p
    BY <1>3
  <2> QED
    BY <2>1, <2>2 DEF Before
<1> QED
  BY <1>3, <1>4

LEMMA NewestOf ==
  ASSUME output \in [Ids -> Row], NEW S \in SUBSET Ids, S # {}
  PROVE  \E o \in S : \A p \in S : p = o \/ Before(p, o)
<1>1. \A o \in S : output[o].at \in 0..MaxTime /\ o \in 0..MaxOutputs
  BY OutputsAssumption DEF Row, Ids
<1> DEFINE Times == {output[o].at : o \in S}
<1>2. PICK t \in Times : \A u \in Times : u <= t
  <2>1. Times \in SUBSET (0..MaxTime) /\ Times # {} /\ MaxTime \in Nat
    BY <1>1, OutputsAssumption
  <2> QED
    BY <2>1, LargestBelow
<1> DEFINE Last == {o \in S : output[o].at = t}
<1>3. PICK o \in Last : \A p \in Last : p <= o
  <2>1. Last \in SUBSET (0..MaxOutputs) /\ Last # {} /\ MaxOutputs \in Nat
    BY <1>1, <1>2, OutputsAssumption
  <2> QED
    BY <2>1, LargestBelow
<1>4. ASSUME NEW p \in S PROVE p = o \/ Before(p, o)
  <2>1. output[o].at = t /\ output[p].at <= t /\ t \in Nat /\ output[p].at \in Nat /\ o \in Nat /\ p \in Nat
    BY <1>1, <1>2, <1>3, OutputsAssumption
  <2>2. output[p].at = t => p <= o
    BY <1>3
  <2> QED
    BY <2>1, <2>2 DEF Before
<1> QED
  BY <1>3, <1>4

(* A page is the newest part of the rows it is taken from, and has a last   *)
(* row when any is there.                                                   *)
Newer(rows, o) == {p \in rows : p # o /\ ~Before(p, o)}

LEMMA PageIsNewest ==
  ASSUME output \in [Ids -> Row], NEW rows \in SUBSET Ids
  PROVE  /\ PageOf(rows) \subseteq rows
         /\ rows # {} => PageOf(rows) # {}
         /\ \A o \in rows \ PageOf(rows), q \in PageOf(rows) : Before(o, q)
<1>1. IsFiniteSet(Ids)
  <2>1. 1 \in Int /\ MaxOutputs \in Int
    BY OutputsAssumption
  <2>2. IsFiniteSet(1..MaxOutputs)
    BY <2>1, FS_Interval
  <2> QED
    BY <2>2 DEF Ids
<1>2. ASSUME NEW o \in rows PROVE IsFiniteSet(Newer(rows, o))
  <2>1. Newer(rows, o) \in SUBSET Ids
    BY DEF Newer
  <2> QED
    BY <1>1, <2>1, FS_Subset
<1>3. PageOf(rows) = {o \in rows : Cardinality(Newer(rows, o)) < PageLimit}
  BY DEF PageOf, Newer
<1>4. ASSUME rows # {} PROVE PageOf(rows) # {}
  <2>1. PICK o \in rows : \A p \in rows : p = o \/ Before(p, o)
    BY <1>4, NewestOf
  <2>2. Newer(rows, o) = {}
    BY <2>1 DEF Newer
  <2>3. Cardinality(Newer(rows, o)) < PageLimit
    BY <2>2, FS_EmptySet, OutputsAssumption
  <2> QED
    BY <1>3, <2>3
<1>5. ASSUME NEW o \in rows \ PageOf(rows), NEW q \in PageOf(rows) PROVE Before(o, q)
  <2> SUFFICES ASSUME ~Before(o, q) PROVE FALSE
    OBVIOUS
  <2>1. o \in Ids /\ q \in Ids /\ o \in rows /\ q \in rows /\ o # q
    BY <1>3
  <2>2. Before(q, o)
    BY <2>1, BeforeIsOrder
  <2>3. ASSUME NEW p \in Newer(rows, o) PROVE p \in Newer(rows, q)
    <3>1. p \in rows /\ p \in Ids /\ p # o /\ ~Before(p, o)
      BY DEF Newer
    <3>2. Before(o, p)
      BY <2>1, <3>1, BeforeIsOrder
    <3>3. Before(q, p)
      BY <2>1, <2>2, <3>1, <3>2, BeforeIsOrder
    <3>4. p # q /\ ~Before(p, q)
      BY <2>1, <3>1, <3>3, BeforeIsOrder
    <3> QED
      BY <3>1, <3>4 DEF Newer
  <2>4. Newer(rows, o) \in SUBSET Newer(rows, q)
    BY <2>3
  <2>5. Cardinality(Newer(rows, o)) <= Cardinality(Newer(rows, q))
    BY <1>2, <2>1, <2>4, FS_Subset
  <2>6. Cardinality(Newer(rows, o)) \in Nat /\ Cardinality(Newer(rows, q)) \in Nat
    BY <1>2, <2>1, FS_CardinalityType
  <2>7. Cardinality(Newer(rows, q)) < PageLimit /\ ~(Cardinality(Newer(rows, o)) < PageLimit)
    BY <1>3, <2>1
  <2> QED
    BY <2>5, <2>6, <2>7, OutputsAssumption
<1> QED
  BY <1>3, <1>4, <1>5

-----------------------------------------------------------------------------
(* The walk. *)

(* What the sweep took is past the retention for good.                      *)
SweptIsOld == \A o \in Ids : output[o].state = "swept" => Retention > 0 /\ Old(o)

(* A walk on its way has shown the rows down to its cursor, and what it     *)
(* still owes lies behind it.                                               *)
CursorDivides ==
  walk.pc = "paging" =>
    /\ walk.due \subseteq Present
    /\ walk.cursor = 0 => walk.shown = {}
    /\ walk.cursor # 0 =>
         /\ output[walk.cursor].state # "none"
         /\ \A o \in walk.due : Before(o, walk.cursor)
         /\ \A p \in walk.shown : /\ output[p].state # "none"
                                  /\ p = walk.cursor \/ Before(walk.cursor, p)

WalkInv ==
  /\ walk \in WalkState
  /\ SweptIsOld
  /\ walk.pc = "off" => walk.cursor = 0 /\ walk.shown = {}
  /\ \A o \in walk.due : output[o].state # "none"
  /\ CursorDivides
  /\ WalkMissesOnlyOld
  /\ WalkRepeatsNothing

(* What a step other than listOutputs does to the rows a walk is about: a   *)
(* row that was recorded stays where it is in the order, and leaves only    *)
(* when it is old; the walk is not owed it then.                            *)
RowsStay ==
  /\ clock' \in 0..MaxTime /\ clock <= clock'
  /\ \A o \in Ids :
       /\ output[o].state # "none" =>
            output'[o].at = output[o].at /\ output'[o].state \in {output[o].state, "swept"}
       /\ output'[o].state = "swept" =>
            output[o].state = "swept" \/ (Retention > 0 /\ Old(o) /\ There(o))
  /\ walk' \in WalkState
  /\ walk'.pc = walk.pc /\ walk'.cursor = walk.cursor
  /\ walk'.shown = walk.shown /\ walk'.twice = walk.twice
  /\ walk'.due \subseteq walk.due
  /\ \A o \in walk'.due : There(o) => There(o)'

LEMMA WalkStart == Init => WalkInv
<1> SUFFICES ASSUME Init PROVE WalkInv
  OBVIOUS
<1>1. walk \in WalkState
  BY OutputsAssumption DEF Init, WalkState
<1>2. SweptIsOld
  BY DEF Init, SweptIsOld
<1> QED
  BY <1>1, <1>2 DEF Init, WalkInv, CursorDivides, WalkMissesOnlyOld, WalkRepeatsNothing

(* Time only makes rows older.                                              *)
LEMMA OldStays ==
  ASSUME output \in [Ids -> Row], clock \in 0..MaxTime, clock' \in 0..MaxTime, clock <= clock',
         NEW o \in Ids, output'[o].at = output[o].at, Old(o)
  PROVE  Old(o)'
<1>1. output[o].at \in Int /\ Retention \in Int /\ clock \in Int /\ clock' \in Int
  BY OutputsAssumption DEF Row
<1> QED
  BY <1>1 DEF Old

LEMMA WalkStays ==
  ASSUME output \in [Ids -> Row], clock \in 0..MaxTime, WalkInv, RowsStay
  PROVE  WalkInv'
<1>a. walk \in WalkState /\ walk.due \subseteq Ids /\ walk.shown \subseteq Ids /\ walk.cursor \in 0..MaxOutputs
  BY DEF WalkInv, WalkState
<1>b. ASSUME walk.cursor # 0 PROVE walk.cursor \in Ids
  BY <1>a, <1>b, OutputsAssumption DEF Ids
<1>1. SweptIsOld'
  <2> SUFFICES ASSUME NEW o \in Ids, output'[o].state = "swept" PROVE Retention > 0 /\ Old(o)'
    BY DEF SweptIsOld
  <2>1. Retention > 0 /\ Old(o) /\ output[o].state # "none"
    BY DEF RowsStay, WalkInv, SweptIsOld, There
  <2>2. output'[o].at = output[o].at /\ clock' \in 0..MaxTime /\ clock <= clock'
    BY <2>1 DEF RowsStay
  <2> QED
    BY <2>1, <2>2, OldStays
<1>2. ASSUME NEW o \in walk'.due PROVE o \in walk.due /\ o \in Ids /\ output[o].state # "none" /\ output'[o].state # "none"
  <2>1. o \in walk.due /\ o \in Ids /\ output[o].state # "none"
    BY <1>a DEF RowsStay, WalkInv
  <2> QED
    BY <2>1 DEF RowsStay
<1>3. CursorDivides'
  <2> SUFFICES ASSUME walk'.pc = "paging"
               PROVE  /\ walk'.due \subseteq Present'
                      /\ walk'.cursor = 0 => walk'.shown = {}
                      /\ walk'.cursor # 0 =>
                           /\ output'[walk'.cursor].state # "none"
                           /\ \A o \in walk'.due : Before(o, walk.cursor)'
                           /\ \A p \in walk'.shown : /\ output'[p].state # "none"
                                                     /\ p = walk'.cursor \/ Before(walk.cursor, p)'
    BY DEF CursorDivides
  <2>1. /\ walk'.cursor = walk.cursor /\ walk'.shown = walk.shown /\ walk.pc = "paging"
        /\ \A o \in walk'.due : There(o) => There(o)'
    BY DEF RowsStay
  <2>2. walk'.due \subseteq Present'
    BY <1>2, <2>1 DEF WalkInv, CursorDivides, Present
  <2>3. walk'.cursor = 0 => walk'.shown = {}
    BY <2>1 DEF WalkInv, CursorDivides
  <2>4. ASSUME walk'.cursor # 0
        PROVE  /\ output'[walk'.cursor].state # "none"
               /\ \A o \in walk'.due : Before(o, walk.cursor)'
               /\ \A p \in walk'.shown : /\ output'[p].state # "none"
                                         /\ p = walk'.cursor \/ Before(walk.cursor, p)'
    <3>1. walk.cursor \in Ids /\ output[walk.cursor].state # "none"
      BY <1>b, <2>1, <2>4 DEF WalkInv, CursorDivides
    <3>2. output'[walk'.cursor].state # "none"
      BY <2>1, <3>1 DEF RowsStay
    <3>3. ASSUME NEW o \in walk'.due PROVE Before(o, walk.cursor)'
      <4>1. Before(o, walk.cursor)
        BY <1>2, <2>1, <2>4 DEF WalkInv, CursorDivides
      <4>2. output'[o].at = output[o].at /\ output'[walk.cursor].at = output[walk.cursor].at
        BY <1>2, <3>1 DEF RowsStay
      <4> QED
        BY <2>1, <4>1, <4>2 DEF Before
    <3>4. ASSUME NEW p \in walk'.shown
          PROVE  output'[p].state # "none" /\ (p = walk'.cursor \/ Before(walk.cursor, p)')
      <4>1. p \in Ids /\ output[p].state # "none" /\ (p = walk.cursor \/ Before(walk.cursor, p))
        BY <1>a, <2>1, <2>4 DEF WalkInv, CursorDivides
      <4>2. output'[p].at = output[p].at /\ output'[p].state # "none" /\ output'[walk.cursor].at = output[walk.cursor].at
        BY <3>1, <4>1 DEF RowsStay
      <4> QED
        BY <2>1, <4>1, <4>2 DEF Before
    <3> QED
      BY <3>2, <3>3, <3>4
  <2> QED
    BY <2>2, <2>3, <2>4
<1>4. WalkMissesOnlyOld'
  <2> SUFFICES ASSUME walk'.pc = "done", NEW o \in walk'.due, o \in Present'
               PROVE  Retention > 0 /\ Old(o)'
    BY DEF WalkMissesOnlyOld
  <2>1. o \in walk.due /\ o \in Ids /\ output[o].state # "none" /\ There(o)'
    BY <1>2 DEF Present
  <2>2. There(o) /\ output'[o].at = output[o].at /\ walk.pc = "done" /\ clock' \in 0..MaxTime /\ clock <= clock'
    BY <2>1 DEF RowsStay, There
  <2>3. Retention > 0 /\ Old(o)
    BY <2>1, <2>2 DEF WalkInv, WalkMissesOnlyOld, Present
  <2> QED
    BY <2>1, <2>2, <2>3, OldStays
<1>5. WalkRepeatsNothing'
  BY DEF WalkInv, WalkRepeatsNothing, RowsStay
<1>6. walk' \in WalkState /\ (walk'.pc = "off" => walk'.cursor = 0 /\ walk'.shown = {})
  BY DEF WalkInv, RowsStay
<1> QED
  BY <1>1, <1>2, <1>3, <1>4, <1>5, <1>6 DEF WalkInv

LEMMA WalkBegins ==
  ASSUME WalkInv, BeginWalk
  PROVE  WalkInv'
<1>1. /\ walk \in WalkState /\ walk.pc = "off" /\ walk.cursor = 0 /\ walk.shown = {}
      /\ walk' = [walk EXCEPT !.pc = "paging", !.due = Present]
      /\ UNCHANGED <<clock, output>>
  BY DEF WalkInv, BeginWalk
<1>2. Present \subseteq Ids
  BY DEF Present
<1>3. /\ walk' \in WalkState /\ walk'.pc = "paging" /\ walk'.due = Present
      /\ walk'.cursor = 0 /\ walk'.shown = {} /\ walk'.twice = walk.twice
  BY <1>1, <1>2 DEF WalkState
<1>4. Present' = Present
  BY <1>1 DEF Present, There
<1>5. SweptIsOld'
  BY <1>1 DEF WalkInv, SweptIsOld, Old
<1>6. CursorDivides' /\ \A o \in walk'.due : output'[o].state # "none"
  BY <1>1, <1>3, <1>4 DEF CursorDivides, Present, There
<1> QED
  BY <1>3, <1>5, <1>6 DEF WalkInv, WalkMissesOnlyOld, WalkRepeatsNothing

LEMMA WalkTurnsPage ==
  ASSUME output \in [Ids -> Row], clock \in 0..MaxTime, WalkInv, ListOutputs
  PROVE  WalkInv'
<1> DEFINE rows == Behind(walk.cursor)
           page == PageOf(rows)
           last == CHOOSE o \in page : \A p \in page : p = o \/ Before(o, p)
<1>a. /\ walk \in WalkState /\ walk.due \subseteq Ids /\ walk.shown \subseteq Ids
      /\ walk.cursor \in 0..MaxOutputs /\ walk.pc = "paging" /\ walk.due \subseteq Present
      /\ ~walk.twice
  BY DEF WalkInv, WalkState, ListOutputs, CursorDivides, WalkRepeatsNothing
<1>b. ASSUME walk.cursor # 0
      PROVE  /\ walk.cursor \in Ids
             /\ output[walk.cursor].state # "none"
             /\ \A o \in walk.due : Before(o, walk.cursor)
             /\ \A p \in walk.shown : p = walk.cursor \/ Before(walk.cursor, p)
  BY <1>a, <1>b, OutputsAssumption DEF Ids, WalkInv, CursorDivides
<1>c. rows \in SUBSET Present /\ Present \subseteq Ids
  BY DEF Behind, Present
<1>d. /\ page \subseteq rows
      /\ rows # {} => page # {}
      /\ \A o \in rows \ page, q \in page : Before(o, q)
  BY <1>c, PageIsNewest
<1>e. UNCHANGED <<clock, output>>
  BY DEF ListOutputs
<1>f. Present' = Present /\ SweptIsOld'
  BY <1>e DEF Present, There, WalkInv, SweptIsOld, Old
<1>1. page \cap walk.shown = {}
  <2> SUFFICES ASSUME NEW o \in page, o \in walk.shown PROVE FALSE
    OBVIOUS
  <2>1. walk.cursor # 0
    BY <1>a DEF WalkInv, CursorDivides
  <2>2. Before(o, walk.cursor) /\ o \in Ids
    BY <1>c, <1>d, <2>1 DEF Behind, Keyset
  <2> QED
    BY <1>b, <2>1, <2>2, BeforeIsOrder
<1>2. ASSUME walk.cursor = 0 \/ There(walk.cursor) PROVE walk.due \subseteq rows
  <2>1. CASE walk.cursor = 0
    BY <1>a, <2>1 DEF Behind
  <2>2. CASE walk.cursor # 0
    BY <1>a, <1>b, <1>2, <2>2 DEF Behind, Keyset
  <2> QED
    BY <2>1, <2>2
<1>3. CASE page = rows
  <2>1. /\ walk' \in WalkState /\ walk'.pc = "done" /\ walk'.due = walk.due \ page
        /\ walk'.twice = FALSE
    <3>1. walk' = [walk EXCEPT !.pc = "done", !.cursor = 0, !.due = walk.due \ page, !.shown = {},
                               !.twice = FALSE]
      BY <1>1, <1>3, <1>a DEF ListOutputs
    <3>2. walk.due \ page \in SUBSET Ids /\ {} \in SUBSET Ids /\ 0 \in 0..MaxOutputs
      BY <1>a, OutputsAssumption
    <3> HIDE DEF page
    <3> QED
      BY <1>a, <3>1, <3>2 DEF WalkState
  <2>2. ASSUME NEW o \in walk'.due, o \in Present PROVE Retention > 0 /\ Old(o)
    <3>1. o \in walk.due /\ o \notin rows /\ o \in Ids
      BY <1>3, <1>a, <2>1
    <3>2. walk.cursor # 0 /\ ~There(walk.cursor)
      BY <1>2, <3>1
    <3>3. output[walk.cursor].state = "swept"
      BY <1>b, <3>2 DEF Row, There
    <3>4. Retention > 0 /\ Old(walk.cursor) /\ Before(o, walk.cursor)
      BY <1>b, <3>1, <3>2, <3>3 DEF WalkInv, SweptIsOld
    <3>5. output[o].at \in Int /\ output[walk.cursor].at \in Int /\ clock \in Int /\ Retention \in Int
      BY <1>b, <3>1, <3>2, OutputsAssumption DEF Row
    <3> QED
      BY <3>4, <3>5 DEF Old, Before
  <2>3. WalkMissesOnlyOld'
    BY <1>e, <1>f, <2>2 DEF WalkMissesOnlyOld, Old
  <2>4. \A o \in walk'.due : output'[o].state # "none"
    BY <1>e, <2>1 DEF WalkInv
  <2> QED
    BY <1>f, <2>1, <2>3, <2>4 DEF WalkInv, CursorDivides, WalkRepeatsNothing
<1>4. CASE page # rows
  <2>0. rows # {} /\ page # {} /\ page \in SUBSET Ids
    BY <1>4, <1>c, <1>d
  <2>1. last \in page /\ \A p \in page : p = last \/ Before(last, p)
    <3>1. \E o \in page : \A p \in page : p = o \/ Before(o, p)
      BY <2>0, OldestOf
    <3> HIDE DEF page
    <3> QED
      BY <3>1
  <2>2. last \in Ids /\ last \in rows /\ There(last)
    BY <1>c, <1>d, <2>1 DEF Present
  <2>3. /\ walk' \in WalkState /\ walk'.pc = "paging" /\ walk'.cursor = last
        /\ walk'.due = walk.due \ page /\ walk'.shown = walk.shown \cup page
        /\ walk'.twice = FALSE
    <3>1. walk' = [walk EXCEPT !.pc = "paging", !.cursor = last, !.due = walk.due \ page,
                               !.shown = walk.shown \cup page, !.twice = FALSE]
      BY <1>1, <1>4, <1>a DEF ListOutputs
    <3>2. walk.due \ page \in SUBSET Ids /\ walk.shown \cup page \in SUBSET Ids /\ last \in 0..MaxOutputs
      BY <1>a, <2>0, <2>2, OutputsAssumption DEF Ids
    <3> HIDE DEF page, last
    <3> QED
      BY <1>a, <3>1, <3>2 DEF WalkState
  <2>4. walk.cursor = 0 \/ There(walk.cursor)
    BY <2>0 DEF Behind
  <2>5. ASSUME NEW o \in walk.due \ page PROVE Before(o, last)
    BY <1>2, <1>d, <2>1, <2>4
  <2>6. ASSUME NEW p \in walk.shown \cup page
        PROVE  output[p].state # "none" /\ (p = last \/ Before(last, p))
    <3>1. CASE p \in page
      BY <1>c, <1>d, <2>1, <3>1 DEF Present, There
    <3>2. CASE p \in walk.shown
      <4>1. walk.cursor # 0
        BY <1>a, <3>2 DEF WalkInv, CursorDivides
      <4>2. Before(last, walk.cursor)
        BY <2>2, <4>1 DEF Behind, Keyset
      <4>3. p \in Ids /\ output[p].state # "none"
        BY <1>a, <3>2, <4>1 DEF WalkInv, CursorDivides
      <4>4. p = walk.cursor \/ Before(walk.cursor, p)
        BY <1>b, <3>2, <4>1
      <4> QED
        BY <1>b, <2>2, <4>1, <4>2, <4>3, <4>4, BeforeIsOrder
    <3> QED
      BY <2>6, <3>1, <3>2
  <2>7. /\ walk'.due \subseteq Present'
        /\ output'[walk'.cursor].state # "none"
        /\ \A o \in walk'.due : Before(o, walk.cursor)'
        /\ \A p \in walk'.shown : /\ output'[p].state # "none"
                                  /\ p = walk'.cursor \/ Before(walk.cursor, p)'
        /\ walk'.cursor # 0
    <3> HIDE DEF page, last
    <3>1. walk'.due \subseteq Present' /\ output'[walk'.cursor].state # "none"
      BY <1>a, <1>e, <1>f, <2>2, <2>3 DEF There
    <3>2. \A o \in walk'.due : Before(o, walk.cursor)'
      BY <1>e, <2>3, <2>5 DEF Before
    <3>3. \A p \in walk'.shown : output'[p].state # "none" /\ (p = walk'.cursor \/ Before(walk.cursor, p)')
      BY <1>e, <2>3, <2>6 DEF Before
    <3>4. walk'.cursor # 0
      BY <2>2, <2>3, OutputsAssumption DEF Ids
    <3> QED
      BY <3>1, <3>2, <3>3, <3>4
  <2>8. CursorDivides'
    BY <2>7 DEF CursorDivides
  <2>9. \A o \in walk'.due : output'[o].state # "none"
    BY <1>e, <2>3 DEF WalkInv
  <2> QED
    BY <1>f, <2>3, <2>8, <2>9 DEF WalkInv, WalkMissesOnlyOld, WalkRepeatsNothing
<1> QED
  BY <1>3, <1>4

(* The steps that turn no page.                                             *)
LEMMA RecordStays ==
  ASSUME output \in [Ids -> Row], clock \in 0..MaxTime, WalkInv,
         NEW o \in Ids, NEW kind \in Kinds, RecordOutput(o, kind)
  PROVE  RowsStay
<1>1. /\ output[o].state = "none" /\ output'[o].state = "there"
      /\ \A q \in Ids : q # o => output'[q] = output[q]
      /\ walk' = walk /\ clock' = clock
  BY DEF RecordOutput
<1>2. walk \in WalkState /\ walk.due \subseteq Ids /\ \A q \in walk.due : output[q].state # "none"
  BY DEF WalkInv, WalkState
<1>3. clock <= clock'
  BY <1>1, OutputsAssumption
<1>4. \A q \in walk.due : output'[q] = output[q]
  BY <1>1, <1>2
<1> QED
  BY <1>1, <1>2, <1>3, <1>4 DEF RowsStay, There

LEMMA SweepStays ==
  ASSUME output \in [Ids -> Row], clock \in 0..MaxTime, WalkInv, CleanupOutputs
  PROVE  RowsStay
<1> DEFINE gone == {o \in Ids : Collectable(o)}
<1>1. /\ output' = [o \in Ids |-> IF o \in gone THEN [output[o] EXCEPT !.state = "swept"]
                                  ELSE output[o]]
      /\ walk' = [walk EXCEPT !.due = walk.due \ gone]
      /\ clock' = clock /\ Retention > 0
  BY DEF CleanupOutputs
<1>2. walk \in WalkState /\ walk.due \subseteq Ids
  BY DEF WalkInv, WalkState
<1>3. /\ walk' \in WalkState /\ walk'.due = walk.due \ gone
      /\ walk'.pc = walk.pc /\ walk'.cursor = walk.cursor
      /\ walk'.shown = walk.shown /\ walk'.twice = walk.twice
  <2>1. walk.due \ gone \in SUBSET Ids
    BY <1>2
  <2> HIDE DEF gone
  <2> QED
    BY <1>1, <1>2, <2>1 DEF WalkState
<1>4. ASSUME NEW o \in Ids
      PROVE  /\ output'[o].at = output[o].at
             /\ o \in gone => output'[o].state = "swept" /\ There(o) /\ Old(o)
             /\ o \notin gone => output'[o] = output[o]
  <2>1. output[o] \in Row
    OBVIOUS
  <2>2. o \in gone => There(o) /\ Old(o)
    BY DEF Collectable
  <2> HIDE DEF gone
  <2> QED
    BY <1>1, <2>1, <2>2 DEF Row
<1>5. clock <= clock'
  BY <1>1, OutputsAssumption
<1> HIDE DEF gone
<1> QED
  BY <1>1, <1>2, <1>3, <1>4, <1>5 DEF RowsStay, There

LEMMA StampStays ==
  ASSUME PInv, WalkInv, NEW w \in Promoters, WritePromotion(w)
  PROVE  RowsStay
<1>0. output \in [Ids -> Row] /\ clock \in 0..MaxTime
  BY DEF PInv, PromotionTypes
<1>1. /\ output' = Stamped(promoter[w].o, promoter[w].ingest)
      /\ walk' = walk /\ clock' = clock
  BY DEF WritePromotion
<1>2. ASSUME NEW o \in Ids PROVE output'[o].state = output[o].state /\ output'[o].at = output[o].at
  <2>1. output[o] \in Row
    BY <1>0
  <2> QED
    BY <1>0, <1>1, <2>1 DEF Stamped, Row
<1>3. walk \in WalkState /\ walk.due \subseteq Ids
  BY DEF WalkInv, WalkState
<1>4. clock <= clock' /\ clock' \in 0..MaxTime
  BY <1>0, <1>1, OutputsAssumption
<1> QED
  BY <1>1, <1>2, <1>3, <1>4 DEF RowsStay, There

LEMMA OthersStay ==
  ASSUME WalkInv, UNCHANGED <<output, walk>>, clock' \in 0..MaxTime, clock <= clock'
  PROVE  RowsStay
<1>1. walk \in WalkState
  BY DEF WalkInv
<1> QED
  BY <1>1 DEF RowsStay, There

LEMMA WalkNext == PInv /\ WalkInv /\ [Next]_vars => WalkInv'
<1> SUFFICES ASSUME PInv, WalkInv, [Next]_vars PROVE WalkInv'
  OBVIOUS
<1>0. output \in [Ids -> Row] /\ clock \in 0..MaxTime /\ MaxTime \in Nat
  BY OutputsAssumption DEF PInv, PromotionTypes
<1>1. CASE \E o \in Ids, kind \in Kinds : RecordOutput(o, kind)
  BY <1>0, <1>1, RecordStays, WalkStays
<1>2. CASE CleanupOutputs
  BY <1>0, <1>2, SweepStays, WalkStays
<1>3. CASE \E w \in Promoters : WritePromotion(w)
  BY <1>0, <1>3, StampStays, WalkStays
<1>4. CASE UNCHANGED <<output, walk>> /\ clock' \in {clock, clock + 1} /\ clock' \in 0..MaxTime
  <2>1. clock <= clock'
    BY <1>0, <1>4
  <2> QED
    BY <1>0, <1>4, <2>1, OthersStay, WalkStays
<1>5. CASE BeginWalk
  BY <1>5, WalkBegins
<1>6. CASE ListOutputs
  BY <1>0, <1>6, WalkTurnsPage
<1>7. CASE Tick
  BY <1>0, <1>4, <1>7 DEF Tick
<1>8. CASE \E w \in Promoters : \/ \E o \in Ids : ReadOutput(w, o)
                               \/ Enqueue(w) \/ Abandon(w)
  BY <1>0, <1>4, <1>8 DEF ReadOutput, Enqueue, Abandon
<1>9. CASE UNCHANGED vars
  BY <1>0, <1>4, <1>9 DEF vars
<1> QED
  BY <1>1, <1>2, <1>3, <1>5, <1>6, <1>7, <1>8, <1>9 DEF Next

(* A client that follows next_before to the end has seen every row that was *)
(* there all the time, once, except rows past the retention behind a cursor *)
(* whose own row was swept: listOutputs compares (created_at, id) with the  *)
(* cursor's row, and a page is an upper part of what lies behind it.        *)
THEOREM WalksHold == Spec => []WalkIsComplete
<1>1. Spec => []PInv
  BY PromotionsStart, PromotionsNext, PTL DEF Spec
<1>2. PInv /\ WalkInv => WalkIsComplete
  BY DEF PInv, PromotionTypes, WalkInv, WalkIsComplete, TypeOK
<1> QED
  BY <1>1, <1>2, WalkStart, WalkNext, PTL DEF Spec
=============================================================================
