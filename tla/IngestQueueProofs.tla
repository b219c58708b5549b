-------------------------- MODULE IngestQueueProofs --------------------------
(***************************************************************************)
(* The safety of the pipeline for any number of jobs, contents, streams,   *)
(* loops, processes and requests.                                          *)
(*                                                                         *)
(* The proofs go by what a step may do to a job row (RowStep) and to a     *)
(* loop (LoopMove): each action is met once for each of the two, and the   *)
(* properties of jobs follow from them alone.                              *)
(***************************************************************************)
EXTENDS IngestQueue, FiniteSetTheorems, TLAPS

-----------------------------------------------------------------------------
(* Job rows. *)

(* What a step may do to the row of job j: an ended one keeps its outcome,  *)
(* one that fails is announced, one in work ends or is parked by its loop.  *)
RowStep(j) ==
  /\ job[j].status # "none" => job'[j].input = job[j].input /\ job'[j].status # "none"
  /\ \/ /\ job'[j].status = job[j].status
        /\ job'[j].source = job[j].source
        /\ job'[j].proposal = job[j].proposal
        /\ failures'[j] = failures[j]
     \/ /\ job[j].status \notin Ended
        /\ failures'[j] = IF job'[j].status = "failed" THEN failures[j] + 1 ELSE failures[j]
  /\ job[j].status = "running" =>
       \/ job'[j].status \in {"running"} \cup Ended
       \/ \E w \in Workers : worker[w].pc = "park" /\ worker[w].job = j /\ worker'[w].pc = "stop"

Rows == JobsOK' /\ \A j \in Jobs : RowStep(j)

LEMMA RowsStay ==
  ASSUME JobsOK, UNCHANGED <<job, created, failures>>
  PROVE  Rows
BY DEF JobsOK, Rows, RowStep

(* A row is inserted. *)
LEMMA RowInserted ==
  ASSUME JobsOK, NEW i \in Inputs, NEW s \in {"captured", "queued"}, Insert(i, s), UNCHANGED failures
  PROVE  Rows
<1> DEFINE j == created + 1
           row == [NoJob EXCEPT !.status = s, !.input = i]
<1>1. j \in Jobs /\ created \in Nat /\ created < MaxJobs
  <2>1. MaxJobs \in Nat /\ created \in 0 .. MaxJobs /\ created < MaxJobs
    BY BoundsAssumption DEF JobsOK, Insert
  <2> QED
    BY <2>1 DEF Jobs
<1>2. row.status = s /\ row.input = i
  BY DEF NoJob
<1>3. row \in JobRow
  BY DEF NoJob, JobRow, JobStatus
<1>4. job' = [job EXCEPT ![j] = row] /\ created' = created + 1
  BY DEF Insert
<1>5. job[j].status = "none"
  BY <1>1 DEF JobsOK
<1> HIDE DEF row
<1>6. JobsOK'
  BY <1>1, <1>2, <1>3, <1>4, BoundsAssumption DEF JobsOK, Jobs
<1>7. \A k \in Jobs : RowStep(k)
  BY <1>2, <1>4, <1>5 DEF RowStep, JobsOK, Ended
<1> QED
  BY <1>6, <1>7 DEF Rows

(* The row of job j is written, and keeps its input. *)
LEMMA RowWritten ==
  ASSUME JobsOK, NEW j \in Jobs, NEW row \in JobRow, job[j].status # "none",
         row.status # "none", row.input = job[j].input,
         job' = [job EXCEPT ![j] = row], UNCHANGED created, RowStep(j),
         \A k \in Jobs \ {j} : failures'[k] = failures[k]
  PROVE  Rows
<1>1. JobsOK'
  BY DEF JobsOK
<1>2. \A k \in Jobs : RowStep(k)
  BY DEF RowStep, JobsOK
<1> QED
  BY <1>1, <1>2 DEF Rows

LEMMA LeaveType ==
  ASSUME NEW row \in JobRow, NEW s \in JobStatus
  PROVE  /\ Leave(row, s) \in JobRow
         /\ Leave(row, s).status = s
         /\ Leave(row, s).input = row.input
         /\ Leave(row, s).source = row.source
         /\ Leave(row, s).proposal = row.proposal
BY DEF Leave, JobRow

LEMMA RowsStep == TypeOK /\ [Next]_vars => Rows
<1> SUFFICES ASSUME TypeOK, [Next]_vars PROVE Rows
  OBVIOUS
<1>0. /\ JobsOK /\ LoopsOK /\ RequestsOK
      /\ failures \in [Jobs -> Nat] /\ claims \in [Jobs -> Nat]
  BY DEF TypeOK, CountsOK
<1>a. \A j \in Jobs : job[j] \in JobRow
  BY <1>0 DEF JobsOK
<1>b. \A w \in Workers : worker[w] \in WorkerState /\ (worker[w].pc \in Processing =>
         /\ worker[w].job \in Jobs /\ job[worker[w].job].status # "none")
  BY <1>0, BoundsAssumption DEF LoopsOK, JobsOK, Jobs
<1>1. ASSUME NEW i \in Inputs, EnqueueCapture(i) PROVE Rows
  BY <1>0, <1>1, RowInserted DEF EnqueueCapture
<1>2. ASSUME NEW r \in Clients, EnqueueInsert(r) PROVE Rows
  <2>1. client[r].input \in Inputs /\ UNCHANGED failures
    BY <1>0, <1>2 DEF EnqueueInsert, RequestsOK
  <2>2. Insert(client[r].input, "queued") \/ UNCHANGED <<job, created>>
    BY <1>2 DEF EnqueueInsert
  <2> QED
    BY <1>0, <2>1, <2>2, RowInserted, RowsStay
<1>3. ASSUME NEW r \in Clients, ResolveQueued(r) PROVE Rows
  <2> DEFINE j == client[r].job
             row == [job[j] EXCEPT !.status = "queued"]
  <2>1. j \in Jobs /\ UNCHANGED <<created, failures>>
    BY <1>0, <1>3, BoundsAssumption DEF ResolveQueued, RequestsOK, JobsOK, Jobs, clientVars
  <2>2. CASE job[j].status = "captured"
    <3>1. job' = [job EXCEPT ![j] = row]
      BY <1>3, <2>2 DEF ResolveQueued
    <3>2. row \in JobRow /\ row.status = "queued" /\ row.input = job[j].input
      BY <1>a, <2>1 DEF JobRow, JobStatus
    <3> HIDE DEF row
    <3>3. RowStep(j)
      BY <1>0, <2>1, <2>2, <3>1, <3>2 DEF RowStep, JobsOK, Ended
    <3> QED
      BY <1>0, <2>1, <2>2, <3>1, <3>2, <3>3, RowWritten
  <2>3. CASE job[j].status # "captured"
    BY <1>0, <1>3, <2>1, <2>3, RowsStay DEF ResolveQueued
  <2> QED
    BY <2>2, <2>3
<1>4. ASSUME NEW j \in Jobs, ResolveUseExisting(j) \/ ResolveDiscard(j) PROVE Rows
  <2>1. PICK s \in {"done", "discarded"}, c \in Contents \cup {Null} :
          job' = [job EXCEPT ![j] = [job[j] EXCEPT !.status = s, !.source = c]]
    <3>1. CASE ResolveUseExisting(j)
      <4>1. job[j].input \in Inputs
        BY <1>0, <3>1 DEF JobsOK, ResolveUseExisting
      <4>2. job[j].input.body \in Contents
        BY <4>1, InputsAssumption DEF InputType
      <4> QED
        BY <3>1, <4>2 DEF ResolveUseExisting
    <3>2. CASE ResolveDiscard(j)
      <4>1. [job[j] EXCEPT !.status = "discarded"]
              = [job[j] EXCEPT !.status = "discarded", !.source = job[j].source]
        BY <1>a DEF JobRow
      <4>2. job[j].source \in Contents \cup {Null}
        BY <1>a DEF JobRow
      <4> QED
        BY <3>2, <4>1, <4>2 DEF ResolveDiscard
    <3> QED
      BY <1>4, <3>1, <3>2
  <2> DEFINE row == [job[j] EXCEPT !.status = s, !.source = c]
  <2>2. job[j].status = "captured" /\ UNCHANGED <<created, failures>>
    BY <1>4 DEF ResolveUseExisting, ResolveDiscard, clientVars
  <2>3. row \in JobRow /\ row.status = s /\ row.input = job[j].input
    BY <1>a DEF JobRow, JobStatus
  <2>4. job' = [job EXCEPT ![j] = row]
    BY <2>1
  <2> HIDE DEF row
  <2>5. RowStep(j)
    BY <1>0, <2>2, <2>3, <2>4 DEF RowStep, JobsOK, Ended
  <2> QED
    BY <1>0, <2>2, <2>3, <2>4, <2>5, RowWritten
<1>5. ASSUME NEW w \in Workers, RequeueQuotaBlocked(w) PROVE Rows
  <2> DEFINE S == {j \in Jobs : job[j].status = "quota_blocked" /\ job[j].reopened}
             row(j) == [job[j] EXCEPT !.status = "queued", !.reopened = FALSE]
  <2>1. /\ job' = [j \in Jobs |-> IF j \in S THEN row(j) ELSE job[j]]
        /\ UNCHANGED <<created, failures>>
    BY <1>5 DEF RequeueQuotaBlocked, clientVars
  <2>2. \A j \in Jobs : row(j) \in JobRow /\ row(j).status = "queued" /\ row(j).input = job[j].input
    BY <1>a DEF JobRow, JobStatus
  <2>3. \A j \in S : j \in Jobs /\ job[j].status = "quota_blocked"
    OBVIOUS
  <2> HIDE DEF row, S
  <2>4. JobsOK'
    BY <1>0, <2>1, <2>2, <2>3 DEF JobsOK
  <2>5. \A j \in Jobs : RowStep(j)
    BY <1>0, <2>1, <2>2, <2>3 DEF RowStep, Ended
  <2> QED
    BY <2>4, <2>5 DEF Rows
<1>6. ASSUME NEW w \in Workers, ReapStale(w) PROVE Rows
  <2>1. PICK S \in {Expired, Overdue} : ReapWith(S)
    BY <1>6 DEF ReapStale
  <2>2. \A j \in S : j \in Jobs /\ job[j].status = "running"
    BY DEF Expired, Overdue, WithStatus
  <2>3. /\ job' = [j \in Jobs |-> IF j \in S THEN Leave(job[j], "failed") ELSE job[j]]
        /\ failures' = [j \in Jobs |-> IF j \in S THEN failures[j] + 1 ELSE failures[j]]
        /\ UNCHANGED created
    BY <1>6, <2>1 DEF ReapStale, ReapWith, clientVars
  <2>4. \A j \in Jobs : /\ Leave(job[j], "failed") \in JobRow
                        /\ Leave(job[j], "failed").status = "failed"
                        /\ Leave(job[j], "failed").input = job[j].input
    BY <1>a, LeaveType DEF JobStatus
  <2>5. JobsOK'
    BY <1>0, <2>2, <2>3, <2>4 DEF JobsOK
  <2>6. \A j \in Jobs : RowStep(j)
    BY <1>0, <2>2, <2>3, <2>4 DEF RowStep, Ended
  <2> QED
    BY <2>5, <2>6 DEF Rows
<1>7. ASSUME NEW j \in Claimable, TakeLease(j), UNCHANGED <<created, failures>> PROVE Rows
  <2> DEFINE row == [job[j] EXCEPT !.status = "running", !.owner = claims[j] + 1]
  <2>1. j \in Jobs /\ job[j].status = "queued"
    BY <1>7 DEF Claimable, WithStatus
  <2>2. row \in JobRow /\ row.status = "running" /\ row.input = job[j].input
    <3>1. claims[j] + 1 \in Nat /\ job[j] \in JobRow
      BY <1>0, <1>a, <2>1
    <3> QED
      BY <3>1 DEF JobRow, JobStatus
  <2>3. job' = [job EXCEPT ![j] = row]
    BY <1>7 DEF TakeLease
  <2> HIDE DEF row
  <2>4. RowStep(j)
    BY <1>0, <1>7, <2>1, <2>2, <2>3 DEF RowStep, JobsOK, Ended
  <2> QED
    BY <1>0, <1>7, <2>1, <2>2, <2>3, <2>4, RowWritten
<1>8. ASSUME NEW w \in Workers, Claim(w) \/ SweepErrors(w) PROVE Rows
  <2>1. UNCHANGED <<created, failures>>
    BY <1>8 DEF Claim, SweepErrors, clientVars
  <2>2. UNCHANGED job \/ \E j \in Claimable : TakeLease(j)
    BY <1>8 DEF Claim, SweepErrors
  <2> QED
    BY <1>0, <1>7, <2>1, <2>2, RowsStay
<1>9. ASSUME NEW w \in Workers, FinishJob(w) \/ FinishErrors(w) PROVE Rows
  <2> DEFINE j == worker[w].job
             row == [Leave(job[j], "done") EXCEPT !.source = worker[w].source,
                                                  !.proposal = worker[w].proposal]
  <2>1. j \in Jobs /\ job[j].status # "none" /\ UNCHANGED <<created, failures>>
    BY <1>b, <1>9 DEF FinishJob, FinishErrors, endRest, clientVars, Processing
  <2>2. UNCHANGED job \/ (HoldsLease(w) /\ job' = [job EXCEPT ![j] = row])
    BY <1>9 DEF FinishJob, FinishErrors, FlipDone
  <2>3. row \in JobRow /\ row.status = "done" /\ row.input = job[j].input
    <3>1. /\ Leave(job[j], "done") \in JobRow
          /\ Leave(job[j], "done").status = "done"
          /\ Leave(job[j], "done").input = job[j].input
      BY <1>a, <2>1, LeaveType DEF JobStatus
    <3>2. worker[w].source \in Contents \cup {Null} /\ worker[w].proposal \in Jobs \cup {Null}
      BY <1>b DEF WorkerState
    <3> QED
      BY <3>1, <3>2 DEF JobRow
  <2> HIDE DEF row
  <2>4. ASSUME HoldsLease(w), job' = [job EXCEPT ![j] = row] PROVE RowStep(j)
    BY <1>0, <2>1, <2>3, <2>4 DEF RowStep, JobsOK, Ended, HoldsLease
  <2> QED
    BY <1>0, <2>1, <2>2, <2>3, <2>4, RowWritten, RowsStay
<1>10. ASSUME NEW w \in Workers, FailJob(w) PROVE Rows
  <2> DEFINE j == worker[w].job
             row == [Leave(job[j], "failed") EXCEPT !.source = worker[w].source]
  <2>1. j \in Jobs /\ job[j].status # "none" /\ UNCHANGED created
    BY <1>b, <1>10 DEF FailJob, endRest, clientVars, Processing
  <2>2. \/ UNCHANGED <<job, failures>>
        \/ /\ HoldsLease(w) /\ job' = [job EXCEPT ![j] = row]
           /\ failures' = [failures EXCEPT ![j] = @ + 1]
    BY <1>10 DEF FailJob, FlipFailed
  <2>3. row \in JobRow /\ row.status = "failed" /\ row.input = job[j].input
    BY <1>a, <1>b, <2>1, LeaveType DEF JobRow, JobStatus, WorkerState
  <2> HIDE DEF row
  <2>4. ASSUME HoldsLease(w), job' = [job EXCEPT ![j] = row],
               failures' = [failures EXCEPT ![j] = @ + 1]
        PROVE  RowStep(j)
    BY <1>0, <2>1, <2>3, <2>4 DEF RowStep, JobsOK, Ended, HoldsLease
  <2> QED
    BY <1>0, <2>1, <2>2, <2>3, <2>4, RowWritten, RowsStay
<1>11. ASSUME NEW w \in Workers, QuotaBlockJob(w) PROVE Rows
  <2> DEFINE j == worker[w].job
             row == Leave(job[j], "quota_blocked")
  <2>1. j \in Jobs /\ job[j].status # "none" /\ UNCHANGED <<created, failures>>
    BY <1>b, <1>11 DEF QuotaBlockJob, endRest, clientVars, Processing
  <2>2. UNCHANGED job \/ (HoldsLease(w) /\ job' = [job EXCEPT ![j] = row])
    BY <1>11 DEF QuotaBlockJob, FlipParked
  <2>3. row \in JobRow /\ row.status = "quota_blocked" /\ row.input = job[j].input
    BY <1>a, <2>1, LeaveType DEF JobStatus
  <2>4. worker[w].pc = "park" /\ worker'[w].pc = "stop"
    BY <1>0, <1>b, <1>11 DEF QuotaBlockJob, Goto, LoopsOK, WorkerState
  <2> HIDE DEF row
  <2>5. ASSUME HoldsLease(w), job' = [job EXCEPT ![j] = row] PROVE RowStep(j)
    BY <1>0, <2>1, <2>3, <2>4, <2>5 DEF RowStep, JobsOK, Ended, HoldsLease
  <2> QED
    BY <1>0, <2>1, <2>2, <2>3, <2>5, RowWritten, RowsStay
<1>12. ASSUME NEW j \in Jobs, NEW row \in JobRow, job' = [job EXCEPT ![j] = row],
              job[j].status # "none", row.status = job[j].status, row.input = job[j].input,
              row.source = job[j].source, row.proposal = job[j].proposal,
              UNCHANGED <<created, failures>>
       PROVE  Rows
  <2>1. RowStep(j)
    BY <1>0, <1>12 DEF RowStep, JobsOK
  <2> QED
    BY <1>0, <1>12, <2>1, RowWritten
<1>13. ASSUME NEW w \in Workers, Heartbeat(w) PROVE Rows
  <2> DEFINE j == worker[w].job
             row == [job[j] EXCEPT !.expired = FALSE]
  <2>1. j \in Jobs /\ job[j].status # "none"
    BY <1>b, <1>13 DEF Heartbeat, HoldsLease, WorkerState
  <2>2. /\ row \in JobRow /\ row.status = job[j].status /\ row.input = job[j].input
        /\ row.source = job[j].source /\ row.proposal = job[j].proposal
    BY <1>a, <2>1 DEF JobRow
  <2>3. job' = [job EXCEPT ![j] = row] /\ UNCHANGED <<created, failures>>
    BY <1>13 DEF Heartbeat, clientVars
  <2> HIDE DEF row
  <2> QED
    BY <1>12, <2>1, <2>2, <2>3
<1>14. ASSUME NEW j \in Jobs, LeaseExpires(j) \/ RuntimeExceeded(j) \/ ResumeAtPasses(j) PROVE Rows
  <2> DEFINE r1 == [job[j] EXCEPT !.expired = TRUE]
             r2 == [job[j] EXCEPT !.late = TRUE]
             r3 == [job[j] EXCEPT !.reopened = TRUE]
  <2>1. \A r \in {r1, r2, r3} :
          /\ r \in JobRow /\ r.status = job[j].status /\ r.input = job[j].input
          /\ r.source = job[j].source /\ r.proposal = job[j].proposal
    BY <1>a DEF JobRow
  <2>2. /\ \E r \in {r1, r2, r3} : job' = [job EXCEPT ![j] = r]
        /\ job[j].status # "none"
        /\ UNCHANGED <<created, failures>>
    BY <1>14 DEF LeaseExpires, RuntimeExceeded, ResumeAtPasses, clientVars
  <2> HIDE DEF r1, r2, r3
  <2> QED
    BY <1>12, <2>1, <2>2
<1>15. ASSUME UNCHANGED <<job, created, failures>> PROVE Rows
  BY <1>0, <1>15, RowsStay
<1>16. CASE ClientStep
  BY <1>1, <1>2, <1>3, <1>4, <1>15, <1>16
  DEF ClientStep, EnqueueUnchanged, EnqueueCheck, ResolveProcess, clientVars
<1>17. ASSUME NEW w \in Workers, LoopStep(w) PROVE Rows
  BY <1>5, <1>6, <1>8, <1>9, <1>10, <1>11, <1>15, <1>17
  DEF LoopStep, ClaimNothing, Archive, CheckReingest, PersistChunks, Classify, Synthesize,
      Propose, RetireSuperseded, StepFails, QuotaExhausted, EndIsLost, StopHeartbeat,
      jobRest, endRest, clientVars
<1>18. CASE Clock
  BY <1>14, <1>15, <1>18 DEF Clock, SourceAges, PauseEnds, clientVars
<1>19. CASE UNCHANGED vars
  BY <1>15, <1>19 DEF vars
<1> QED
  BY <1>8, <1>13, <1>15, <1>16, <1>17, <1>18, <1>19
  DEF Next, Start, Crash, Review, UnindexAgedSources, BackfillChunks, clientVars

-----------------------------------------------------------------------------
(* Loops. *)

Archived == {"check", "chunk", "classify", "synthesize", "propose", "retire"}

(* What a step may do to loop w: it works on the job it has, or takes a     *)
(* queued one while the others stand still; it is past the archive because  *)
(* the source is archived, and about to retire because it has proposed.     *)
LoopMove(w) ==
  /\ worker'[w].pc \in Processing =>
       \/ worker[w].pc \in Processing /\ worker'[w].job = worker[w].job
       \/ /\ worker[w].pc \notin Processing
          /\ worker'[w].job \in Jobs
          /\ job[worker'[w].job].status = "queued" /\ job'[worker'[w].job].status = "running"
          /\ \A v \in Workers \ {w} : worker'[v] = worker[v]
  /\ worker'[w].pc \in Archived =>
       \/ worker[w].pc \in Archived
       \/ worker[w].pc = "acquire" /\ source'[Body(w)].archived
  /\ worker'[w].pc = "retire" => worker'[w] = worker[w] \/ Propose(w)
  /\ \/ worker'[w].job = worker[w].job /\ worker'[w].token = worker[w].token
     \/ worker'[w].job = Null
     \/ \E j \in Claimable : TakeLease(j) /\ worker'[w].job = j

Loops == LoopsOK' /\ \A w \in Workers : LoopMove(w)

LEMMA LoopsStay ==
  ASSUME LoopsOK, JobsOK, JobsOK', UNCHANGED worker, created <= created', paused' \subseteq Processes
  PROVE  Loops
<1>1. created \in Nat /\ created' \in Nat
  BY BoundsAssumption DEF JobsOK
<1>2. LoopsOK'
  BY <1>1 DEF LoopsOK
<1> QED
  BY <1>2 DEF Loops, LoopMove

(* Loop w is given a new local state. *)
LEMMA LoopWritten ==
  ASSUME LoopsOK, NEW w \in Workers, NEW s \in WorkerState,
         s.pc \in Processing => s.job \in 1 .. created,
         worker' = [worker EXCEPT ![w] = s], UNCHANGED created, paused' \subseteq Processes,
         LoopMove(w)
  PROVE  Loops
<1>1. LoopsOK'
  BY DEF LoopsOK
<1>2. \A v \in Workers : LoopMove(v)
  BY DEF LoopMove, LoopsOK
<1> QED
  BY <1>1, <1>2 DEF Loops

(* Where a loop may go with the job it has. *)
MayGo(w, pc) ==
  /\ pc \in Processing => worker[w].pc \in Processing
  /\ pc \in Archived =>
       \/ worker[w].pc \in Archived
       \/ worker[w].pc = "acquire" /\ source'[Body(w)].archived
  /\ pc = "retire" => Propose(w)

Becomes(w, s) == worker' = [worker EXCEPT ![w] = s]

(* ... in which it is at the same job. *)
LEMMA LoopContinues ==
  ASSUME LoopsOK, NEW w \in Workers, NEW s \in WorkerState,
         s.job = worker[w].job, s.token = worker[w].token, MayGo(w, s.pc), Becomes(w, s),
         UNCHANGED created, paused' \subseteq Processes
  PROVE  Loops
<1>1. worker' = [worker EXCEPT ![w] = s] /\ worker'[w] = s
  BY DEF LoopsOK, Becomes
<1>2. LoopMove(w)
  BY <1>1 DEF LoopMove, MayGo
<1>3. s.pc \in Processing => s.job \in 1 .. created
  BY DEF LoopsOK, MayGo
<1> QED
  BY <1>1, <1>2, <1>3, LoopWritten

LEMMA LoopGoes ==
  ASSUME LoopsOK, NEW w \in Workers, NEW pc \in (Sweeping \cup Processing \cup {"stop"}) \ {"retire"},
         pc \in Processing => worker[w].pc \in Processing,
         pc \in Archived => worker[w].pc \in Archived,
         Goto(w, pc), UNCHANGED created, paused' \subseteq Processes
  PROVE  Loops
<1> DEFINE s == [worker[w] EXCEPT !.pc = pc]
<1>1. worker[w] \in WorkerState
  BY DEF LoopsOK
<1>2. s \in WorkerState /\ s.pc = pc /\ s.job = worker[w].job /\ s.token = worker[w].token
  BY <1>1 DEF WorkerState
<1>3. Becomes(w, s)
  BY DEF Goto, Becomes
<1> HIDE DEF s
<1>4. MayGo(w, s.pc)
  BY <1>2 DEF MayGo
<1> QED
  BY <1>2, <1>3, <1>4, LoopContinues

(* ... in which it is at no job. *)
LEMMA LoopRestarts ==
  ASSUME LoopsOK, NEW w \in Workers, worker' = [worker EXCEPT ![w] = Loop("idle")],
         UNCHANGED created, paused' \subseteq Processes
  PROVE  Loops
<1>1. Loop("idle") \in WorkerState /\ Loop("idle").pc = "idle" /\ Loop("idle").job = Null
  BY DEF Loop, WorkerState, Sweeping
<1>2. worker'[w].pc = "idle" /\ worker'[w].job = Null
  BY <1>1 DEF LoopsOK
<1>3. LoopMove(w)
  BY <1>2 DEF LoopMove, Processing, Archived
<1> QED
  BY <1>1, <1>3, LoopWritten DEF Processing

LEMMA LoopsStep == TypeOK /\ [Next]_vars => Loops
<1> SUFFICES ASSUME TypeOK, [Next]_vars PROVE Loops
  OBVIOUS
<1>0. JobsOK /\ ArchiveOK /\ LoopsOK /\ paused \subseteq Processes /\ claims \in [Jobs -> Nat]
  BY DEF TypeOK, LoopsOK, CountsOK
<1>a. \A w \in Workers :
        /\ worker[w] \in WorkerState
        /\ worker[w].pc \in Processing =>
             worker[w].job \in Jobs /\ Input(w) \in Inputs /\ Body(w) \in Contents
  <2>1. ASSUME NEW w \in Workers, worker[w].pc \in Processing
        PROVE  worker[w].job \in Jobs /\ Input(w) \in Inputs
    BY <1>0, <2>1, BoundsAssumption DEF LoopsOK, JobsOK, Jobs, Input
  <2> QED
    BY <1>0, <2>1, InputsAssumption DEF LoopsOK, InputType, Body
<1>1. ASSUME NEW w \in Workers,
             \/ RequeueQuotaBlocked(w) \/ ReapStale(w) \/ ClaimNothing(w) \/ SweepErrors(w)
             \/ Synthesize(w) \/ RetireSuperseded(w) \/ QuotaExhausted(w)
             \/ FinishJob(w) \/ FailJob(w) \/ QuotaBlockJob(w) \/ EndIsLost(w)
      PROVE  Loops
  <2>1. UNCHANGED created /\ paused' \subseteq Processes
    BY <1>0, <1>1, ProcessAssumption
    DEF RequeueQuotaBlocked, ReapStale, ClaimNothing, SweepErrors, Synthesize, RetireSuperseded,
        QuotaExhausted, FinishJob, FailJob, QuotaBlockJob, EndIsLost, jobRest, endRest, clientVars
  <2>2. \E pc \in (Sweeping \cup Processing \cup {"stop"}) \ {"retire"} :
          /\ pc \in Processing => worker[w].pc \in Processing
          /\ pc \in Archived => worker[w].pc \in Archived
          /\ Goto(w, pc)
    <3>1. CASE RequeueQuotaBlocked(w) \/ ReapStale(w) \/ ClaimNothing(w) \/ SweepErrors(w)
      BY <3>1 DEF RequeueQuotaBlocked, ReapStale, ClaimNothing, SweepErrors, Sweeping, Processing, Archived
    <3>2. CASE Synthesize(w) \/ RetireSuperseded(w) \/ QuotaExhausted(w)
      BY <3>2 DEF Synthesize, RetireSuperseded, QuotaExhausted, Processing, Archived
    <3>3. CASE FinishJob(w) \/ FailJob(w) \/ QuotaBlockJob(w) \/ EndIsLost(w)
      BY <3>3 DEF FinishJob, FailJob, QuotaBlockJob, EndIsLost, Processing, Archived
    <3> QED
      BY <1>1, <3>1, <3>2, <3>3
  <2> QED
    BY <1>0, <2>1, <2>2, LoopGoes
<1>2. ASSUME NEW w \in Workers, Archive(w) PROVE Loops
  <2> DEFINE s == [worker[w] EXCEPT !.pc = "check", !.fresh = ~source[Body(w)].archived]
  <2>1. Becomes(w, s) /\ worker[w].pc = "acquire" /\ UNCHANGED <<created, paused>>
    BY <1>2 DEF Archive, Becomes, jobRest, clientVars
  <2>2. s \in WorkerState /\ s.pc = "check" /\ s.job = worker[w].job /\ s.token = worker[w].token
    BY <1>a DEF WorkerState, Processing
  <2>3. source'[Body(w)].archived
    BY <1>0, <1>2, <1>a, <2>1 DEF Archive, RecordVersion, ArchiveOK, SourceRow, Processing
  <2> HIDE DEF s
  <2>4. MayGo(w, s.pc)
    BY <2>1, <2>2, <2>3 DEF MayGo, Processing
  <2> QED
    BY <1>0, <2>1, <2>2, <2>4, LoopContinues
<1>3. ASSUME NEW w \in Workers, CheckReingest(w) PROVE Loops
  <2>1. worker[w].pc = "check" /\ UNCHANGED <<created, paused>> /\ Body(w) \in Contents
    BY <1>3, <1>a DEF CheckReingest, jobRest, clientVars, Processing
  <2>2. \E s \in WorkerState : /\ Becomes(w, s) /\ s.job = worker[w].job /\ s.token = worker[w].token
                               /\ s.pc \in {"chunk", "finish", "fail"}
    <3>1. CASE worker' = [worker EXCEPT ![w].pc = "chunk", ![w].fresh = FALSE]
      <4>1. /\ [worker[w] EXCEPT !.pc = "chunk", !.fresh = FALSE] \in WorkerState
            /\ [worker[w] EXCEPT !.pc = "chunk", !.fresh = FALSE].job = worker[w].job
            /\ [worker[w] EXCEPT !.pc = "chunk", !.fresh = FALSE].token = worker[w].token
            /\ [worker[w] EXCEPT !.pc = "chunk", !.fresh = FALSE].pc = "chunk"
        BY <1>a DEF WorkerState, Processing
      <4> QED
        BY <3>1, <4>1 DEF Becomes
    <3>2. ASSUME NEW q \in Jobs \cup {Null},
                 worker' = [worker EXCEPT ![w].pc = "finish", ![w].source = Body(w), ![w].proposal = q]
          PROVE  <2>2!:
      <4> DEFINE s == [worker[w] EXCEPT !.pc = "finish", !.source = Body(w), !.proposal = q]
      <4>1. s \in WorkerState /\ s.job = worker[w].job /\ s.token = worker[w].token /\ s.pc = "finish"
        BY <1>a, <2>1 DEF WorkerState, Processing
      <4>2. Becomes(w, s)
        BY <3>2 DEF Becomes
      <4> HIDE DEF s
      <4> QED
        BY <4>1, <4>2
    <3>3. CASE worker' = [worker EXCEPT ![w].pc = "fail", ![w].source = Body(w)]
      <4> DEFINE s == [worker[w] EXCEPT !.pc = "fail", !.source = Body(w)]
      <4>1. s \in WorkerState /\ s.job = worker[w].job /\ s.token = worker[w].token /\ s.pc = "fail"
        BY <1>a, <2>1 DEF WorkerState, Processing
      <4>2. Becomes(w, s)
        BY <3>3 DEF Becomes
      <4> HIDE DEF s
      <4> QED
        BY <4>1, <4>2
    <3> QED
      BY <1>3, <3>1, <3>2, <3>3 DEF CheckReingest, Under
  <2>3. PICK s \in WorkerState : /\ Becomes(w, s) /\ s.job = worker[w].job /\ s.token = worker[w].token
                                 /\ s.pc \in {"chunk", "finish", "fail"}
    BY <2>2
  <2>4. MayGo(w, s.pc)
    BY <2>1, <2>3 DEF MayGo, Processing, Archived
  <2> QED
    BY <1>0, <2>1, <2>3, <2>4, LoopContinues
<1>4. ASSUME NEW w \in Workers, PersistChunks(w) \/ Classify(w) PROVE Loops
  <2> DEFINE s == [worker[w] EXCEPT !.pc = "finish", !.source = Body(w)]
  <2>1. worker[w].pc \in {"chunk", "classify"} /\ UNCHANGED <<created, paused>> /\ Body(w) \in Contents
    BY <1>4, <1>a DEF PersistChunks, Classify, jobRest, clientVars, Processing
  <2>2. s \in WorkerState /\ s.pc = "finish" /\ s.job = worker[w].job /\ s.token = worker[w].token
    BY <1>a, <2>1 DEF WorkerState, Processing
  <2>3. Becomes(w, s) \/ \E pc \in {"classify", "synthesize"} : Goto(w, pc)
    BY <1>4 DEF PersistChunks, Classify, Becomes
  <2> HIDE DEF s
  <2>4. CASE Becomes(w, s)
    <3>1. MayGo(w, s.pc)
      BY <2>1, <2>2 DEF MayGo, Processing, Archived
    <3> QED
      BY <1>0, <2>1, <2>2, <2>4, <3>1, LoopContinues
  <2>5. CASE \E pc \in {"classify", "synthesize"} : Goto(w, pc)
    BY <1>0, <2>1, <2>5, LoopGoes DEF Processing, Archived
  <2> QED
    BY <2>3, <2>4, <2>5
<1>5. ASSUME NEW w \in Workers, Propose(w) PROVE Loops
  <2>1. worker[w].pc = "propose" /\ UNCHANGED <<created, paused>>
    BY <1>5 DEF Propose, jobRest, clientVars
  <2>2. worker[w].job \in Jobs /\ Body(w) \in Contents
    BY <1>a, <2>1 DEF Processing
  <2>3. PICK pc \in {"finish", "retire"}, q \in Jobs :
          worker' = [worker EXCEPT ![w].pc = pc, ![w].source = Body(w), ![w].proposal = q]
    BY <1>5, <2>2 DEF Propose, PendingOf
  <2> DEFINE s == [worker[w] EXCEPT !.pc = pc, !.source = Body(w), !.proposal = q]
  <2>4. s \in WorkerState /\ s.pc = pc /\ s.job = worker[w].job /\ s.token = worker[w].token
    BY <1>a, <2>2 DEF WorkerState, Processing
  <2>5. Becomes(w, s)
    BY <2>3 DEF Becomes
  <2> HIDE DEF s
  <2>6. MayGo(w, s.pc)
    BY <1>5, <2>1, <2>4 DEF MayGo, Processing, Archived
  <2> QED
    BY <1>0, <1>5, <2>1, <2>4, <2>5, <2>6, LoopContinues
<1>6. ASSUME NEW w \in Workers, StepFails(w) \/ FinishErrors(w) PROVE Loops
  <2>1. worker[w].pc \in Processing /\ UNCHANGED <<created, paused>>
    BY <1>6 DEF StepFails, FinishErrors, jobRest, endRest, clientVars, Processing
  <2> DEFINE r1 == [worker[w] EXCEPT !.pc = "fail", !.fresh = FALSE, !.source = Null, !.proposal = Null]
             r2 == [worker[w] EXCEPT !.pc = "fail", !.proposal = Null]
  <2>2. \A s \in {r1, r2} : s \in WorkerState /\ s.pc = "fail" /\ s.job = worker[w].job /\ s.token = worker[w].token
    BY <1>a DEF WorkerState, Processing
  <2>3. \E s \in {r1, r2} : Becomes(w, s)
    BY <1>6 DEF StepFails, FinishErrors, Becomes
  <2>4. MayGo(w, "fail")
    BY <2>1 DEF MayGo, Archived
  <2> HIDE DEF r1, r2
  <2> QED
    BY <1>0, <2>1, <2>2, <2>3, <2>4, LoopContinues
<1>7. ASSUME NEW w \in Workers, Claim(w) PROVE Loops
  <2>1. PICK j \in Claimable :
          /\ TakeLease(j)
          /\ worker' = [worker EXCEPT ![w] = [Loop("acquire") EXCEPT !.job = j, !.token = claims[j] + 1]]
    BY <1>7 DEF Claim
  <2> DEFINE s == [Loop("acquire") EXCEPT !.job = j, !.token = claims[j] + 1]
  <2>2. j \in Jobs /\ job[j].status = "queued" /\ j \in 1 .. created
    BY <1>0 DEF Claimable, WithStatus, JobsOK, Jobs
  <2>3. s \in WorkerState /\ s.pc = "acquire" /\ s.job = j
    <3>1. claims[j] + 1 \in Nat
      BY <1>0, <2>2
    <3> QED
      BY <2>2, <3>1 DEF Loop, WorkerState, Processing
  <2>4. job'[j].status = "running"
    BY <1>0, <2>1, <2>2 DEF TakeLease, JobsOK, JobRow
  <2>5. /\ worker[w].pc = "swept" /\ UNCHANGED <<created, paused>>
        /\ worker' = [worker EXCEPT ![w] = s]
    BY <1>7, <2>1 DEF Claim, clientVars
  <2> HIDE DEF s
  <2>6. LoopMove(w)
    BY <1>0, <2>1, <2>2, <2>3, <2>4, <2>5 DEF LoopMove, LoopsOK, Processing, Archived
  <2> QED
    BY <1>0, <2>2, <2>3, <2>5, <2>6, LoopWritten
<1>8. ASSUME NEW w \in Workers, StopHeartbeat(w) \/ Start(w) PROVE Loops
  BY <1>0, <1>8, LoopRestarts DEF StopHeartbeat, Start, endRest, clientVars
<1>9. ASSUME NEW p \in Processes, Crash(p) PROVE Loops
  <2>1. /\ worker' = [w \in Workers |-> IF ProcessOf[w] = p THEN Loop("down") ELSE worker[w]]
        /\ UNCHANGED created /\ paused' \subseteq Processes
    BY <1>0, <1>9 DEF Crash, clientVars
  <2>2. Loop("down") \in WorkerState /\ Loop("down").pc = "down" /\ Loop("down").job = Null
    BY DEF Loop, WorkerState
  <2>3. LoopsOK'
    BY <1>0, <2>1, <2>2 DEF LoopsOK, Processing
  <2>4. \A w \in Workers : LoopMove(w)
    BY <2>1, <2>2 DEF LoopMove, Processing, Archived
  <2> QED
    BY <2>3, <2>4 DEF Loops
<1>10. ASSUME UNCHANGED worker, created' = created \/ created' = created + 1, paused' \subseteq Processes
       PROVE  Loops
  <2>1. JobsOK'
    BY RowsStep DEF Rows
  <2>2. created \in Nat
    BY <1>0 DEF JobsOK
  <2> QED
    BY <1>0, <1>10, <2>1, <2>2, LoopsStay
<1>11. CASE ClientStep
  BY <1>0, <1>10, <1>11
  DEF ClientStep, EnqueueCapture, EnqueueUnchanged, EnqueueCheck, EnqueueInsert, ResolveProcess,
      ResolveQueued, ResolveUseExisting, ResolveDiscard, Insert, clientVars
<1>12. ASSUME NEW w \in Workers, LoopStep(w) PROVE Loops
  BY <1>1, <1>2, <1>3, <1>4, <1>5, <1>6, <1>7, <1>8, <1>12 DEF LoopStep
<1>13. CASE Clock
  BY <1>0, <1>10, <1>13
  DEF Clock, LeaseExpires, RuntimeExceeded, ResumeAtPasses, SourceAges, PauseEnds, clientVars
<1>14. CASE UNCHANGED vars
  BY <1>0, <1>10, <1>14 DEF vars
<1> QED
  BY <1>0, <1>1, <1>8, <1>9, <1>10, <1>11, <1>12, <1>13, <1>14
  DEF Next, Heartbeat, Review, UnindexAgedSources, BackfillChunks, clientVars

-----------------------------------------------------------------------------
(* The archive, the requests, the counters and the proposals. *)

(* An archived source is never rewritten. *)
SourcesKept == \A c \in Contents : source[c].archived => source'[c] = source[c]

LEMMA VersionRecorded ==
  ASSUME ArchiveOK, NEW c \in Contents, NEW s \in Streams \cup {Null}, RecordVersion(c, s),
         chunked' \subseteq Contents, UNCHANGED aged
  PROVE  ArchiveOK' /\ SourcesKept
<1>1. head' \in [Streams -> Contents \cup {Null}]
  BY NullAssumption DEF RecordVersion, ArchiveOK
<1>2. [archived |-> TRUE, supersedes |-> IF s = Null THEN Null ELSE head[s]] \in SourceRow
  BY DEF ArchiveOK, SourceRow
<1>3. source' \in [Contents -> SourceRow]
  BY <1>2 DEF RecordVersion, ArchiveOK
<1>4. SourcesKept
  BY DEF RecordVersion, ArchiveOK, SourcesKept
<1> QED
  BY <1>1, <1>3, <1>4 DEF ArchiveOK

LEMMA ArchiveStep == TypeOK /\ [Next]_vars => ArchiveOK' /\ SourcesKept
<1> SUFFICES ASSUME TypeOK, [Next]_vars PROVE ArchiveOK' /\ SourcesKept
  OBVIOUS
<1>0. ArchiveOK /\ JobsOK /\ LoopsOK
  BY DEF TypeOK
<1>1. ASSUME NEW i \in Inputs, EnqueueUnchanged(i) PROVE ArchiveOK' /\ SourcesKept
  <2>1. i.body \in Contents /\ i.stream \in Streams \cup {Null}
    BY InputsAssumption DEF InputType
  <2> QED
    BY <1>0, <1>1, <2>1, VersionRecorded DEF EnqueueUnchanged, ArchiveOK
<1>2. ASSUME NEW w \in Workers, worker[w].pc \in Processing
      PROVE  Body(w) \in Contents /\ Input(w).stream \in Streams \cup {Null}
  <2>1. Input(w) \in Inputs
    BY <1>0, <1>2, BoundsAssumption DEF LoopsOK, JobsOK, Jobs, Input
  <2> QED
    BY <2>1, InputsAssumption DEF InputType, Body
<1>3. ASSUME NEW w \in Workers, Archive(w) PROVE ArchiveOK' /\ SourcesKept
  BY <1>0, <1>2, <1>3, VersionRecorded DEF Archive, ArchiveOK, Processing
<1>4. ASSUME UNCHANGED <<source, head>>, chunked' \subseteq Contents, aged' \subseteq Contents
      PROVE  ArchiveOK' /\ SourcesKept
  BY <1>0, <1>4 DEF ArchiveOK, SourcesKept
<1>5. ASSUME NEW w \in Workers, PersistChunks(w) PROVE ArchiveOK' /\ SourcesKept
  BY <1>0, <1>2, <1>4, <1>5 DEF PersistChunks, ArchiveOK, Processing
<1>6. chunked \subseteq Contents /\ aged \subseteq Contents
  BY <1>0 DEF ArchiveOK
<1>7. CASE ClientStep
  BY <1>1, <1>4, <1>6, <1>7
  DEF ClientStep, EnqueueCapture, EnqueueCheck, EnqueueInsert, ResolveProcess, ResolveQueued,
      ResolveUseExisting, ResolveDiscard, archiveVars
<1>8. ASSUME NEW w \in Workers, LoopStep(w) PROVE ArchiveOK' /\ SourcesKept
  BY <1>3, <1>4, <1>5, <1>6, <1>8
  DEF LoopStep, RequeueQuotaBlocked, ReapStale, Claim, ClaimNothing, CheckReingest, Classify,
      Synthesize, Propose, RetireSuperseded, StepFails, QuotaExhausted, FinishJob, FinishErrors,
      FailJob, QuotaBlockJob, EndIsLost, StopHeartbeat, archiveVars, endRest
<1>9. CASE Clock
  BY <1>4, <1>6, <1>9
  DEF Clock, LeaseExpires, RuntimeExceeded, ResumeAtPasses, SourceAges, PauseEnds, archiveVars
<1>10. CASE UnindexAgedSources \/ \E c \in Contents : BackfillChunks(c)
  BY <1>4, <1>6, <1>10 DEF UnindexAgedSources, BackfillChunks
<1>11. CASE UNCHANGED vars
  BY <1>4, <1>6, <1>11 DEF vars
<1> QED
  BY <1>4, <1>6, <1>7, <1>8, <1>9, <1>10, <1>11
  DEF Next, SweepErrors, Heartbeat, Start, Crash, Review, archiveVars

LEMMA RequestsStep == TypeOK /\ [Next]_vars => RequestsOK'
<1> SUFFICES ASSUME TypeOK, [Next]_vars PROVE RequestsOK'
  OBVIOUS
<1>0. RequestsOK /\ JobsOK
  BY DEF TypeOK
<1>a. created \in Nat /\ NoRequest \in ClientState /\ NoRequest.step = "none"
  BY <1>0 DEF JobsOK, NoRequest, ClientState
<1>1. ASSUME NEW r \in Clients, NEW s \in ClientState,
             client' = [client EXCEPT ![r] = s], created' \in {created, created + 1},
             s.step = "insert" => s.input \in Inputs,
             s.step = "process" => s.job \in 1 .. created
      PROVE  RequestsOK'
  BY <1>0, <1>1, <1>a DEF RequestsOK
<1>2. ASSUME NEW r \in Clients, NEW i \in Inputs, EnqueueCheck(r, i) PROVE RequestsOK'
  <2> DEFINE s == [NoRequest EXCEPT !.step = "insert", !.input = i]
  <2>1. s \in ClientState /\ s.step = "insert" /\ s.input = i
    BY DEF NoRequest, ClientState
  <2>2. client' = [client EXCEPT ![r] = s] /\ created' = created
    BY <1>2 DEF EnqueueCheck
  <2> HIDE DEF s
  <2> QED
    BY <1>1, <2>1, <2>2
<1>3. ASSUME NEW r \in Clients, NEW j \in Jobs, ResolveProcess(r, j) PROVE RequestsOK'
  <2> DEFINE s == [NoRequest EXCEPT !.step = "process", !.job = j]
  <2>1. s \in ClientState /\ s.step = "process" /\ s.job = j
    BY DEF NoRequest, ClientState
  <2>2. client' = [client EXCEPT ![r] = s] /\ created' = created
    BY <1>3 DEF ResolveProcess
  <2>3. j \in 1 .. created
    BY <1>0, <1>3 DEF ResolveProcess, JobsOK, Jobs
  <2> HIDE DEF s
  <2> QED
    BY <1>1, <2>1, <2>2, <2>3
<1>4. ASSUME NEW r \in Clients, EnqueueInsert(r) \/ ResolveQueued(r) PROVE RequestsOK'
  <2>1. client' = [client EXCEPT ![r] = NoRequest] /\ created' \in {created, created + 1}
    BY <1>4 DEF EnqueueInsert, ResolveQueued, Insert
  <2> QED
    BY <1>1, <1>a, <2>1
<1>5. ASSUME UNCHANGED client, created' \in {created, created + 1} PROVE RequestsOK'
  BY <1>0, <1>5, <1>a DEF RequestsOK
<1>6. CASE ClientStep
  BY <1>2, <1>3, <1>4, <1>5, <1>6
  DEF ClientStep, EnqueueCapture, EnqueueUnchanged, ResolveUseExisting, ResolveDiscard, Insert, clientVars
<1>7. ASSUME NEW w \in Workers, LoopStep(w) PROVE RequestsOK'
  BY <1>5, <1>7
  DEF LoopStep, RequeueQuotaBlocked, ReapStale, Claim, ClaimNothing, Archive, CheckReingest,
      PersistChunks, Classify, Synthesize, Propose, RetireSuperseded, StepFails, QuotaExhausted,
      FinishJob, FinishErrors, FailJob, QuotaBlockJob, EndIsLost, StopHeartbeat, clientVars,
      jobRest, endRest
<1>8. CASE Clock
  BY <1>5, <1>8
  DEF Clock, LeaseExpires, RuntimeExceeded, ResumeAtPasses, SourceAges, PauseEnds, clientVars
<1>9. CASE UNCHANGED vars
  BY <1>5, <1>9 DEF vars
<1> QED
  BY <1>5, <1>6, <1>7, <1>8, <1>9
  DEF Next, SweepErrors, Heartbeat, Start, Crash, Review, UnindexAgedSources, BackfillChunks, clientVars

LEMMA CountsStep == TypeOK /\ [Next]_vars => CountsOK'
<1> SUFFICES ASSUME TypeOK, [Next]_vars PROVE CountsOK'
  OBVIOUS
<1>0. CountsOK
  BY DEF TypeOK
<1>1. ASSUME NEW w \in Workers, Claim(w) \/ SweepErrors(w) PROVE CountsOK'
  <2>1. /\ UNCHANGED claims \/ \E j \in Jobs : claims' = [claims EXCEPT ![j] = @ + 1]
        /\ UNCHANGED <<failures, quotas>> /\ crashes' \in {crashes, crashes + 1}
    BY <1>1 DEF Claim, SweepErrors, TakeLease, Claimable, WithStatus, budgetVars
  <2> QED
    BY <1>0, <2>1 DEF CountsOK
<1>2. ASSUME NEW w \in Workers, ReapStale(w) PROVE CountsOK'
  <2>1. /\ \E S \in {Expired, Overdue} :
             failures' = [j \in Jobs |-> IF j \in S THEN failures[j] + 1 ELSE failures[j]]
        /\ UNCHANGED <<claims, crashes, quotas>>
    BY <1>2 DEF ReapStale, ReapWith, budgetVars
  <2> QED
    BY <1>0, <2>1 DEF CountsOK
<1>3. ASSUME NEW w \in Workers, FailJob(w) PROVE CountsOK'
  <2>1. /\ UNCHANGED failures \/ failures' = [failures EXCEPT ![worker[w].job] = @ + 1]
        /\ UNCHANGED <<claims, crashes, quotas>>
    BY <1>3 DEF FailJob, FlipFailed, endRest, budgetVars
  <2> QED
    BY <1>0, <2>1 DEF CountsOK
<1>4. ASSUME UNCHANGED <<claims, failures>>, crashes' \in {crashes, crashes + 1},
             quotas' \in {quotas, quotas + 1}
      PROVE  CountsOK'
  BY <1>0, <1>4 DEF CountsOK
<1>5. CASE ClientStep
  BY <1>4, <1>5
  DEF ClientStep, EnqueueCapture, EnqueueUnchanged, EnqueueCheck, EnqueueInsert, ResolveProcess,
      ResolveQueued, ResolveUseExisting, ResolveDiscard, budgetVars
<1>6. ASSUME NEW w \in Workers, LoopStep(w) PROVE CountsOK'
  BY <1>1, <1>2, <1>3, <1>4, <1>6
  DEF LoopStep, RequeueQuotaBlocked, ClaimNothing, Archive, CheckReingest, PersistChunks, Classify,
      Synthesize, Propose, RetireSuperseded, StepFails, QuotaExhausted, FinishJob, FinishErrors,
      QuotaBlockJob, EndIsLost, StopHeartbeat, budgetVars, jobRest, endRest
<1>7. CASE Clock
  BY <1>4, <1>7
  DEF Clock, LeaseExpires, RuntimeExceeded, ResumeAtPasses, SourceAges, PauseEnds, budgetVars
<1>8. CASE UNCHANGED vars
  BY <1>4, <1>8 DEF vars
<1> QED
  BY <1>1, <1>4, <1>5, <1>6, <1>7, <1>8
  DEF Next, Heartbeat, Start, Crash, Review, UnindexAgedSources, BackfillChunks, budgetVars

(* Who writes proposals. *)
LEMMA ProposalWriters ==
  [Next]_vars => \/ UNCHANGED proposal
                 \/ \E w \in Workers : Propose(w) \/ RetireSuperseded(w)
                 \/ \E q \in Jobs : Review(q)
<1> SUFFICES ASSUME [Next]_vars, proposal' # proposal
             PROVE  \/ \E w \in Workers : Propose(w) \/ RetireSuperseded(w)
                    \/ \E q \in Jobs : Review(q)
  OBVIOUS
<1>1. ~ClientStep
  BY DEF ClientStep, EnqueueCapture, EnqueueUnchanged, EnqueueCheck, EnqueueInsert, ResolveProcess,
         ResolveQueued, ResolveUseExisting, ResolveDiscard
<1>2. ASSUME NEW w \in Workers, LoopStep(w) PROVE Propose(w) \/ RetireSuperseded(w)
  BY <1>2
  DEF LoopStep, RequeueQuotaBlocked, ReapStale, Claim, ClaimNothing, Archive, CheckReingest,
      PersistChunks, Classify, Synthesize, StepFails, QuotaExhausted, FinishJob, FinishErrors,
      FailJob, QuotaBlockJob, EndIsLost, StopHeartbeat, endRest
<1>3. ~Clock
  BY DEF Clock, LeaseExpires, RuntimeExceeded, ResumeAtPasses, SourceAges, PauseEnds
<1> QED
  BY <1>1, <1>2, <1>3
  DEF Next, SweepErrors, Heartbeat, Start, Crash, UnindexAgedSources, BackfillChunks, vars

LEMMA ProposalsStep == TypeOK /\ [Next]_vars => proposal' \in [Jobs -> ProposalRow]
<1> SUFFICES ASSUME TypeOK, [Next]_vars PROVE proposal' \in [Jobs -> ProposalRow]
  OBVIOUS
<1>0. proposal \in [Jobs -> ProposalRow] /\ LoopsOK /\ JobsOK
  BY DEF TypeOK
<1>1. ASSUME NEW w \in Workers, Propose(w) PROVE proposal' \in [Jobs -> ProposalRow]
  <2>1. worker[w].pc \in Processing
    BY <1>1 DEF Propose, Processing
  <2>2. Input(w) \in Inputs
    BY <1>0, <2>1, BoundsAssumption DEF LoopsOK, JobsOK, Jobs, Input
  <2>3. [status |-> "pending", source |-> Body(w)] \in ProposalRow
    BY <2>2, InputsAssumption DEF InputType, Body, ProposalRow
  <2> QED
    BY <1>0, <1>1, <2>3 DEF Propose
<1>2. ASSUME NEW w \in Workers, RetireSuperseded(w) PROVE proposal' \in [Jobs -> ProposalRow]
  BY <1>0, <1>2 DEF RetireSuperseded, ProposalRow
<1>3. ASSUME NEW q \in Jobs, Review(q) PROVE proposal' \in [Jobs -> ProposalRow]
  BY <1>0, <1>3 DEF Review, ProposalRow
<1> QED
  BY <1>0, <1>1, <1>2, <1>3, ProposalWriters

LEMMA InitTypes == Init => TypeOK
<1> SUFFICES ASSUME Init PROVE TypeOK
  OBVIOUS
<1>1. JobsOK
  <2>1. NoJob \in JobRow /\ NoJob.status = "none"
    BY DEF NoJob, JobRow, JobStatus
  <2>2. MaxJobs \in Nat
    BY BoundsAssumption
  <2> QED
    BY <2>1, <2>2 DEF Init, JobsOK, Jobs
<1>2. ArchiveOK
  BY DEF Init, ArchiveOK, SourceRow
<1>3. LoopsOK
  <2>1. Loop("idle") \in WorkerState /\ Loop("idle").pc = "idle"
    BY DEF Loop, WorkerState, Sweeping
  <2> QED
    BY <2>1 DEF Init, LoopsOK, Processing
<1>4. RequestsOK
  BY DEF Init, RequestsOK, ClientState, NoRequest
<1>5. CountsOK
  BY DEF Init, CountsOK
<1>6. proposal \in [Jobs -> ProposalRow]
  BY DEF Init, ProposalRow
<1> QED
  BY <1>1, <1>2, <1>3, <1>4, <1>5, <1>6 DEF TypeOK

LEMMA TypeStep == TypeOK /\ [Next]_vars => TypeOK'
BY RowsStep, LoopsStep, ArchiveStep, RequestsStep, CountsStep, ProposalsStep
DEF Rows, Loops, TypeOK

(* The rows of the pipeline, its loops and its requests have their types,   *)
(* for any number of each (IngestQueue.TypeOK).                             *)
THEOREM PipelineTypes == Spec => []TypeOK
<1>1. Init => TypeOK
  BY InitTypes
<1>2. TypeOK /\ [Next]_vars => TypeOK'
  BY TypeStep
<1> QED
  BY <1>1, <1>2, PTL DEF Spec

-----------------------------------------------------------------------------
(* Jobs. *)

(* An ended job keeps its outcome ("Terminal states never regress"),        *)
(* whatever reaped loops, late heartbeats and second triages write.         *)
THEOREM EndedStays == Spec => EndedIsFinal
<1>1. TypeOK /\ [Next]_vars =>
        [\A j \in Jobs : job[j].status \in Ended =>
           /\ job'[j].status = job[j].status
           /\ job'[j].source = job[j].source
           /\ job'[j].proposal = job[j].proposal]_vars
  BY RowsStep DEF Rows, RowStep
<1> QED
  BY <1>1, PipelineTypes, PTL DEF Spec, EndedIsFinal

(* A job fails with its event, once (FailureAnnouncedOnce): the loop that   *)
(* fails it and the reaper that takes it away never both write.             *)
THEOREM FailuresAnnounced == Spec => []FailureAnnouncedOnce
<1>1. Init => FailureAnnouncedOnce
  BY DEF Init, FailureAnnouncedOnce, NoJob
<1>2. TypeOK /\ FailureAnnouncedOnce /\ [Next]_vars => FailureAnnouncedOnce'
  <2> SUFFICES ASSUME TypeOK, FailureAnnouncedOnce, [Next]_vars, NEW j \in Jobs
               PROVE  failures'[j] = IF job'[j].status = "failed" THEN 1 ELSE 0
    BY DEF FailureAnnouncedOnce
  <2>1. RowStep(j)
    BY RowsStep DEF Rows
  <2>2. failures[j] = IF job[j].status = "failed" THEN 1 ELSE 0
    BY DEF FailureAnnouncedOnce
  <2> QED
    BY <2>1, <2>2 DEF RowStep, Ended
<1> QED
  BY <1>1, <1>2, PipelineTypes, PTL DEF Spec

(* The job a loop works on is running, or somebody has ended it.            *)
InHand ==
  \A w \in Workers : worker[w].pc \in Processing =>
    job[worker[w].job].status \in {"running"} \cup Ended

LEMMA InHandStep ==
  TypeOK /\ InHand /\ NeverDoubleProcessed /\ [Next]_vars => InHand' /\ NeverDoubleProcessed'
<1> SUFFICES ASSUME TypeOK, InHand, NeverDoubleProcessed, [Next]_vars
             PROVE  InHand' /\ NeverDoubleProcessed'
  OBVIOUS
<1>0. /\ \A j \in Jobs : RowStep(j)
      /\ \A w \in Workers : LoopMove(w)
      /\ \A w \in Workers : worker[w].pc \in Processing => worker[w].job \in Jobs
  <2>1. JobsOK /\ LoopsOK
    BY DEF TypeOK
  <2> QED
    BY <2>1, RowsStep, LoopsStep, BoundsAssumption DEF Rows, Loops, LoopsOK, JobsOK, Jobs
<1>1. InHand'
  <2> SUFFICES ASSUME NEW w \in Workers, worker'[w].pc \in Processing
               PROVE  job'[worker'[w].job].status \in {"running"} \cup Ended
    BY DEF InHand
  <2> DEFINE j == worker[w].job
  <2>1. CASE worker[w].pc \in Processing /\ worker'[w].job = j
    <3>1. j \in Jobs /\ job[j].status \in {"running"} \cup Ended
      BY <1>0, <2>1 DEF InHand
    <3>2. CASE job[j].status \in Ended
      BY <1>0, <2>1, <3>1, <3>2 DEF RowStep
    <3>3. CASE job[j].status = "running"
      <4>1. ASSUME NEW v \in Workers, worker[v].pc = "park", worker[v].job = j, worker'[v].pc = "stop"
            PROVE  FALSE
        BY <2>1, <4>1 DEF NeverDoubleProcessed, Processing
      <4> QED
        BY <1>0, <2>1, <3>1, <3>3, <4>1 DEF RowStep
    <3> QED
      BY <3>1, <3>2, <3>3
  <2>2. CASE ~(worker[w].pc \in Processing /\ worker'[w].job = j)
    BY <1>0, <2>2 DEF LoopMove
  <2> QED
    BY <2>1, <2>2
<1>2. NeverDoubleProcessed'
  <2> SUFFICES ASSUME NEW v \in Workers, NEW w \in Workers, v # w,
                      worker'[v].pc \in Processing, worker'[w].pc \in Processing,
                      worker'[v].job = worker'[w].job
               PROVE  FALSE
    BY DEF NeverDoubleProcessed
  <2>1. ASSUME NEW x \in Workers, NEW y \in Workers, x # y,
               worker'[x].pc \in Processing, worker'[y].pc \in Processing,
               worker'[x].job = worker'[y].job, worker[x].pc \notin Processing
        PROVE  FALSE
    <3>1. job[worker'[x].job].status = "queued" /\ worker'[y] = worker[y]
      BY <1>0, <2>1 DEF LoopMove
    <3> QED
      BY <2>1, <3>1 DEF InHand, Ended
  <2>2. worker[v].pc \in Processing /\ worker[w].pc \in Processing
    BY <2>1
  <2>3. worker'[v].job = worker[v].job /\ worker'[w].job = worker[w].job
    BY <1>0, <2>2 DEF LoopMove
  <2> QED
    BY <2>2, <2>3 DEF NeverDoubleProcessed
<1> QED
  BY <1>1, <1>2

(* "multiple pipeline instances never double-process a job": a job that is  *)
(* claimed again was parked by the loop that had it, and has left its hands *)
(* (NeverDoubleProcessed).                                                  *)
THEOREM OneLoopPerJob == Spec => []NeverDoubleProcessed
<1>1. Init => InHand /\ NeverDoubleProcessed
  BY DEF Init, InHand, NeverDoubleProcessed, Loop, Processing
<1>2. TypeOK /\ (InHand /\ NeverDoubleProcessed) /\ [Next]_vars => (InHand /\ NeverDoubleProcessed)'
  BY InHandStep
<1> QED
  BY <1>1, <1>2, PipelineTypes, PTL DEF Spec

-----------------------------------------------------------------------------
(* Proposals. *)

OnePending == \A c \in Contents : \A p, q \in PendingOf(c) : p = q

LEMMA OnePendingSuffices == OnePending => OneReviewPerSource
<1> SUFFICES ASSUME OnePending, NEW c \in Contents PROVE Cardinality(PendingOf(c)) <= 1
  BY DEF OneReviewPerSource
<1>1. CASE PendingOf(c) = {}
  BY <1>1, FS_EmptySet
<1>2. CASE PendingOf(c) # {}
  <2>1. PICK p : p \in PendingOf(c)
    BY <1>2
  <2>2. PendingOf(c) = {p}
    BY <2>1 DEF OnePending
  <2>3. Cardinality({p}) = 1
    BY FS_Singleton
  <2> QED
    BY <2>2, <2>3
<1> QED
  BY <1>1, <1>2

(* "no duplicate review work": a source is under review once                *)
(* (OneReviewPerSource), because the loop that stages a proposal sees the   *)
(* pending one of the same bytes in the same transaction.                   *)
THEOREM OneReview == Spec => []OneReviewPerSource
<1>1. Init => OnePending
  BY DEF Init, OnePending, PendingOf
<1>2. TypeOK /\ OnePending /\ [Next]_vars => OnePending'
  <2> SUFFICES ASSUME TypeOK, OnePending, [Next]_vars, NEW c \in Contents,
                      NEW p \in PendingOf(c)', NEW q \in PendingOf(c)'
               PROVE  p = q
    BY DEF OnePending
  <2>0. /\ p \in Jobs /\ q \in Jobs
        /\ proposal'[p].source = c /\ proposal'[p].status = "pending"
        /\ proposal'[q].source = c /\ proposal'[q].status = "pending"
        /\ proposal \in [Jobs -> ProposalRow]
    BY DEF PendingOf, TypeOK
  <2>1. CASE p \in PendingOf(c) /\ q \in PendingOf(c)
    BY <2>1 DEF OnePending
  <2>2. CASE UNCHANGED proposal
    BY <2>0, <2>1, <2>2 DEF PendingOf
  <2>3. ASSUME NEW w \in Workers, Propose(w) PROVE p = q
    <3> DEFINE row == [status |-> "pending", source |-> Body(w)]
    <3>1. \/ UNCHANGED proposal
          \/ /\ PendingOf(Body(w)) = {}
             /\ proposal' = [proposal EXCEPT ![worker[w].job] = row]
      BY <2>3 DEF Propose
    <3>2. CASE PendingOf(Body(w)) = {} /\ proposal' = [proposal EXCEPT ![worker[w].job] = row]
      <4>1. CASE c = Body(w)
        BY <2>0, <3>2, <4>1 DEF PendingOf
      <4>2. CASE c # Body(w)
        BY <2>0, <2>1, <3>2, <4>2 DEF PendingOf
      <4> QED
        BY <4>1, <4>2
    <3> QED
      BY <2>2, <3>1, <3>2
  <2>4. ASSUME NEW w \in Workers, RetireSuperseded(w) PROVE p = q
    <3>1. \A x \in Jobs : \/ proposal'[x] = proposal[x]
                          \/ proposal'[x].status = "failed"
      BY <2>0, <2>4 DEF RetireSuperseded, ProposalRow
    <3> QED
      BY <2>0, <2>1, <3>1 DEF PendingOf
  <2>5. ASSUME NEW x \in Jobs, Review(x) PROVE p = q
    <3>1. \A y \in Jobs : \/ proposal'[y] = proposal[y]
                          \/ proposal'[y].status \in {"approved", "rejected"}
      BY <2>0, <2>5 DEF Review, ProposalRow
    <3> QED
      BY <2>0, <2>1, <3>1 DEF PendingOf
  <2> QED
    BY <2>2, <2>3, <2>4, <2>5, ProposalWriters
<1> QED
  BY <1>1, <1>2, PipelineTypes, OnePendingSuffices, PTL DEF Spec

(* A proposal is about the bytes of its job; what it is about is archived,  *)
(* and so is what a loop past the archive works on; a loop about to retire  *)
(* has a proposal of its own bytes.                                         *)
ProposalsCite ==
  \A q \in Jobs : proposal[q].status # "none" =>
    /\ job[q].status # "none"
    /\ proposal[q].source = job[q].input.body
    /\ proposal[q].source \in Contents
    /\ source[proposal[q].source].archived

LoopsCite ==
  \A w \in Workers :
    /\ worker[w].pc \in Archived => source[Body(w)].archived
    /\ worker[w].pc = "retire" =>
         /\ worker[w].proposal \in Jobs
         /\ proposal[worker[w].proposal].status # "none"
         /\ proposal[worker[w].proposal].source = Body(w)

ReplaceInv == ProposalsCite /\ LoopsCite /\ RetiredHasReplacement

LEMMA ReplaceStep == TypeOK /\ ReplaceInv /\ [Next]_vars => ReplaceInv'
<1> SUFFICES ASSUME TypeOK, ReplaceInv, [Next]_vars PROVE ReplaceInv'
  OBVIOUS
<1>0. /\ proposal \in [Jobs -> ProposalRow]
      /\ \A j \in Jobs : RowStep(j)
      /\ \A w \in Workers : LoopMove(w) /\ worker[w] \in WorkerState
      /\ SourcesKept
  BY RowsStep, LoopsStep, ArchiveStep DEF TypeOK, Rows, Loops, LoopsOK
<1>a. \A w \in Workers : worker[w].pc \in Processing =>
        /\ worker[w].job \in Jobs
        /\ job[worker[w].job].status # "none"
        /\ Body(w) \in Contents
  <2> SUFFICES ASSUME NEW w \in Workers, worker[w].pc \in Processing
               PROVE  /\ worker[w].job \in Jobs
                      /\ job[worker[w].job].status # "none"
                      /\ Body(w) \in Contents
    OBVIOUS
  <2>1. worker[w].job \in Jobs /\ job[worker[w].job].status # "none" /\ Input(w) \in Inputs
    BY BoundsAssumption DEF TypeOK, LoopsOK, JobsOK, Jobs, Input
  <2> QED
    BY <2>1, InputsAssumption DEF InputType, Body
<1>b. \A w \in Workers : worker[w].pc \in Processing /\ worker'[w].job = worker[w].job =>
        Body(w)' = Body(w)
  BY <1>0, <1>a DEF Body, Input, RowStep
(* What a step does to proposals: they appear only for the bytes of a loop  *)
(* that has archived them, and keep their source.                           *)
<1>1. \A q \in Jobs :
        \/ /\ proposal[q].status # "none" /\ proposal'[q].status # "none"
           /\ proposal'[q].source = proposal[q].source
        \/ proposal[q].status = "none" /\ proposal'[q] = proposal[q]
        \/ \E w \in Workers : /\ Propose(w) /\ q = worker[w].job
                              /\ proposal'[q] = [status |-> "pending", source |-> Body(w)]
  <2>1. ASSUME NEW w \in Workers, Propose(w), NEW q \in Jobs, q # worker[w].job
        PROVE  proposal'[q] = proposal[q]
    BY <1>0, <2>1 DEF Propose
  <2>2. ASSUME NEW w \in Workers, Propose(w), NEW q \in Jobs, q = worker[w].job
        PROVE  proposal'[q] = proposal[q] \/ proposal'[q] = [status |-> "pending", source |-> Body(w)]
    BY <1>0, <2>2 DEF Propose
  <2>3. ASSUME NEW w \in Workers, RetireSuperseded(w), NEW q \in Jobs
        PROVE  \/ proposal'[q] = proposal[q]
               \/ /\ proposal[q].status = "pending" /\ proposal'[q].status = "failed"
                  /\ proposal'[q].source = proposal[q].source
    BY <1>0, <2>3 DEF RetireSuperseded, PendingOf, ProposalRow
  <2>4. ASSUME NEW x \in Jobs, Review(x), NEW q \in Jobs
        PROVE  \/ proposal'[q] = proposal[q]
               \/ /\ proposal[q].status = "pending" /\ proposal'[q].status \in {"approved", "rejected"}
                  /\ proposal'[q].source = proposal[q].source
    BY <1>0, <2>4 DEF Review, ProposalRow
  <2> QED
    BY <2>1, <2>2, <2>3, <2>4, ProposalWriters
<1>2. ASSUME NEW w \in Workers, Propose(w)
      PROVE  /\ worker[w].pc = "propose" /\ worker[w].job \in Jobs /\ Body(w) \in Contents
             /\ source[Body(w)].archived /\ source'[Body(w)] = source[Body(w)]
             /\ Body(w) = job[worker[w].job].input.body
             /\ job[worker[w].job].status # "none"
  <2>1. worker[w].pc = "propose"
    BY <1>2 DEF Propose
  <2>2. worker[w].pc \in Processing /\ worker[w].pc \in Archived
    BY <2>1 DEF Processing, Archived
  <2> QED
    BY <1>0, <1>a, <2>1, <2>2 DEF ReplaceInv, LoopsCite, SourcesKept, Body, Input
<1>3. ProposalsCite'
  <2> SUFFICES ASSUME NEW q \in Jobs, proposal'[q].status # "none"
               PROVE  /\ job'[q].status # "none"
                      /\ proposal'[q].source = job'[q].input.body
                      /\ proposal'[q].source \in Contents
                      /\ source'[proposal'[q].source].archived
    BY DEF ProposalsCite
  <2>1. CASE proposal[q].status # "none" /\ proposal'[q].source = proposal[q].source
    BY <1>0, <2>1 DEF ReplaceInv, ProposalsCite, RowStep, SourcesKept
  <2>2. ASSUME NEW w \in Workers, Propose(w), q = worker[w].job,
               proposal'[q] = [status |-> "pending", source |-> Body(w)]
        PROVE  /\ job'[q].status # "none"
               /\ proposal'[q].source = job'[q].input.body
               /\ proposal'[q].source \in Contents
               /\ source'[proposal'[q].source].archived
    <3>1. proposal'[q].source = Body(w)
      BY <2>2
    <3> QED
      BY <1>0, <1>2, <2>2, <3>1 DEF RowStep
  <2> QED
    BY <1>1, <2>1, <2>2
<1>4. LoopsCite'
  <2> SUFFICES ASSUME NEW w \in Workers
               PROVE  /\ worker'[w].pc \in Archived => source'[Body(w)'].archived
                      /\ worker'[w].pc = "retire" =>
                           /\ worker'[w].proposal \in Jobs
                           /\ proposal'[worker'[w].proposal].status # "none"
                           /\ proposal'[worker'[w].proposal].source = Body(w)'
    BY DEF LoopsCite
  <2>1. ASSUME worker'[w].pc \in Archived
        PROVE  /\ worker[w].pc \in Processing /\ Body(w)' = Body(w)
               /\ source'[Body(w)].archived
    <3>1. worker[w].pc \in Archived \/ (worker[w].pc = "acquire" /\ source'[Body(w)].archived)
      BY <1>0, <2>1 DEF LoopMove
    <3>2. worker[w].pc \in Processing /\ worker'[w].pc \in Processing
      BY <2>1, <3>1 DEF Processing, Archived
    <3>3. worker'[w].job = worker[w].job
      BY <1>0, <3>2 DEF LoopMove
    <3>4. Body(w)' = Body(w)
      BY <1>b, <3>2, <3>3
    <3>5. source'[Body(w)].archived
      BY <1>0, <1>a, <3>1, <3>2 DEF ReplaceInv, LoopsCite, SourcesKept
    <3> QED
      BY <3>2, <3>4, <3>5
  <2>2. ASSUME worker'[w].pc = "retire"
        PROVE  /\ worker'[w].proposal \in Jobs
               /\ proposal'[worker'[w].proposal].status # "none"
               /\ proposal'[worker'[w].proposal].source = Body(w)
    <3>1. CASE worker'[w] = worker[w]
      <4> DEFINE q == worker[w].proposal
      <4>1. q \in Jobs /\ proposal[q].status # "none" /\ proposal[q].source = Body(w)
        BY <2>2, <3>1 DEF ReplaceInv, LoopsCite
      <4>2. ASSUME NEW v \in Workers, Propose(v), q = worker[v].job,
                   proposal'[q] = [status |-> "pending", source |-> Body(v)]
            PROVE  proposal'[q].status # "none" /\ proposal'[q].source = Body(w)
        <5>1. proposal[q].source = Body(v)
          BY <1>2, <4>1, <4>2 DEF ReplaceInv, ProposalsCite
        <5> QED
          BY <4>1, <4>2, <5>1
      <4>3. proposal'[q].status # "none" /\ proposal'[q].source = Body(w)
        BY <1>1, <4>1, <4>2
      <4> QED
        BY <3>1, <4>1, <4>3
    <3>2. CASE Propose(w)
      <4>1. PICK q \in Jobs : /\ worker'[w].proposal = q
                              /\ \/ q \in PendingOf(Body(w)) /\ UNCHANGED proposal
                                 \/ /\ q = worker[w].job
                                    /\ proposal' = [proposal EXCEPT ![q] =
                                                      [status |-> "pending", source |-> Body(w)]]
        <5>1. worker \in [Workers -> WorkerState]
          BY DEF TypeOK, LoopsOK
        <5>2. CASE \E q \in PendingOf(Body(w)) :
                     /\ \E next \in {"finish", "retire"} : worker' =
                          [worker EXCEPT ![w].pc = next, ![w].source = Body(w), ![w].proposal = q]
                     /\ UNCHANGED proposal
          <6>1. PICK q \in PendingOf(Body(w)), next \in {"finish", "retire"} :
                  /\ worker' = [worker EXCEPT ![w].pc = next, ![w].source = Body(w), ![w].proposal = q]
                  /\ UNCHANGED proposal
            BY <5>2
          <6>2. worker'[w].proposal = q
            BY <5>1, <6>1 DEF WorkerState
          <6> QED
            BY <6>1, <6>2 DEF PendingOf
        <5>3. CASE \E next \in {"finish", "retire"} :
                     /\ worker' = [worker EXCEPT ![w].pc = next, ![w].source = Body(w),
                                                 ![w].proposal = worker[w].job]
                     /\ proposal' = [proposal EXCEPT ![worker[w].job] =
                                       [status |-> "pending", source |-> Body(w)]]
          <6>1. worker'[w].proposal = worker[w].job
            BY <5>1, <5>3 DEF WorkerState
          <6> QED
            BY <1>2, <3>2, <5>3, <6>1
        <5> QED
          BY <3>2, <5>2, <5>3 DEF Propose
      <4> QED
        BY <1>0, <4>1 DEF PendingOf
    <3> QED
      BY <1>0, <2>2, <3>1, <3>2 DEF LoopMove
  <2>3. worker'[w].pc = "retire" => worker'[w].pc \in Archived
    BY DEF Archived
  <2> QED
    BY <2>1, <2>2, <2>3
<1>5. RetiredHasReplacement'
  <2> SUFFICES ASSUME NEW q \in Jobs, proposal'[q].status = "failed"
               PROVE  \E r \in Jobs : /\ proposal'[r].status # "none"
                                      /\ source'[proposal'[r].source].supersedes = proposal'[q].source
    BY DEF RetiredHasReplacement
  <2>1. ASSUME NEW r \in Jobs, proposal[r].status # "none"
        PROVE  /\ proposal'[r].status # "none"
               /\ proposal'[r].source = proposal[r].source
               /\ source'[proposal[r].source] = source[proposal[r].source]
    <3>1. source'[proposal[r].source] = source[proposal[r].source]
      BY <1>0, <2>1 DEF ReplaceInv, ProposalsCite, SourcesKept
    <3>2. ASSUME NEW w \in Workers, Propose(w), r = worker[w].job,
                 proposal'[r] = [status |-> "pending", source |-> Body(w)]
          PROVE  proposal'[r].status # "none" /\ proposal'[r].source = proposal[r].source
      BY <1>2, <2>1, <3>2 DEF ReplaceInv, ProposalsCite
    <3> QED
      BY <1>1, <2>1, <3>1, <3>2
  <2>2. proposal[q].status # "none" /\ proposal'[q].source = proposal[q].source
    <3>1. proposal'[q].status # "none" /\ proposal'[q].status # "pending"
      OBVIOUS
    <3>2. \A w : proposal'[q] # [status |-> "pending", source |-> Body(w)]
      BY <3>1
    <3> QED
      BY <1>1, <3>1, <3>2
  <2>3. CASE proposal[q].status = "failed"
    <3>1. PICK r \in Jobs : /\ proposal[r].status # "none"
                            /\ source[proposal[r].source].supersedes = proposal[q].source
      BY <2>3 DEF ReplaceInv, RetiredHasReplacement
    <3> QED
      BY <2>1, <2>2, <3>1
  <2>4. CASE proposal[q].status # "failed"
    <3>1. PICK w \in Workers : RetireSuperseded(w)
      <4>1. ASSUME NEW x \in Jobs, Review(x) PROVE FALSE
        BY <1>0, <2>4, <4>1 DEF Review, ProposalRow
      <4>2. ASSUME NEW w \in Workers, Propose(w) PROVE FALSE
        BY <1>0, <2>4, <4>2 DEF Propose
      <4> QED
        BY <2>4, <4>1, <4>2, ProposalWriters
    <3> DEFINE r == worker[w].proposal
    <3>2. worker[w].pc = "retire" /\ q \in PendingOf(source[Body(w)].supersedes)
      BY <1>0, <2>4, <3>1 DEF RetireSuperseded
    <3>3. r \in Jobs /\ proposal[r].status # "none" /\ proposal[r].source = Body(w)
      BY <3>2 DEF ReplaceInv, LoopsCite
    <3> QED
      BY <2>1, <2>2, <3>2, <3>3 DEF PendingOf
  <2> QED
    BY <2>3, <2>4
<1> QED
  BY <1>3, <1>4, <1>5 DEF ReplaceInv

(* "after the replacement exists, so the queue is never briefly empty"      *)
(* (RetiredHasReplacement): the loop that retires a proposal has staged or  *)
(* found the one that replaces it.                                          *)
THEOREM RetiredAfterReplacement == Spec => []RetiredHasReplacement
<1>1. Init => ReplaceInv
  BY DEF Init, ReplaceInv, ProposalsCite, LoopsCite, RetiredHasReplacement, Loop, Archived
<1>2. TypeOK /\ ReplaceInv /\ [Next]_vars => ReplaceInv'
  BY ReplaceStep
<1>3. ReplaceInv => RetiredHasReplacement
  BY DEF ReplaceInv
<1> QED
  BY <1>1, <1>2, <1>3, PipelineTypes, PTL DEF Spec

-----------------------------------------------------------------------------
(* The ceiling of the queue. *)

Waits == WithStatus(Waiting)

(* What a step may do to the three sets QueueBounded counts: an element     *)
(* moves from one to another, or a request is admitted under the ceiling.   *)
Shrinks == Waits' \subseteq Waits /\ Admitted' \subseteq Admitted /\ HeldJobs' \subseteq HeldJobs
Queues == \E j, r : /\ Waits' \subseteq Waits \cup {j}
                    /\ r \in Admitted /\ Admitted' \subseteq Admitted \ {r}
                    /\ HeldJobs' \subseteq HeldJobs
Takes == \E j : /\ j \in Waits /\ Waits' \subseteq Waits \ {j}
                /\ Admitted' \subseteq Admitted
                /\ HeldJobs' \subseteq HeldJobs \cup {j}
Parks == \E j : /\ Waits' \subseteq Waits \cup {j}
                /\ Admitted' \subseteq Admitted
                /\ j \in HeldJobs /\ HeldJobs' \subseteq HeldJobs \ {j}
Admits == QueueHasRoom /\ Waits' = Waits
QueueStep == Shrinks \/ Queues \/ Takes \/ Parks \/ Admits

Counted ==
  /\ IsFiniteSet(Waits) /\ Cardinality(Waits) \in Nat
  /\ IsFiniteSet(Admitted) /\ Cardinality(Admitted) \in Nat
  /\ IsFiniteSet(HeldJobs) /\ Cardinality(HeldJobs) \in Nat
  /\ Cardinality(Clients) \in Nat /\ Cardinality(Admitted) <= Cardinality(Clients)
  /\ Cardinality(Workers) \in Nat /\ Cardinality(HeldJobs) <= Cardinality(Workers)

(* There are no more admitted requests than requests, and no more jobs in   *)
(* hand than loops: a loop holds one job at a time.                         *)
LEMMA CountedSets == TypeOK => Counted
<1> SUFFICES ASSUME TypeOK PROVE Counted
  OBVIOUS
<1>1. IsFiniteSet(Jobs)
  <2>1. 1 \in Int /\ MaxJobs \in Int
    BY BoundsAssumption
  <2>2. IsFiniteSet(1..MaxJobs)
    BY <2>1, FS_Interval
  <2> QED
    BY <2>2 DEF Jobs
<1>2. Waits \in SUBSET Jobs /\ HeldJobs \in SUBSET Jobs /\ Admitted \in SUBSET Clients
  BY DEF Waits, WithStatus, HeldJobs, Admitted
<1>3. IsFiniteSet(Waits) /\ IsFiniteSet(HeldJobs)
  BY <1>1, <1>2, FS_Subset
<1>4. IsFiniteSet(Admitted) /\ Cardinality(Admitted) <= Cardinality(Clients)
  BY <1>2, FiniteAssumption, FS_Subset
<1>5. Cardinality(HeldJobs) <= Cardinality(Workers)
  <2> DEFINE f == [j \in HeldJobs |-> CHOOSE w \in Workers : worker[w].job = j]
  <2>1. \A j \in HeldJobs : f[j] \in Workers /\ worker[f[j]].job = j
    BY DEF HeldJobs, Held
  <2>2. f \in [HeldJobs -> Workers]
    BY <2>1
  <2> HIDE DEF f
  <2>3. \A i, j \in HeldJobs : f[i] = f[j] => i = j
    BY <2>1
  <2>4. f \in Injection(HeldJobs, Workers)
    BY <2>2, <2>3 DEF Injection, IsInjective
  <2> QED
    BY <2>4, FiniteAssumption, FS_Injection
<1>6. /\ Cardinality(Waits) \in Nat /\ Cardinality(HeldJobs) \in Nat
      /\ Cardinality(Admitted) \in Nat
      /\ Cardinality(Clients) \in Nat /\ Cardinality(Workers) \in Nat
  <2>1. \A S : IsFiniteSet(S) => Cardinality(S) \in Nat
    BY FS_CardinalityType
  <2> QED
    BY <1>3, <1>4, <2>1, FiniteAssumption
<1> QED
  BY <1>3, <1>4, <1>5, <1>6 DEF Counted

LEMMA CeilingStep ==
  ASSUME Counted, Counted', QueueBounded, QueueStep
  PROVE  QueueBounded'
<1> DEFINE a == Cardinality(Waits)
           b == Cardinality(Admitted)
           c == Cardinality(HeldJobs)
           k == Cardinality(Clients)
           n == Cardinality(Workers)
<1>0. MaxQueued \in Nat /\ a + b + c < MaxQueued + k + n
  BY BoundsAssumption DEF QueueBounded, Waits
<1>1. /\ a \in Nat /\ b \in Nat /\ c \in Nat /\ k \in Nat /\ n \in Nat
      /\ a' \in Nat /\ b' \in Nat /\ c' \in Nat /\ b' <= k /\ c' <= n
  BY DEF Counted
<1>2. SUFFICES a' + b' + c' < MaxQueued + k + n
  BY DEF QueueBounded, Waits
<1>3. /\ Waits' \subseteq Waits => a' <= a
      /\ Admitted' \subseteq Admitted => b' <= b
      /\ HeldJobs' \subseteq HeldJobs => c' <= c
  BY FS_Subset DEF Counted
<1>4. ASSUME NEW j
      PROVE  /\ Waits' \subseteq Waits \cup {j} => a' <= a + 1
             /\ HeldJobs' \subseteq HeldJobs \cup {j} => c' <= c + 1
  <2>1. /\ IsFiniteSet(Waits \cup {j}) /\ Cardinality(Waits \cup {j}) \in {a, a + 1}
        /\ IsFiniteSet(HeldJobs \cup {j}) /\ Cardinality(HeldJobs \cup {j}) \in {c, c + 1}
    BY FS_AddElement DEF Counted
  <2>2. /\ Waits' \subseteq Waits \cup {j} => a' <= Cardinality(Waits \cup {j})
        /\ HeldJobs' \subseteq HeldJobs \cup {j} => c' <= Cardinality(HeldJobs \cup {j})
    BY <2>1, FS_Subset
  <2> QED
    BY <1>1, <2>1, <2>2
<1>5. ASSUME NEW x
      PROVE  /\ x \in Waits /\ Waits' \subseteq Waits \ {x} => a' <= a - 1
             /\ x \in Admitted /\ Admitted' \subseteq Admitted \ {x} => b' <= b - 1
             /\ x \in HeldJobs /\ HeldJobs' \subseteq HeldJobs \ {x} => c' <= c - 1
  <2>1. /\ IsFiniteSet(Waits \ {x}) /\ (x \in Waits => Cardinality(Waits \ {x}) = a - 1)
        /\ IsFiniteSet(Admitted \ {x}) /\ (x \in Admitted => Cardinality(Admitted \ {x}) = b - 1)
        /\ IsFiniteSet(HeldJobs \ {x}) /\ (x \in HeldJobs => Cardinality(HeldJobs \ {x}) = c - 1)
    BY FS_RemoveElement DEF Counted
  <2>2. /\ Waits' \subseteq Waits \ {x} => a' <= Cardinality(Waits \ {x})
        /\ Admitted' \subseteq Admitted \ {x} => b' <= Cardinality(Admitted \ {x})
        /\ HeldJobs' \subseteq HeldJobs \ {x} => c' <= Cardinality(HeldJobs \ {x})
    BY <2>1, FS_Subset
  <2> QED
    BY <2>1, <2>2
<1>6. CASE Shrinks
  BY <1>0, <1>1, <1>3, <1>6 DEF Shrinks
<1>7. CASE Queues
  <2>1. a' <= a + 1 /\ b' <= b - 1 /\ c' <= c
    <3>1. PICK j, r : /\ Waits' \subseteq Waits \cup {j}
                      /\ r \in Admitted /\ Admitted' \subseteq Admitted \ {r}
                      /\ HeldJobs' \subseteq HeldJobs
      BY <1>7 DEF Queues
    <3> QED
      BY <1>3, <1>4, <1>5, <3>1
  <2> QED
    BY <1>0, <1>1, <2>1
<1>8. CASE Takes
  <2>1. a' <= a - 1 /\ b' <= b /\ c' <= c + 1
    <3>1. PICK j : /\ j \in Waits /\ Waits' \subseteq Waits \ {j}
                   /\ Admitted' \subseteq Admitted
                   /\ HeldJobs' \subseteq HeldJobs \cup {j}
      BY <1>8 DEF Takes
    <3> QED
      BY <1>3, <1>4, <1>5, <3>1
  <2> QED
    BY <1>0, <1>1, <2>1
<1>9. CASE Parks
  <2>1. a' <= a + 1 /\ b' <= b /\ c' <= c - 1
    <3>1. PICK j : /\ Waits' \subseteq Waits \cup {j}
                   /\ Admitted' \subseteq Admitted
                   /\ j \in HeldJobs /\ HeldJobs' \subseteq HeldJobs \ {j}
      BY <1>9 DEF Parks
    <3> QED
      BY <1>3, <1>4, <1>5, <3>1
  <2> QED
    BY <1>0, <1>1, <2>1
<1>10. CASE Admits
  <2>1. a' = a /\ a < MaxQueued
    <3>1. Cardinality(Waits) < MaxQueued /\ Waits' = Waits
      BY <1>10 DEF Admits, QueueHasRoom, Waits
    <3> QED
      BY <3>1
  <2> QED
    BY <1>0, <1>1, <2>1
<1> QED
  BY <1>6, <1>7, <1>8, <1>9, <1>10 DEF QueueStep

(* No row starts to wait or to run. *)
RowsQuiet ==
  \A j \in Jobs :
    /\ job'[j].status \in Waiting => job[j].status \in Waiting
    /\ job'[j].status = "running" => job[j].status = "running" /\ job'[j].owner = job[j].owner

LEMMA QuietShrinks ==
  ASSUME TypeOK, [Next]_vars, RowsQuiet, Admitted' \subseteq Admitted
  PROVE  Shrinks
<1>1. Waits' \subseteq Waits
  BY DEF RowsQuiet, Waits, WithStatus
<1>2. ASSUME NEW j \in Claimable, TakeLease(j) PROVE FALSE
  <2>1. j \in Jobs /\ job[j].status = "queued" /\ job \in [Jobs -> JobRow]
    BY DEF Claimable, WithStatus, TypeOK, JobsOK
  <2>2. job'[j].status = "running"
    BY <1>2, <2>1 DEF TakeLease, JobRow
  <2> QED
    BY <2>1, <2>2 DEF RowsQuiet
<1>3. \A w \in Workers : LoopMove(w)
  BY LoopsStep DEF Loops
<1>4. \A w \in Workers : \A j \in Jobs : worker'[w].job = j =>
        worker[w].job = j /\ worker'[w].token = worker[w].token
  <2>1. \A j \in Jobs : j # Null
    BY NullAssumption, BoundsAssumption DEF Jobs
  <2> QED
    BY <1>2, <1>3, <2>1 DEF LoopMove
<1>5. HeldJobs' \subseteq HeldJobs
  BY <1>4 DEF RowsQuiet, HeldJobs, Held, WithStatus
<1> QED
  BY <1>1, <1>5 DEF Shrinks

(* A row that is written in place starts neither. *)
LEMMA OneRowQuiet ==
  ASSUME TypeOK, NEW j, NEW row, row.status \notin Waiting,
         row.status = "running" => j \in Jobs /\ job[j].status = "running" /\ row.owner = job[j].owner,
         job' = [job EXCEPT ![j] = row]
  PROVE  RowsQuiet
BY DEF TypeOK, JobsOK, RowsQuiet

LEMMA QueueSteps == TypeOK /\ [Next]_vars => QueueStep
<1> SUFFICES ASSUME TypeOK, [Next]_vars PROVE QueueStep
  OBVIOUS
<1>0. /\ job \in [Jobs -> JobRow] /\ worker \in [Workers -> WorkerState]
      /\ client \in [Clients -> ClientState]
  BY DEF TypeOK, JobsOK, LoopsOK, RequestsOK
<1>1. ASSUME RowsQuiet, UNCHANGED client PROVE QueueStep
  BY <1>1, QuietShrinks DEF QueueStep, Admitted
<1>2. ASSUME UNCHANGED <<job, client>> PROVE QueueStep
  BY <1>1, <1>2 DEF RowsQuiet
<1>3. ASSUME NEW r \in Clients, EnqueueInsert(r) \/ ResolveQueued(r) PROVE QueueStep
  <2>1. r \in Admitted /\ Admitted' \subseteq Admitted \ {r}
    BY <1>0, <1>3 DEF EnqueueInsert, ResolveQueued, Admitted, NoRequest
  <2>2. UNCHANGED worker
    BY <1>3 DEF EnqueueInsert, ResolveQueued
  <2>3. PICK j, row : /\ row.status # "running"
                      /\ UNCHANGED job \/ job' = [job EXCEPT ![j] = row]
    <3>1. CASE EnqueueInsert(r)
      <4> DEFINE row == [NoJob EXCEPT !.status = "queued", !.input = client[r].input]
      <4>1. row.status # "running"
        BY DEF NoJob
      <4>2. UNCHANGED job \/ job' = [job EXCEPT ![created + 1] = row]
        BY <3>1 DEF EnqueueInsert, Insert
      <4> QED
        BY <4>1, <4>2
    <3>2. CASE ResolveQueued(r)
      <4> DEFINE row == [job[client[r].job] EXCEPT !.status = "queued"]
      <4>1. client[r].job \in Jobs
        BY <1>3, <3>2, BoundsAssumption DEF ResolveQueued, TypeOK, RequestsOK, JobsOK, Jobs
      <4>2. row.status # "running"
        BY <1>0, <4>1 DEF JobRow
      <4>3. UNCHANGED job \/ job' = [job EXCEPT ![client[r].job] = row]
        BY <3>2 DEF ResolveQueued
      <4> QED
        BY <4>2, <4>3
    <3> QED
      BY <1>3, <3>1, <3>2
  <2>4. \A k \in Jobs : job'[k] = job[k] \/ (k = j /\ job'[k].status # "running")
    BY <1>0, <2>3
  <2>5. Waits' \subseteq Waits \cup {j}
    BY <2>4 DEF Waits, WithStatus
  <2>6. HeldJobs' \subseteq HeldJobs
    BY <2>2, <2>4 DEF HeldJobs, Held, WithStatus
  <2> QED
    BY <2>1, <2>5, <2>6 DEF QueueStep, Queues
<1>4. ASSUME NEW r \in Clients, NEW i, EnqueueCheck(r, i) \/ ResolveProcess(r, i) PROVE QueueStep
  BY <1>4 DEF EnqueueCheck, ResolveProcess, QueueStep, Admits, Waits, WithStatus
<1>5. ASSUME NEW j \in Claimable, TakeLease(j), UNCHANGED client PROVE QueueStep
  <2>1. j \in Jobs /\ job[j].status = "queued"
    BY DEF Claimable, WithStatus
  <2>2. /\ job'[j].status = "running"
        /\ \A k \in Jobs \ {j} : job'[k] = job[k]
    BY <1>0, <1>5, <2>1 DEF TakeLease, JobRow
  <2>3. j \in Waits /\ Waits' \subseteq Waits \ {j}
    BY <2>1, <2>2 DEF Waits, WithStatus, Waiting
  <2>4. \A w \in Workers : \A k \in Jobs \ {j} : worker'[w].job = k =>
          worker[w].job = k /\ worker'[w].token = worker[w].token
    <3>1. \A k \in Jobs : k # Null
      BY NullAssumption, BoundsAssumption DEF Jobs
    <3>2. \A w \in Workers : LoopMove(w)
      BY LoopsStep DEF Loops
    <3>3. ASSUME NEW k \in Claimable, TakeLease(k), k # j PROVE FALSE
      <4>1. k \in Jobs /\ job[k].status = "queued"
        BY DEF Claimable, WithStatus
      <4>2. job'[k].status = "running"
        BY <1>0, <3>3, <4>1 DEF TakeLease, JobRow
      <4> QED
        BY <2>2, <3>3, <4>1, <4>2
    <3> QED
      BY <3>1, <3>2, <3>3 DEF LoopMove
  <2>5. HeldJobs' \subseteq HeldJobs \cup {j}
    BY <2>2, <2>4 DEF HeldJobs, Held, WithStatus
  <2> QED
    BY <1>5, <2>3, <2>5 DEF QueueStep, Takes, Admitted
<1>6. ASSUME NEW w \in Workers, QuotaBlockJob(w) PROVE QueueStep
  <2> DEFINE j == worker[w].job
  <2>1. CASE HoldsLease(w)
    <3>1. job' = [job EXCEPT ![j] = Leave(job[j], "quota_blocked")]
      BY <1>6, <2>1 DEF QuotaBlockJob, FlipParked
    <3>2. j \in Jobs
      BY <1>6, BoundsAssumption DEF QuotaBlockJob, TypeOK, LoopsOK, JobsOK, Jobs, Processing
    <3>3. /\ job'[j].status = "quota_blocked"
          /\ \A k \in Jobs \ {j} : job'[k] = job[k]
      BY <1>0, <3>1, <3>2, LeaveType DEF JobStatus
    <3>4. j \in HeldJobs
      BY <2>1, <3>2 DEF HeldJobs, Held, HoldsLease, WithStatus
    <3>5. \A v \in Workers : worker'[v].job = worker[v].job /\ worker'[v].token = worker[v].token
      BY <1>0, <1>6 DEF QuotaBlockJob, Goto, WorkerState
    <3>6. HeldJobs' \subseteq HeldJobs \ {j}
      BY <3>3, <3>5 DEF HeldJobs, Held, WithStatus
    <3>7. Waits' \subseteq Waits \cup {j}
      BY <3>3 DEF Waits, WithStatus
    <3>8. UNCHANGED client
      BY <1>6 DEF QuotaBlockJob, endRest, clientVars
    <3> QED
      BY <3>4, <3>6, <3>7, <3>8 DEF QueueStep, Parks, Admitted
  <2>2. CASE ~HoldsLease(w)
    BY <1>2, <1>6, <2>2 DEF QuotaBlockJob, FlipParked, endRest, clientVars
  <2> QED
    BY <2>1, <2>2
<1>7. ASSUME NEW j, NEW row, row.status \notin Waiting,
             row.status = "running" =>
               j \in Jobs /\ job[j].status = "running" /\ row.owner = job[j].owner,
             job' = [job EXCEPT ![j] = row], UNCHANGED client
      PROVE  QueueStep
  BY <1>1, <1>7, OneRowQuiet
<1>8. ASSUME NEW i \in Inputs, EnqueueCapture(i) PROVE QueueStep
  <2> DEFINE row == [NoJob EXCEPT !.status = "captured", !.input = i]
  <2>1. row.status = "captured"
    BY DEF NoJob
  <2>2. job' = [job EXCEPT ![created + 1] = row] /\ UNCHANGED client
    BY <1>8 DEF EnqueueCapture, Insert
  <2> HIDE DEF row
  <2> QED
    BY <1>7, <2>1, <2>2 DEF Waiting
<1>9. ASSUME NEW j \in Jobs, ResolveUseExisting(j) \/ ResolveDiscard(j) PROVE QueueStep
  <2> DEFINE r1 == [job[j] EXCEPT !.status = "done", !.source = job[j].input.body]
             r2 == [job[j] EXCEPT !.status = "discarded"]
  <2>1. r1.status = "done" /\ r2.status = "discarded"
    BY <1>0 DEF JobRow
  <2>2. \E row \in {r1, r2} : job' = [job EXCEPT ![j] = row]
    BY <1>9 DEF ResolveUseExisting, ResolveDiscard
  <2>3. UNCHANGED client
    BY <1>9 DEF ResolveUseExisting, ResolveDiscard, clientVars
  <2> HIDE DEF r1, r2
  <2> QED
    BY <1>7, <2>1, <2>2, <2>3 DEF Waiting
<1>10. ASSUME NEW w \in Workers, RequeueQuotaBlocked(w) PROVE QueueStep
  <2>1. RowsQuiet
    BY <1>0, <1>10 DEF RequeueQuotaBlocked, RowsQuiet, JobRow, Waiting
  <2> QED
    BY <1>1, <1>10, <2>1 DEF RequeueQuotaBlocked, clientVars
<1>11. ASSUME NEW w \in Workers, ReapStale(w) PROVE QueueStep
  <2>1. PICK S : job' = [j \in Jobs |-> IF j \in S THEN Leave(job[j], "failed") ELSE job[j]]
    BY <1>11 DEF ReapStale, ReapWith
  <2>2. \A j \in Jobs : Leave(job[j], "failed").status = "failed"
    BY <1>0, LeaveType DEF JobStatus
  <2>3. RowsQuiet
    BY <2>1, <2>2 DEF RowsQuiet, Waiting
  <2> QED
    BY <1>1, <1>11, <2>3 DEF ReapStale, clientVars
<1>12. ASSUME NEW w \in Workers, FinishJob(w) \/ FinishErrors(w) \/ FailJob(w) PROVE QueueStep
  <2> DEFINE j == worker[w].job
             r1 == [Leave(job[j], "done") EXCEPT !.source = worker[w].source,
                                                 !.proposal = worker[w].proposal]
             r2 == [Leave(job[j], "failed") EXCEPT !.source = worker[w].source]
  <2>1. UNCHANGED job \/ \E row \in {r1, r2} : job' = [job EXCEPT ![j] = row]
    BY <1>12 DEF FinishJob, FinishErrors, FailJob, FlipDone, FlipFailed
  <2>2. j \in Jobs
    BY <1>12, BoundsAssumption
    DEF FinishJob, FinishErrors, FailJob, TypeOK, LoopsOK, JobsOK, Jobs, Processing
  <2>3. /\ Leave(job[j], "done") \in JobRow /\ Leave(job[j], "done").status = "done"
        /\ Leave(job[j], "failed") \in JobRow /\ Leave(job[j], "failed").status = "failed"
    BY <1>0, <2>2, LeaveType DEF JobStatus
  <2>4. r1.status = "done" /\ r2.status = "failed"
    BY <2>3 DEF JobRow
  <2>5. UNCHANGED client
    BY <1>12 DEF FinishJob, FinishErrors, FailJob, endRest, clientVars
  <2> HIDE DEF r1, r2
  <2> QED
    BY <1>2, <1>7, <2>1, <2>4, <2>5 DEF Waiting
<1>13. ASSUME NEW w \in Workers, Heartbeat(w) PROVE QueueStep
  <2> DEFINE j == worker[w].job
             row == [job[j] EXCEPT !.expired = FALSE]
  <2>1. j \in Jobs /\ job[j].status = "running"
    BY <1>0, <1>13 DEF Heartbeat, HoldsLease, WorkerState
  <2>2. row.status = "running" /\ row.owner = job[j].owner
    BY <1>0, <2>1 DEF JobRow
  <2>3. job' = [job EXCEPT ![j] = row] /\ UNCHANGED client
    BY <1>13 DEF Heartbeat, clientVars
  <2> HIDE DEF row
  <2> QED
    BY <1>7, <2>1, <2>2, <2>3 DEF Waiting
<1>14. ASSUME NEW j \in Jobs, LeaseExpires(j) \/ RuntimeExceeded(j) \/ ResumeAtPasses(j)
       PROVE  QueueStep
  <2>1. \A k \in Jobs : job'[k].status = job[k].status /\ job'[k].owner = job[k].owner
    BY <1>0, <1>14 DEF LeaseExpires, RuntimeExceeded, ResumeAtPasses, JobRow
  <2> QED
    BY <1>1, <1>14, <2>1 DEF LeaseExpires, RuntimeExceeded, ResumeAtPasses, RowsQuiet, clientVars
<1>15. ASSUME NEW w \in Workers, Claim(w) \/ SweepErrors(w) PROVE QueueStep
  <2>1. UNCHANGED client
    BY <1>15 DEF Claim, SweepErrors, clientVars
  <2>2. UNCHANGED job \/ \E j \in Claimable : TakeLease(j)
    BY <1>15 DEF Claim, SweepErrors
  <2> QED
    BY <1>2, <1>5, <2>1, <2>2
<1>16. CASE ClientStep
  BY <1>2, <1>3, <1>4, <1>8, <1>9, <1>16 DEF ClientStep, EnqueueUnchanged, clientVars
<1>17. ASSUME NEW w \in Workers, LoopStep(w) PROVE QueueStep
  BY <1>2, <1>6, <1>10, <1>11, <1>12, <1>15, <1>17
  DEF LoopStep, ClaimNothing, Archive, CheckReingest, PersistChunks, Classify, Synthesize,
      Propose, RetireSuperseded, StepFails, QuotaExhausted, EndIsLost, StopHeartbeat,
      jobRest, endRest, clientVars
<1>18. CASE Clock
  BY <1>2, <1>14, <1>18 DEF Clock, SourceAges, PauseEnds, clientVars
<1>19. CASE UNCHANGED vars
  BY <1>2, <1>19 DEF vars
<1> QED
  BY <1>2, <1>13, <1>15, <1>16, <1>17, <1>18, <1>19
  DEF Next, Start, Crash, Review, UnindexAgedSources, BackfillChunks, clientVars

(* The ceiling of the queue is soft by the requests that passed the check   *)
(* together and by the jobs that come back from a loop, and by nothing else *)
(* (QueueInv): every other step moves a job from one count to another.      *)
THEOREM CeilingHolds == Spec => []QueueInv
<1>1. Init => QueueBounded
  <2> SUFFICES ASSUME Init PROVE QueueBounded
    OBVIOUS
  <2>1. Waits = {} /\ Admitted = {} /\ HeldJobs = {}
    BY DEF Init, Waits, Admitted, HeldJobs, WithStatus, Waiting, NoJob, NoRequest
  <2>2. Counted
    BY InitTypes, CountedSets
  <2>3. Cardinality({}) = 0
    BY FS_EmptySet
  <2> QED
    BY <2>1, <2>2, <2>3, BoundsAssumption, QueueAssumption DEF QueueBounded, Counted, Waits
<1>2. TypeOK /\ TypeOK' /\ QueueBounded /\ [Next]_vars => QueueBounded'
  <2>1. TypeOK => Counted
    BY CountedSets
  <2>2. TypeOK' => Counted'
    BY CountedSets, PTL
  <2> QED
    BY <2>1, <2>2, QueueSteps, CeilingStep
<1> QED
  BY <1>1, <1>2, PipelineTypes, PTL DEF Spec, QueueInv
=============================================================================
