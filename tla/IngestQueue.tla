----------------------------- MODULE IngestQueue -----------------------------
(***************************************************************************)
(* The ingest pipeline of one WikiKit space: the job table that clients    *)
(* fill, the worker loops of one or more server processes that claim jobs  *)
(* under a lease, archive a source, call the model and stage a proposal,   *)
(* and the reaper, the quota parking and the captures around it.           *)
(*                                                                         *)
(* One action is one statement or transaction of the code; a worker keeps  *)
(* what it read in local state between two of them.  Clock values are kept *)
(* as what the code asks of them: a lease has expired, a job is over its   *)
(* runtime ceiling, a quota window has reopened.                           *)
(***************************************************************************)
EXTENDS Naturals, FiniteSets

CONSTANTS
  MaxJobs,        \* bounds the rows of wk_ingest_jobs
  Contents,       \* what can be submitted: one content is one hash, one source
  Streams,        \* external_source_id values
  Inputs,         \* the submissions clients make, see InputType
  Processes,      \* server processes over one database
  Workers,        \* their pipeline loops
  ProcessOf,      \* worker -> process
  Clients,        \* concurrent HTTP requests
  MaxQueued,      \* WIKIKIT_INGEST_MAX_QUEUED_PER_SPACE
  LlmConfigured,  \* an API key is set
  IndexWindow,    \* WIKIKIT_SOURCE_INDEX_DAYS > 0
  MaxCrashes,     \* bounds process crashes and database errors between jobs
  MaxQuota,       \* bounds quota exhaustions
  Null

Jobs == 1 .. MaxJobs        \* in created_at order

(* kind: is the body in the request, or behind a url?  again: resynthesize, *)
(* by flag or for a named source (resynthesize_source_id).                  *)
InputType == [body : Contents, kind : {"body", "url"}, stream : Streams \cup {Null},
              evidence : BOOLEAN, capture : BOOLEAN, again : {"no", "flag", "source"}]

ASSUME BoundsAssumption == {MaxJobs, MaxQueued, MaxCrashes, MaxQuota} \subseteq Nat
ASSUME SwitchAssumption == {LlmConfigured, IndexWindow} \subseteq BOOLEAN
ASSUME InputsAssumption == Inputs \subseteq InputType
ASSUME ProcessAssumption == ProcessOf \in [Workers -> Processes]
ASSUME QueueAssumption == MaxQueued > 0   \* config.ts refuses less
ASSUME FiniteAssumption == IsFiniteSet(Workers) /\ IsFiniteSet(Clients)
ASSUME NullAssumption == Null \notin Contents \cup Streams \cup Inputs \cup Nat

VARIABLES
  job,       \* wk_ingest_jobs
  created,   \* how many rows it has
  claims,    \* how often a job was claimed: its last lease_owner uuid
  source,    \* wk_sources, by content hash
  chunked,   \* sources with rows in wk_source_chunks
  aged,      \* sources older than the index window
  head,      \* wk_source_streams.latest_source_id
  proposal,  \* wk_change_proposals, by the job that staged them
  failures,  \* wikikit.ingest.failed events, counted by job
  worker,    \* the local state of a pipeline loop
  paused,    \* processes before their quotaPausedUntil
  client,    \* a request between its checks and its write
  crashes, quotas

clientVars == <<created, client>>
archiveVars == <<source, chunked, aged, head>>
budgetVars == <<crashes, quotas>>
vars == <<job, created, claims, source, chunked, aged, head, proposal, failures, worker,
          paused, client, crashes, quotas>>

-----------------------------------------------------------------------------
(* Rows and their types. *)

JobStatus == {"none", "captured", "queued", "running", "quota_blocked",
              "done", "failed", "discarded"}
Ended == {"done", "failed", "discarded"}
Active == {"queued", "running", "quota_blocked"}
Waiting == {"queued", "quota_blocked"}

JobRow == [status : JobStatus, input : Inputs \cup {Null},
           source : Contents \cup {Null}, proposal : Jobs \cup {Null},
           owner : Nat, expired : BOOLEAN, late : BOOLEAN, reopened : BOOLEAN]
SourceRow == [archived : BOOLEAN, supersedes : Contents \cup {Null}]
ProposalRow == [status : {"none", "pending", "approved", "rejected", "failed"},
                source : Contents \cup {Null}]

Sweeping == {"idle", "requeued", "reaped", "swept"}
Processing == {"acquire", "check", "chunk", "classify", "synthesize", "propose",
               "retire", "finish", "fail", "park"}
WorkerState == [pc : Sweeping \cup Processing \cup {"down", "stop"},
                job : Jobs \cup {Null}, token : Nat, fresh : BOOLEAN,
                source : Contents \cup {Null}, proposal : Jobs \cup {Null}]
ClientState == [step : {"none", "insert", "process"}, input : Inputs \cup {Null},
                job : Jobs \cup {Null}]

NoJob == [status |-> "none", input |-> Null, source |-> Null, proposal |-> Null,
          owner |-> 0, expired |-> FALSE, late |-> FALSE, reopened |-> FALSE]
Loop(pc) == [pc |-> pc, job |-> Null, token |-> 0, fresh |-> FALSE,
             source |-> Null, proposal |-> Null]
NoRequest == [step |-> "none", input |-> Null, job |-> Null]

Init ==
  /\ job = [j \in Jobs |-> NoJob]
  /\ created = 0
  /\ claims = [j \in Jobs |-> 0]
  /\ source = [c \in Contents |-> [archived |-> FALSE, supersedes |-> Null]]
  /\ chunked = {}
  /\ aged = {}
  /\ head = [s \in Streams |-> Null]
  /\ proposal = [j \in Jobs |-> [status |-> "none", source |-> Null]]
  /\ failures = [j \in Jobs |-> 0]
  /\ worker = [w \in Workers |-> Loop("idle")]
  /\ paused = {}
  /\ client = [r \in Clients |-> NoRequest]
  /\ crashes = 0
  /\ quotas = 0

-----------------------------------------------------------------------------
(* Submitting. *)

WithStatus(S) == {j \in Jobs : job[j].status \in S}
Under(c) == {q \in Jobs : proposal[q].source = c /\ proposal[q].status \in {"pending", "approved"}}

(* Is the archived source still doing work? *)
ReingestBlocked(c) ==
  \/ Under(c) # {}
  \/ \E j \in WithStatus({"queued", "running", "done", "quota_blocked"}) : job[j].source = c

ActiveResynthesis(c) ==
  {j \in WithStatus(Active) : job[j].input.again = "source" /\ job[j].input.body = c}

(* Mutant: parked jobs do not count. *)
QueueHasRoomQueued == Cardinality(WithStatus({"queued"})) < MaxQueued

QueueHasRoom == Cardinality(WithStatus(Waiting)) < MaxQueued

(* The bytes are in hand and the archive holds them already. *)
KnownContent(i) ==
  /\ i.kind = "body" /\ i.again = "no"
  /\ source[i.body].archived
  /\ ReingestBlocked(i.body)

Insert(i, status) ==
  /\ created < MaxJobs
  /\ created' = created + 1
  /\ job' = [job EXCEPT ![created + 1] = [NoJob EXCEPT !.status = status, !.input = i]]

(* recordStreamVersion, and createSource when s is Null: archive the bytes  *)
(* unless they are known, and move the head of the stream to them.          *)
RecordVersion(c, s) ==
  /\ source' = IF source[c].archived THEN source
               ELSE [source EXCEPT ![c] = [archived |-> TRUE,
                       supersedes |-> IF s = Null THEN Null ELSE head[s]]]
  /\ head' = IF s = Null THEN head ELSE [head EXCEPT ![s] = c]

(* A capture is parked before every check. *)
EnqueueCapture(i) ==
  /\ i.capture
  /\ Insert(i, "captured")
  /\ UNCHANGED <<claims, archiveVars, proposal, failures, worker, paused, client, budgetVars>>

(* Known content on a stream moves the head; no job. *)
EnqueueUnchanged(i) ==
  /\ ~i.capture /\ (i.evidence \/ LlmConfigured)
  /\ i.stream # Null
  /\ KnownContent(i)
  /\ RecordVersion(i.body, i.stream)
  /\ UNCHANGED <<job, claims, chunked, aged, proposal, failures, worker, paused, clientVars, budgetVars>>

(* Every read of enqueue: the key, the dedup pre-check, the running         *)
(* resynthesis, room in the queue.                                          *)
EnqueueCheck(r, i) ==
  /\ client[r].step = "none"
  /\ ~i.capture /\ (i.evidence \/ LlmConfigured)
  /\ ~KnownContent(i)
  /\ i.again = "source" => source[i.body].archived /\ ActiveResynthesis(i.body) = {}
  /\ QueueHasRoom
  /\ client' = [client EXCEPT ![r] = [NoRequest EXCEPT !.step = "insert", !.input = i]]
  /\ UNCHANGED <<job, created, claims, archiveVars, proposal, failures, worker, paused, budgetVars>>

(* The insert, later.  The active-resynthesis index answers a race. *)
EnqueueInsert(r) ==
  /\ client[r].step = "insert"
  /\ LET i == client[r].input IN
       IF i.again = "source" /\ ActiveResynthesis(i.body) # {}
       THEN UNCHANGED <<job, created>>
       ELSE Insert(i, "queued")
  /\ client' = [client EXCEPT ![r] = NoRequest]
  /\ UNCHANGED <<claims, archiveVars, proposal, failures, worker, paused, budgetVars>>

(* Triage of a capture: process it (the checks, and the guarded update      *)
(* later), use an archived source, or discard it.                           *)
ResolveProcess(r, j) ==
  /\ client[r].step = "none"
  /\ job[j].status = "captured"
  /\ LlmConfigured
  /\ QueueHasRoom
  /\ client' = [client EXCEPT ![r] = [NoRequest EXCEPT !.step = "process", !.job = j]]
  /\ UNCHANGED <<job, created, claims, archiveVars, proposal, failures, worker, paused, budgetVars>>

(* Mutant: the update forgets that the capture may be resolved by now. *)
ResolveQueuedAnyway(r) ==
  /\ client[r].step = "process"
  /\ job' = [job EXCEPT ![client[r].job].status = "queued"]
  /\ client' = [client EXCEPT ![r] = NoRequest]
  /\ UNCHANGED <<created, claims, archiveVars, proposal, failures, worker, paused, budgetVars>>

ResolveQueued(r) ==
  /\ client[r].step = "process"
  /\ LET j == client[r].job IN
       job' = IF job[j].status = "captured" THEN [job EXCEPT ![j].status = "queued"] ELSE job
  /\ client' = [client EXCEPT ![r] = NoRequest]
  /\ UNCHANGED <<created, claims, archiveVars, proposal, failures, worker, paused, budgetVars>>

ResolveUseExisting(j) ==
  /\ job[j].status = "captured"
  /\ source[job[j].input.body].archived
  /\ job' = [job EXCEPT ![j].status = "done", ![j].source = job[j].input.body]
  /\ UNCHANGED <<claims, archiveVars, proposal, failures, worker, paused, clientVars, budgetVars>>

ResolveDiscard(j) ==
  /\ job[j].status = "captured"
  /\ job' = [job EXCEPT ![j].status = "discarded"]
  /\ UNCHANGED <<claims, archiveVars, proposal, failures, worker, paused, clientVars, budgetVars>>

-----------------------------------------------------------------------------
(* A pipeline loop between two jobs: runOnce. *)

Goto(w, pc) == worker' = [worker EXCEPT ![w].pc = pc]
Input(w) == job[worker[w].job].input
Body(w) == Input(w).body

RequeueQuotaBlocked(w) ==
  /\ worker[w].pc = "idle"
  /\ ProcessOf[w] \notin paused
  /\ job' = [j \in Jobs |->
               IF job[j].status = "quota_blocked" /\ job[j].reopened
               THEN [job[j] EXCEPT !.status = "queued", !.reopened = FALSE] ELSE job[j]]
  /\ Goto(w, "requeued")
  /\ UNCHANGED <<claims, archiveVars, proposal, failures, paused, clientVars, budgetVars>>

(* A job leaves `running': its lease columns are cleared. *)
Leave(row, status) ==
  [row EXCEPT !.status = status, !.owner = 0, !.expired = FALSE, !.late = FALSE]

(* Mutant: the reaper gives the job another try. *)
ReapWithRetry(S) ==
  /\ job' = [j \in Jobs |-> IF j \in S THEN Leave(job[j], "queued") ELSE job[j]]
  /\ UNCHANGED failures

(* One reap pass: the flips and their events, one transaction. *)
ReapWith(S) ==
  /\ job' = [j \in Jobs |->
               IF j \in S THEN Leave(job[j], "failed") ELSE job[j]]
  /\ failures' = [j \in Jobs |-> IF j \in S THEN failures[j] + 1 ELSE failures[j]]

(* Mutant: the reaper looks for jobs nobody owns. *)
ExpiredUnowned == {j \in WithStatus({"running"}) : job[j].expired /\ job[j].owner = 0}
Expired == {j \in WithStatus({"running"}) : job[j].expired}
Overdue == {j \in WithStatus({"running"}) : job[j].late}

ReapStale(w) ==
  /\ \/ /\ worker[w].pc = "requeued"
        /\ ReapWith(Expired)
        /\ Goto(w, "reaped")
     \/ /\ worker[w].pc = "reaped"
        /\ ReapWith(Overdue)
        /\ Goto(w, "swept")
  /\ UNCHANGED <<claims, archiveVars, proposal, paused, clientVars, budgetVars>>

Claimable == {j \in WithStatus({"queued"}) : \A k \in WithStatus({"queued"}) : j <= k}

(* The oldest queued job, under a lease of its own. *)
TakeLease(j) ==
  /\ claims' = [claims EXCEPT ![j] = @ + 1]
  /\ job' = [job EXCEPT ![j].status = "running", ![j].owner = claims[j] + 1]

Claim(w) ==
  /\ worker[w].pc = "swept"
  /\ \E j \in Claimable :
       /\ TakeLease(j)
       /\ worker' = [worker EXCEPT ![w] =
                       [Loop("acquire") EXCEPT !.job = j, !.token = claims[j] + 1]]
  /\ UNCHANGED <<archiveVars, proposal, failures, paused, clientVars, budgetVars>>

ClaimNothing(w) ==
  /\ worker[w].pc = "swept"
  /\ Claimable = {}
  /\ Goto(w, "idle")
  /\ UNCHANGED <<job, claims, archiveVars, proposal, failures, paused, clientVars, budgetVars>>

(* A statement of runOnce reports an error, and the loop starts over.  The  *)
(* claim may have committed: nobody works on that job.                      *)
SweepErrors(w) ==
  /\ worker[w].pc \in Sweeping \ {"idle"}
  /\ crashes < MaxCrashes
  /\ crashes' = crashes + 1
  /\ \/ UNCHANGED <<job, claims>>
     \/ worker[w].pc = "swept" /\ \E j \in Claimable : TakeLease(j)
  /\ Goto(w, "idle")
  /\ UNCHANGED <<archiveVars, proposal, failures, paused, clientVars, quotas>>

-----------------------------------------------------------------------------
(* A pipeline loop inside a job: processJob. *)

jobRest == <<job, claims, failures, paused, clientVars, budgetVars>>

(* Fetch the bytes, then archive them. *)
Archive(w) ==
  /\ worker[w].pc = "acquire"
  /\ RecordVersion(Body(w), Input(w).stream)
  /\ worker' = [worker EXCEPT ![w].pc = "check", ![w].fresh = ~source[Body(w)].archived]
  /\ UNCHANGED <<chunked, aged, proposal, jobRest>>

(* Known bytes whose source is still doing work: a stream converges on the  *)
(* proposal of the earlier work, any other input ends in already_ingested.  *)
CheckReingest(w) ==
  /\ worker[w].pc = "check"
  /\ IF worker[w].fresh \/ Input(w).again # "no" \/ ~ReingestBlocked(Body(w))
     THEN worker' = [worker EXCEPT ![w].pc = "chunk", ![w].fresh = FALSE]
     ELSE IF Input(w).stream # Null
     THEN \E q \in IF Under(Body(w)) = {} THEN {Null} ELSE Under(Body(w)) :
            worker' = [worker EXCEPT ![w].pc = "finish", ![w].source = Body(w), ![w].proposal = q]
     ELSE worker' = [worker EXCEPT ![w].pc = "fail", ![w].source = Body(w)]
  /\ UNCHANGED <<archiveVars, proposal, jobRest>>

(* Index the source; evidence ends here. *)
PersistChunks(w) ==
  /\ worker[w].pc = "chunk"
  /\ chunked' = chunked \cup {Body(w)}
  /\ IF Input(w).evidence
     THEN worker' = [worker EXCEPT ![w].pc = "finish", ![w].source = Body(w)]
     ELSE Goto(w, "classify")
  /\ UNCHANGED <<source, aged, head, proposal, jobRest>>

(* The model: the source touches some pages, or none. *)
Classify(w) ==
  /\ worker[w].pc = "classify"
  /\ \/ Goto(w, "synthesize")
     \/ worker' = [worker EXCEPT ![w].pc = "finish", ![w].source = Body(w)]
  /\ UNCHANGED <<archiveVars, proposal, jobRest>>

(* Pages, decisions and adjudication; a failed adjudication is ignored. *)
Synthesize(w) ==
  /\ worker[w].pc = "synthesize"
  /\ Goto(w, "propose")
  /\ UNCHANGED <<archiveVars, proposal, jobRest>>

(* createProposal: the input hash finds the pending proposal of these bytes. *)
PendingOf(c) == {q \in Jobs : proposal[q].source = c /\ proposal[q].status = "pending"}

(* Mutant: every attempt stages a proposal. *)
ProposeAgain(w) ==
  /\ worker[w].pc = "propose"
  /\ proposal' = [proposal EXCEPT ![worker[w].job] = [status |-> "pending", source |-> Body(w)]]
  /\ worker' = [worker EXCEPT ![w].pc = "finish", ![w].source = Body(w),
                              ![w].proposal = worker[w].job]
  /\ UNCHANGED <<archiveVars, jobRest>>

Propose(w) ==
  /\ worker[w].pc = "propose"
  /\ LET c == Body(w)
         next == IF source[c].supersedes = Null THEN "finish" ELSE "retire"
         result(q) == worker' = [worker EXCEPT ![w].pc = next, ![w].source = c, ![w].proposal = q]
     IN  \/ /\ \E q \in PendingOf(c) : result(q)
            /\ UNCHANGED proposal
         \/ /\ PendingOf(c) = {}
            /\ proposal' = [proposal EXCEPT ![worker[w].job] = [status |-> "pending", source |-> c]]
            /\ result(worker[w].job)
  /\ UNCHANGED <<archiveVars, jobRest>>

(* Mutant: the predecessor is retired before its replacement is staged. *)
RetireSupersededEarly(w) ==
  /\ worker[w].pc \in {"propose", "retire"}
  /\ proposal' = [q \in Jobs |-> IF q \in PendingOf(source[Body(w)].supersedes)
                                 THEN [proposal[q] EXCEPT !.status = "failed"] ELSE proposal[q]]
  /\ Goto(w, IF worker[w].pc = "propose" THEN "propose" ELSE "finish")
  /\ UNCHANGED <<archiveVars, jobRest>>

RetireSuperseded(w) ==
  /\ worker[w].pc = "retire"
  /\ proposal' = [q \in Jobs |-> IF q \in PendingOf(source[Body(w)].supersedes)
                                 THEN [proposal[q] EXCEPT !.status = "failed"] ELSE proposal[q]]
  /\ Goto(w, "finish")
  /\ UNCHANGED <<archiveVars, jobRest>>

(* A step throws: the fetch, the database, the model, the runtime ceiling. *)
StepFails(w) ==
  /\ worker[w].pc \in Processing \ {"finish", "fail", "park"}
  /\ worker' = [worker EXCEPT ![w].pc = "fail", ![w].fresh = FALSE,
                                 ![w].source = Null, ![w].proposal = Null]
  /\ UNCHANGED <<archiveVars, proposal, jobRest>>

(* The provider's quota is exhausted: the process stops claiming. *)
QuotaExhausted(w) ==
  /\ worker[w].pc \in {"classify", "synthesize"}
  /\ quotas < MaxQuota
  /\ quotas' = quotas + 1
  /\ paused' = paused \cup {ProcessOf[w]}
  /\ Goto(w, "park")
  /\ UNCHANGED <<job, claims, archiveVars, proposal, failures, clientVars, crashes>>

-----------------------------------------------------------------------------
(* The end of a job, each write guarded on the lease. *)

HoldsLease(w) ==
  /\ job[worker[w].job].status = "running"
  /\ job[worker[w].job].owner = worker[w].token

FlipDone(w) ==
  job' = IF HoldsLease(w)
         THEN [job EXCEPT ![worker[w].job] =
                 [Leave(@, "done") EXCEPT !.source = worker[w].source,
                                          !.proposal = worker[w].proposal]]
         ELSE job

(* Mutant: the event is emitted whether or not the flip happened. *)
FlipFailedAnnounced(w) ==
  /\ job' = IF HoldsLease(w) THEN [job EXCEPT ![worker[w].job] =
              [Leave(@, "failed") EXCEPT !.source = worker[w].source]] ELSE job
  /\ failures' = [failures EXCEPT ![worker[w].job] = @ + 1]

(* Mutant: a job that is not failed yet may fail. *)
FlipFailedUnlessFailed(w) ==
  IF job[worker[w].job].status # "failed"
  THEN /\ job' = [job EXCEPT ![worker[w].job] =
                    [Leave(@, "failed") EXCEPT !.source = worker[w].source]]
       /\ failures' = [failures EXCEPT ![worker[w].job] = @ + 1]
  ELSE UNCHANGED <<job, failures>>

FlipFailed(w) ==
  IF HoldsLease(w)
  THEN /\ job' = [job EXCEPT ![worker[w].job] =
                    [Leave(@, "failed") EXCEPT !.source = worker[w].source]]
       /\ failures' = [failures EXCEPT ![worker[w].job] = @ + 1]
  ELSE UNCHANGED <<job, failures>>

FlipParked(w) ==
  job' = IF HoldsLease(w)
         THEN [job EXCEPT ![worker[w].job] = Leave(@, "quota_blocked")]
         ELSE job

endRest == <<claims, archiveVars, proposal, paused, clientVars, budgetVars>>

FinishJob(w) ==
  /\ worker[w].pc = "finish"
  /\ FlipDone(w)
  /\ Goto(w, "stop")
  /\ UNCHANGED <<failures, endRest>>

(* The write of `done' reports an error, committed or not. *)
FinishErrors(w) ==
  /\ worker[w].pc = "finish"
  /\ FlipDone(w) \/ UNCHANGED job
  /\ worker' = [worker EXCEPT ![w].pc = "fail", ![w].proposal = Null]
  /\ UNCHANGED <<failures, endRest>>

FailJob(w) ==
  /\ worker[w].pc = "fail"
  /\ FlipFailed(w)
  /\ Goto(w, "stop")
  /\ UNCHANGED endRest

QuotaBlockJob(w) ==
  /\ worker[w].pc = "park"
  /\ FlipParked(w)
  /\ Goto(w, "stop")
  /\ UNCHANGED <<failures, endRest>>

(* The write of `failed' or of the park is lost: the reaper's job now. *)
EndIsLost(w) ==
  /\ worker[w].pc \in {"fail", "park"}
  /\ Goto(w, "stop")
  /\ UNCHANGED <<job, failures, endRest>>

(* The heartbeat stops and the loop goes on. *)
StopHeartbeat(w) ==
  /\ worker[w].pc = "stop"
  /\ worker' = [worker EXCEPT ![w] = Loop("idle")]
  /\ UNCHANGED <<job, failures, endRest>>

-----------------------------------------------------------------------------
(* Beside the loops. *)

(* A heartbeat renews the lease, an expired one the reaper has not met too. *)
Heartbeat(w) ==
  /\ worker[w].job # Null
  /\ HoldsLease(w)
  /\ job[worker[w].job].expired
  /\ job' = [job EXCEPT ![worker[w].job].expired = FALSE]
  /\ UNCHANGED <<claims, archiveVars, proposal, failures, worker, paused, clientVars, budgetVars>>

(* Time passes: a lease, the runtime ceiling, a quota window. *)
LeaseExpires(j) ==
  /\ job[j].status = "running" /\ ~job[j].expired
  /\ job' = [job EXCEPT ![j].expired = TRUE]
  /\ UNCHANGED <<claims, archiveVars, proposal, failures, worker, paused, clientVars, budgetVars>>

RuntimeExceeded(j) ==
  /\ job[j].status = "running" /\ ~job[j].late
  /\ job' = [job EXCEPT ![j].late = TRUE]
  /\ UNCHANGED <<claims, archiveVars, proposal, failures, worker, paused, clientVars, budgetVars>>

ResumeAtPasses(j) ==
  /\ job[j].status = "quota_blocked" /\ ~job[j].reopened
  /\ job' = [job EXCEPT ![j].reopened = TRUE]
  /\ UNCHANGED <<claims, archiveVars, proposal, failures, worker, paused, clientVars, budgetVars>>

(* The window is days long: before a source ages, the attempt at it has     *)
(* ended and the backfill, every half a minute, has indexed it.             *)
SourceAges(c) ==
  /\ IndexWindow
  /\ c \in chunked \ aged
  /\ \A j \in WithStatus({"running"}) : job[j].input.body # c
  /\ aged' = aged \cup {c}
  /\ UNCHANGED <<job, claims, source, chunked, head, proposal, failures, worker, paused,
                 clientVars, budgetVars>>

PauseEnds(p) ==
  /\ p \in paused
  /\ paused' = paused \ {p}
  /\ UNCHANGED <<job, claims, archiveVars, proposal, failures, worker, clientVars, budgetVars>>

(* A process dies with all its loops, and is started again. *)
Crash(p) ==
  /\ crashes < MaxCrashes
  /\ crashes' = crashes + 1
  /\ \E w \in Workers : ProcessOf[w] = p /\ worker[w].pc # "down"
  /\ worker' = [w \in Workers |-> IF ProcessOf[w] = p THEN Loop("down") ELSE worker[w]]
  /\ paused' = paused \ {p}
  /\ UNCHANGED <<job, claims, archiveVars, proposal, failures, clientVars, quotas>>

Start(w) ==
  /\ worker[w].pc = "down"
  /\ worker' = [worker EXCEPT ![w] = Loop("idle")]
  /\ UNCHANGED <<job, claims, archiveVars, proposal, failures, paused, clientVars, budgetVars>>

(* A reviewer decides (module ReviewGate); whatever is not an approval is   *)
(* the same to the pipeline.                                                *)
Review(q) ==
  /\ proposal[q].status = "pending"
  /\ \E s \in {"approved", "rejected"} : proposal' = [proposal EXCEPT ![q].status = s]
  /\ UNCHANGED <<job, claims, archiveVars, failures, worker, paused, clientVars, budgetVars>>

(* The index window: aged sources that nothing uses lose their chunks.  A   *)
(* staged claim, if there is one, cites its source whatever is decided.     *)
Unused(c) ==
  /\ Under(c) = {}
  /\ \A s \in Streams : head[s] # c
  /\ \A j \in WithStatus(Active) : job[j].source # c

UnindexAgedSources ==
  /\ \E cited \in SUBSET {proposal[q].source : q \in Jobs} :
       chunked' = {c \in chunked : c \notin aged \/ c \in cited \/ ~Unused(c)}
  /\ UNCHANGED <<job, claims, source, aged, head, proposal, failures, worker, paused, clientVars, budgetVars>>

BackfillChunks(c) ==
  /\ source[c].archived /\ c \notin chunked
  /\ chunked' = chunked \cup {c}
  /\ UNCHANGED <<job, claims, source, aged, head, proposal, failures, worker, paused, clientVars, budgetVars>>

-----------------------------------------------------------------------------
LoopStep(w) ==
  \/ RequeueQuotaBlocked(w) \/ ReapStale(w) \/ Claim(w) \/ ClaimNothing(w)
  \/ Archive(w) \/ CheckReingest(w) \/ PersistChunks(w) \/ Classify(w)
  \/ Synthesize(w) \/ Propose(w) \/ RetireSuperseded(w)
  \/ StepFails(w) \/ QuotaExhausted(w)
  \/ FinishJob(w) \/ FinishErrors(w) \/ FailJob(w) \/ QuotaBlockJob(w) \/ EndIsLost(w)
  \/ StopHeartbeat(w)

ClientStep ==
  \/ \E i \in Inputs : EnqueueCapture(i) \/ EnqueueUnchanged(i)
  \/ \E r \in Clients, i \in Inputs : EnqueueCheck(r, i)
  \/ \E r \in Clients : EnqueueInsert(r) \/ ResolveQueued(r)
  \/ \E r \in Clients, j \in Jobs : ResolveProcess(r, j)
  \/ \E j \in Jobs : ResolveUseExisting(j) \/ ResolveDiscard(j)

Clock ==
  \/ \E j \in Jobs : LeaseExpires(j) \/ RuntimeExceeded(j) \/ ResumeAtPasses(j)
  \/ \E c \in Contents : SourceAges(c)
  \/ \E p \in Processes : PauseEnds(p)

Next ==
  \/ ClientStep
  \/ \E w \in Workers : LoopStep(w) \/ SweepErrors(w) \/ Heartbeat(w) \/ Start(w)
  \/ Clock
  \/ \E p \in Processes : Crash(p)
  \/ \E q \in Jobs : Review(q)
  \/ UnindexAgedSources
  \/ \E c \in Contents : BackfillChunks(c)

Spec == Init /\ [][Next]_vars

(* Loops are started again and keep stepping (the runtime ceiling aborts a  *)
(* hanging model call), nobody renews the lease of a dead attempt, and time *)
(* passes.  Clients, reviewers, crashes and the index window owe nothing.   *)
Held(j) == \E w \in Workers : worker[w].job = j /\ worker[w].token = job[j].owner

Fairness ==
  /\ \A w \in Workers : WF_vars(LoopStep(w)) /\ WF_vars(Start(w))
  /\ \A j \in Jobs : WF_vars(~Held(j) /\ LeaseExpires(j)) /\ WF_vars(ResumeAtPasses(j))
  /\ \A p \in Processes : WF_vars(PauseEnds(p))

FairSpec == Spec /\ Fairness

-----------------------------------------------------------------------------
(* Properties. *)

JobsOK ==
  /\ job \in [Jobs -> JobRow]
  /\ created \in 0 .. MaxJobs
  /\ \A j \in Jobs : job[j].status # "none" => job[j].input \in Inputs
  /\ \A j \in Jobs : job[j].status # "none" <=> j <= created

ArchiveOK ==
  /\ source \in [Contents -> SourceRow]
  /\ chunked \subseteq Contents /\ aged \subseteq Contents
  /\ head \in [Streams -> Contents \cup {Null}]

LoopsOK ==
  /\ worker \in [Workers -> WorkerState]
  /\ \A w \in Workers : worker[w].pc \in Processing => worker[w].job \in 1 .. created
  /\ paused \subseteq Processes

RequestsOK ==
  /\ client \in [Clients -> ClientState]
  /\ \A r \in Clients : /\ client[r].step = "insert" => client[r].input \in Inputs
                        /\ client[r].step = "process" => client[r].job \in 1 .. created

CountsOK ==
  /\ claims \in [Jobs -> Nat] /\ failures \in [Jobs -> Nat]
  /\ crashes \in Nat /\ quotas \in Nat

(* The rows have their types: a row exists once it is inserted, and what a  *)
(* worker or a request holds on to exists.                                  *)
TypeOK ==
  /\ JobsOK /\ ArchiveOK /\ LoopsOK /\ RequestsOK /\ CountsOK
  /\ proposal \in [Jobs -> ProposalRow]

(* "Terminal states never regress": whatever a reaped worker, a late        *)
(* heartbeat or a second triage does, an ended job keeps its outcome.       *)
EndedIsFinal ==
  [][\A j \in Jobs : job[j].status \in Ended =>
       /\ job'[j].status = job[j].status
       /\ job'[j].source = job[j].source
       /\ job'[j].proposal = job[j].proposal]_vars

(* "every failure path reaches the outbox", once: the worker that fails a   *)
(* job and the reaper that takes it from the worker never both announce it. *)
FailureAnnouncedOnce ==
  \A j \in Jobs : failures[j] = IF job[j].status = "failed" THEN 1 ELSE 0

(* "multiple pipeline instances never double-process a job", through lost   *)
(* leases, quota parking and crashes.                                       *)
NeverDoubleProcessed ==
  \A v, w \in Workers :
    /\ worker[v].pc \in Processing /\ worker[w].pc \in Processing
    /\ worker[v].job = worker[w].job
    => v = w

(* "no duplicate review work": one source is under review once, however     *)
(* often it is submitted while a worker crashes, stalls or is reaped.       *)
OneReviewPerSource ==
  \A c \in Contents : Cardinality(PendingOf(c)) <= 1

(* "after the replacement exists, so the queue is never briefly empty": a   *)
(* proposal is retired only for a newer version that has a proposal itself. *)
RetiredHasReplacement ==
  \A q \in Jobs : proposal[q].status = "failed" =>
    \E r \in Jobs : /\ proposal[r].status # "none"
                    /\ source[proposal[r].source].supersedes = proposal[q].source

HeldJobs == {j \in WithStatus({"running"}) : Held(j)}
Admitted == {r \in Clients : client[r].step # "none"}

(* The queue ceiling is soft by the requests that passed the check together *)
(* and by the jobs that came back from a worker, and by nothing else.       *)
QueueBounded ==
  Cardinality(WithStatus(Waiting)) + Cardinality(Admitted) + Cardinality(HeldJobs)
    < MaxQueued + Cardinality(Clients) + Cardinality(Workers)

(* Types, and the ceiling of the queue. *)
QueueInv == TypeOK /\ QueueBounded

(* Every accepted job ends: done, or failed with its event. *)
AcceptedEnds ==
  \A j \in Jobs : job[j].status \in Active ~> job[j].status \in {"done", "failed"}
=============================================================================
