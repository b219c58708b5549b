------------------------------- MODULE Outbox -------------------------------
(***************************************************************************)
(* The webhook outbox (src/src/webhooks.ts).  Decisions and failed ingests *)
(* write events into wk_outbox_events inside their own transactions; every *)
(* server process runs one worker that polls the table, fans an event out  *)
(* into one delivery row per subscribed endpoint, and posts the rows that  *)
(* are due, with retries and a circuit breaker per endpoint.               *)
(*                                                                         *)
(* A worker holds what it has read across awaits: the events and endpoints *)
(* of a fan-out, the due rows with their attempt counts, and the failure   *)
(* count of the endpoint it posts to.  Each database call is a step.       *)
(* Clocks are abstract: a scheduled row may become due, and an open        *)
(* breaker may close, at any time.                                         *)
(***************************************************************************)
EXTENDS Integers, FiniteSets

CONSTANTS
  Events,        \* ids of wk_outbox_events, ordered: numbers
  Endpoints,     \* endpoints of the one space modelled
  Subscribes,    \* Subscribes[p]: the events endpoint p asked for
  Processes,     \* server processes, one worker each
  MaxAttempts,   \* config.webhookMaxAttempts
  Threshold,     \* config.webhookCircuitThreshold
  FanOutLimit,   \* events read by one tick (50)
  DueLimit,      \* rows read by one tick (20)
  MaxCopies,     \* bound: delivery rows of one event and endpoint
  MaxFaults,     \* bound: crashes and failed database calls
  NoRow          \* the row of a worker that is not delivering

ASSUME OutboxAssumption ==
  /\ Events \subseteq Nat
  /\ IsFiniteSet(Events)
  /\ Subscribes \in [Endpoints -> SUBSET Events]
  /\ MaxAttempts \in Nat \ {0}
  /\ Threshold \in Nat \ {0}
  /\ FanOutLimit \in Nat \ {0}
  /\ DueLimit \in Nat \ {0}
  /\ MaxCopies \in Nat \ {0}
  /\ MaxFaults \in Nat

VARIABLES
  event,      \* event[e]: "none", "emitted" or "dispatched" (dispatched_at set)
  endpoint,   \* the rows of wk_webhook_endpoints
  delivery,   \* the rows of wk_webhook_deliveries
  worker,     \* worker[w]: where a tick is and what it holds
  faults,     \* crashes and failed calls so far
  owed,       \* history: owed[e], the endpoints active when e was emitted
  posts,      \* history: posts[d], the attempts made for row d
  received,   \* history: the pairs (event, endpoint) that reached the endpoint
  streak,     \* history: consecutive failed attempts since a success or a trip
  disputed    \* history: rows marked delivered by a write reported as failed

tables == <<event, endpoint, delivery>>
history == <<owed, posts, received, streak, disputed>>
vars == <<event, endpoint, delivery, worker, faults, owed, posts, received, streak, disputed>>

-----------------------------------------------------------------------------
(* State *)

RowIds == [event : Events, endpoint : Endpoints, copy : 1..MaxCopies]

EndpointRow ==
  [status : {"absent", "active", "inactive"}, failures : 0..(Threshold - 1), open : BOOLEAN]

DeliveryRow ==
  [status : {"absent", "pending", "failed", "delivered", "dead"},
   attempt : Nat, due : BOOLEAN]

(* A due row as the worker's select returned it. *)
DueRow == [id : RowIds, attempt : Nat]

(* pc: where the next database call of the tick is.                        *)
(*   idle       no tick is running                                         *)
(*   events     fanOutPending: the next event's endpoints are read, or,    *)
(*              after the last event, deliverDue: the due rows are           *)
(*   commit     fanOutPending: rows and dispatched_at are written          *)
(*   deliver    deliver: the next row's endpoint is read                   *)
(*   dead/defer the row is marked dead, or pushed behind the breaker       *)
(*   post       the endpoint is called                                     *)
(*   ok/reset   the row is marked delivered, the failure count cleared     *)
(*   fail/trip  onFailure's two writes                                     *)
Places == {"idle", "events", "commit", "deliver", "dead", "defer",
           "post", "ok", "reset", "fail", "trip"}

WorkerState ==
  [pc : Places, events : SUBSET Events, targets : SUBSET [endpoint : Endpoints, open : BOOLEAN],
   rows : SUBSET DueRow, row : DueRow \cup {NoRow}, failures : 0..(Threshold - 1)]

Idle == [pc |-> "idle", events |-> {}, targets |-> {}, rows |-> {}, row |-> NoRow, failures |-> 0]

Init ==
  /\ event = [e \in Events |-> "none"]
  /\ endpoint = [p \in Endpoints |-> [status |-> "absent", failures |-> 0, open |-> FALSE]]
  /\ delivery = [d \in RowIds |-> [status |-> "absent", attempt |-> 0, due |-> FALSE]]
  /\ worker = [w \in Processes |-> Idle]
  /\ faults = 0
  /\ owed = [e \in Events |-> {}]
  /\ posts = [d \in RowIds |-> 0]
  /\ received = {}
  /\ streak = [p \in Endpoints |-> 0]
  /\ disputed = {}

Rows == {d \in RowIds : delivery[d].status /= "absent"}
Matching(e) == {p \in Endpoints : endpoint[p].status = "active" /\ e \in Subscribes[p]}

-----------------------------------------------------------------------------
(* Around the worker *)

(* A transaction of the review gate or the ingest queue commits its event. *)
(* Ids come from a sequence; an event of a later id may commit first.      *)
Emit(e) ==
  /\ event[e] = "none"
  /\ event' = [event EXCEPT ![e] = "emitted"]
  /\ owed' = [owed EXCEPT ![e] = Matching(e)]
  /\ UNCHANGED <<endpoint, delivery, worker, faults, posts, received, streak, disputed>>

RegisterWebhookEndpoint(p) ==
  /\ endpoint[p].status = "absent"
  /\ endpoint' = [endpoint EXCEPT ![p].status = "active"]
  /\ UNCHANGED <<event, delivery, worker, faults, history>>

(* External: no code path of the server switches an endpoint off; the      *)
(* worker expects an operator to.                                          *)
Deactivate(p) ==
  /\ endpoint[p].status = "active"
  /\ endpoint' = [endpoint EXCEPT ![p].status = "inactive"]
  /\ UNCHANGED <<event, delivery, worker, faults, history>>

(* next_attempt_at passes. *)
RowDue(d) ==
  /\ delivery[d].status \in {"pending", "failed"}
  /\ ~delivery[d].due
  /\ delivery' = [delivery EXCEPT ![d].due = TRUE]
  /\ UNCHANGED <<event, endpoint, worker, faults, history>>

(* disabled_until passes. *)
CircuitCloses(p) ==
  /\ endpoint[p].open
  /\ endpoint' = [endpoint EXCEPT ![p].open = FALSE]
  /\ UNCHANGED <<event, delivery, worker, faults, history>>

-----------------------------------------------------------------------------
(* fanOutPending *)

(* The events one tick takes: the oldest ids without dispatched_at. *)
Undispatched == {e \in Events : event[e] = "emitted"}
Oldest(S, n) == {e \in S : Cardinality({f \in S : f < e}) < n}
IsFirst(e, S) == e \in S /\ \A f \in S : e <= f

(* tick passes its re-entrancy guard and reads the undispatched events. *)
TickStart(w) ==
  /\ worker[w].pc = "idle"
  /\ worker' = [worker EXCEPT
       ![w] = [Idle EXCEPT !.pc = "events", !.events = Oldest(Undispatched, FanOutLimit)]]
  /\ UNCHANGED <<tables, faults, history>>

ReadEndpoints(w) ==
  /\ worker[w].pc = "events"
  /\ \E e \in Events :
       /\ IsFirst(e, worker[w].events)
       /\ worker' = [worker EXCEPT
            ![w].pc = "commit",
            ![w].targets = {[endpoint |-> p, open |-> endpoint[p].open] : p \in Matching(e)}]
  /\ UNCHANGED <<tables, faults, history>>

Copies(e, p) == {d \in Rows : d.event = e /\ d.endpoint = p}

(* The id the next row of an event and endpoint gets: no unique index over *)
(* the pair stops a second one.                                            *)
NewRow(e, p) == [event |-> e, endpoint |-> p, copy |-> 1 + Cardinality(Copies(e, p))]

(* Mutant: endpoints behind an open breaker get no row. *)
FanOutClosedOnly(w, e) ==
  LET inserted == {NewRow(e, t.endpoint) : t \in {x \in worker[w].targets : ~x.open}}
  IN  /\ inserted \subseteq RowIds
      /\ delivery' = [d \in RowIds |->
           IF d \in inserted THEN [status |-> "pending", attempt |-> 0, due |-> TRUE] ELSE delivery[d]]
      /\ event' = [event EXCEPT ![e] = "dispatched"]

(* Mutant: the rows and dispatched_at are written by two calls. *)
FanOutTwoCalls(w, e) ==
  LET inserted == {NewRow(e, t.endpoint) : t \in worker[w].targets}
  IN  /\ inserted \subseteq RowIds
      /\ delivery' = [d \in RowIds |->
           IF d \in inserted THEN [status |-> "pending", attempt |-> 0, due |-> TRUE] ELSE delivery[d]]
      /\ event' \in {event, [event EXCEPT ![e] = "dispatched"]}

(* One transaction writes the rows and dispatched_at.  The row of an       *)
(* endpoint whose breaker was open is scheduled for its end.               *)
FanOut(w, e) ==
  LET new(t) == NewRow(e, t.endpoint)
      due == {new(t) : t \in {x \in worker[w].targets : ~x.open}}
      inserted == {new(t) : t \in worker[w].targets}
  IN  /\ inserted \subseteq RowIds
      /\ delivery' = [d \in RowIds |->
           IF d \in inserted
             THEN [status |-> "pending", attempt |-> 0, due |-> d \in due]
             ELSE delivery[d]]
      /\ event' = [event EXCEPT ![e] = "dispatched"]

CommitFanOut(w) ==
  /\ worker[w].pc = "commit"
  /\ \E e \in Events :
       /\ IsFirst(e, worker[w].events)
       /\ FanOut(w, e)
       /\ worker' = [worker EXCEPT
            ![w].pc = "events", ![w].targets = {}, ![w].events = @ \ {e}]
  /\ UNCHANGED <<endpoint, faults, history>>

-----------------------------------------------------------------------------
(* deliverDue *)

(* Mutant: the select has no status filter. *)
DueRowsOfAnyStatus == {d \in Rows : delivery[d].due}

(* Mutant: failed rows are not selected again. *)
DueRowsPending == {d \in Rows : delivery[d].status = "pending" /\ delivery[d].due}

DueRows == {d \in Rows : delivery[d].status \in {"pending", "failed"} /\ delivery[d].due}

(* At most DueLimit due rows, as they are now.  The order by               *)
(* next_attempt_at is abstract: any rows may be taken, in any order, and   *)
(* Fairness says that none is passed over for ever.                        *)
ReadDue(w) ==
  /\ worker[w].pc = "events"
  /\ worker[w].events = {}
  /\ \E S \in SUBSET DueRows :
       /\ Cardinality(S) <= DueLimit
       /\ S = DueRows \/ Cardinality(S) = DueLimit
       /\ worker' = [worker EXCEPT
            ![w].pc = "deliver",
            ![w].rows = {[id |-> d, attempt |-> delivery[d].attempt] : d \in S}]
  /\ UNCHANGED <<tables, faults, history>>

TickEnds(w) ==
  /\ worker[w].pc = "deliver"
  /\ worker[w].rows = {}
  /\ worker' = [worker EXCEPT ![w] = Idle]
  /\ UNCHANGED <<tables, faults, history>>

(* The endpoint decides: switched off, behind an open breaker, or posted   *)
(* to.  Its failure count is held until the attempt is accounted for.      *)
Route(p) ==
  IF endpoint[p].status /= "active" THEN "dead"
  ELSE IF endpoint[p].open THEN "defer"
  ELSE "post"

ReadEndpoint(w) ==
  /\ worker[w].pc = "deliver"
  /\ \E r \in worker[w].rows :
       worker' = [worker EXCEPT
         ![w].rows = @ \ {r},
         ![w].row = r,
         ![w].failures = endpoint[r.id.endpoint].failures,
         ![w].pc = Route(r.id.endpoint)]
  /\ UNCHANGED <<tables, faults, history>>

(* The worker turns to its next row. *)
Proceed(w) == worker' = [worker EXCEPT ![w].pc = "deliver", ![w].row = NoRow, ![w].failures = 0]

(* A call is its effect on the tables (SetDead...) and the worker's next   *)
(* step: ReplyLost has the one without the other.                          *)
SetDead(w) ==
  /\ worker[w].pc = "dead"
  /\ delivery' = [delivery EXCEPT ![worker[w].row.id].status = "dead"]
  /\ UNCHANGED <<event, endpoint, history>>

MarkDead(w) == SetDead(w) /\ Proceed(w) /\ UNCHANGED faults

SetDeferred(w) ==
  /\ worker[w].pc = "defer"
  /\ delivery' = [delivery EXCEPT ![worker[w].row.id].due = FALSE]
  /\ UNCHANGED <<event, endpoint, history>>

Defer(w) == SetDeferred(w) /\ Proceed(w) /\ UNCHANGED faults

(* The call: answered with a 2xx; refused (unreachable, private target,    *)
(* redirect, error status); or processed by the endpoint and timed out.    *)
Outcomes == {"ok", "refused", "unanswered"}

(* Mutant: any response counts as a delivery. *)
AnsweredAnyStatus(o) == IF o = "unanswered" THEN "fail" ELSE "ok"

Answered(o) == IF o = "ok" THEN "ok" ELSE "fail"

Post(w, o) ==
  LET d == worker[w].row.id
      p == d.endpoint
  IN  /\ worker[w].pc = "post"
      /\ posts' = [posts EXCEPT ![d] = @ + 1]
      /\ received' = IF o = "refused" THEN received ELSE received \cup {<<d.event, p>>}
      /\ streak' = [streak EXCEPT ![p] = IF o = "ok" THEN 0 ELSE @ + 1]
      /\ worker' = [worker EXCEPT ![w].pc = Answered(o)]
      /\ UNCHANGED <<tables, faults, owed, disputed>>

SetDelivered(w) ==
  /\ worker[w].pc = "ok"
  /\ delivery' = [delivery EXCEPT
       ![worker[w].row.id] = [@ EXCEPT !.status = "delivered", !.attempt = worker[w].row.attempt + 1]]
  /\ UNCHANGED <<event, endpoint, owed, posts, received, streak>>

(* The row is delivered; a failure count read above zero is cleared next.  *)
WriteDelivered(w) ==
  /\ SetDelivered(w)
  /\ IF worker[w].failures > 0
       THEN worker' = [worker EXCEPT ![w].pc = "reset"]
       ELSE Proceed(w)
  /\ UNCHANGED <<disputed, faults>>

ClearFailures(w) ==
  /\ worker[w].pc = "reset"
  /\ endpoint' = [endpoint EXCEPT ![worker[w].row.id.endpoint].failures = 0]
  /\ UNCHANGED <<event, delivery, history>>

ResetFailures(w) == ClearFailures(w) /\ Proceed(w) /\ UNCHANGED faults

-----------------------------------------------------------------------------
(* onFailure *)

(* Mutant: one attempt too many. *)
TerminalAfter(n) == n > MaxAttempts

Terminal(n) == n >= MaxAttempts

(* The write goes by the row's id alone: it also hits a row that a         *)
(* "delivered" of the same attempt has reached.                            *)
SetFailed(w) ==
  LET n == worker[w].row.attempt + 1
  IN  /\ worker[w].pc = "fail"
      /\ delivery' = [delivery EXCEPT
           ![worker[w].row.id] = [status |-> IF Terminal(n) THEN "dead" ELSE "failed",
                                  attempt |-> n, due |-> FALSE]]
      /\ disputed' = disputed \ {worker[w].row.id}
      /\ UNCHANGED <<event, endpoint, owed, posts, received, streak>>

WriteFailed(w) ==
  /\ SetFailed(w)
  /\ worker' = [worker EXCEPT ![w].pc = "trip"]
  /\ UNCHANGED faults

(* The breaker: the count that was read, plus one; at the threshold the    *)
(* count starts again and the endpoint rests.                              *)
SetBreaker(w) ==
  LET p == worker[w].row.id.endpoint
      n == worker[w].failures + 1
  IN  /\ worker[w].pc = "trip"
      /\ IF n >= Threshold
           THEN /\ endpoint' = [endpoint EXCEPT ![p].failures = 0, ![p].open = TRUE]
                /\ streak' = [streak EXCEPT ![p] = 0]
           ELSE /\ endpoint' = [endpoint EXCEPT ![p].failures = n]
                /\ UNCHANGED streak
      /\ UNCHANGED <<event, delivery, owed, posts, received, disputed>>

WriteBreaker(w) == SetBreaker(w) /\ Proceed(w) /\ UNCHANGED faults

-----------------------------------------------------------------------------
(* Failures of the worker *)

Fault == faults < MaxFaults /\ faults' = faults + 1

(* A database call throws.  tick catches it, except that a failed write of *)
(* "delivered" lands in onFailure, and that the reset and onFailure's      *)
(* writes swallow their own failure and go on.                             *)
AfterError(w) ==
  CASE worker[w].pc = "ok" -> [worker[w] EXCEPT !.pc = "fail"]
    [] worker[w].pc = "fail" -> [worker[w] EXCEPT !.pc = "trip"]
    [] worker[w].pc \in {"reset", "trip"} ->
         [worker[w] EXCEPT !.pc = "deliver", !.row = NoRow, !.failures = 0]
    [] OTHER -> Idle

(* It throws and has changed nothing. *)
DbError(w) ==
  /\ worker[w].pc \notin {"idle", "post"}
  /\ Fault
  /\ worker' = [worker EXCEPT ![w] = AfterError(w)]
  /\ UNCHANGED <<tables, history>>

(* It throws, but it was committed: the answer was lost on the way. *)
ReplyLost(w) ==
  /\ Fault
  /\ worker' = [worker EXCEPT ![w] = AfterError(w)]
  /\ \/ /\ worker[w].pc = "commit"
        /\ \E e \in Events : IsFirst(e, worker[w].events) /\ FanOut(w, e)
        /\ UNCHANGED <<endpoint, history>>
     \/ /\ SetDelivered(w)
        /\ disputed' = disputed \cup {worker[w].row.id}
     \/ SetDead(w) \/ SetDeferred(w) \/ ClearFailures(w) \/ SetFailed(w) \/ SetBreaker(w)

Crash(w) ==
  /\ worker[w].pc /= "idle"
  /\ Fault
  /\ worker' = [worker EXCEPT ![w] = Idle]
  /\ UNCHANGED <<tables, history>>

-----------------------------------------------------------------------------
WorkerStep(w) ==
  \/ TickStart(w) \/ ReadEndpoints(w) \/ CommitFanOut(w)
  \/ ReadDue(w) \/ TickEnds(w) \/ ReadEndpoint(w) \/ MarkDead(w) \/ Defer(w)
  \/ \E o \in Outcomes : Post(w, o)
  \/ WriteDelivered(w) \/ ResetFailures(w) \/ WriteFailed(w) \/ WriteBreaker(w)

Next ==
  \/ \E e \in Events : Emit(e)
  \/ \E p \in Endpoints : RegisterWebhookEndpoint(p) \/ Deactivate(p) \/ CircuitCloses(p)
  \/ \E d \in RowIds : RowDue(d)
  \/ \E w \in Processes : WorkerStep(w) \/ DbError(w) \/ ReplyLost(w) \/ Crash(w)

Spec == Init /\ [][Next]_vars

Takes(w, d) == ReadDue(w) /\ d \in {r.id : r \in worker'[w].rows}

(* The poll timer keeps ticking and awaits return (the post under its      *)
(* timeout); clocks advance; the longest due rows are read first.          *)
Fairness ==
  /\ \A w \in Processes : WF_vars(WorkerStep(w))
  /\ \A d \in RowIds : WF_vars(RowDue(d)) /\ \A w \in Processes : SF_vars(Takes(w, d))
  /\ \A p \in Endpoints : WF_vars(CircuitCloses(p))

FairSpec == Spec /\ Fairness

-----------------------------------------------------------------------------
(* Properties *)

(* The tables and the workers hold what their columns and locals may hold. *)
TypeOK ==
  /\ event \in [Events -> {"none", "emitted", "dispatched"}]
  /\ endpoint \in [Endpoints -> EndpointRow]
  /\ delivery \in [RowIds -> DeliveryRow]
  /\ worker \in [Processes -> WorkerState]
  /\ faults \in 0..MaxFaults
  /\ owed \in [Events -> SUBSET Endpoints]
  /\ posts \in [RowIds -> Nat]
  /\ received \subseteq Events \X Endpoints
  /\ streak \in [Endpoints -> Nat]
  /\ disputed \subseteq RowIds

(* What a worker in the middle of a tick holds: an event it is fanning     *)
(* out, with every endpoint owed it; a row it is delivering, which exists; *)
(* after a 2xx, one that was received.                                     *)
Delivering == {"dead", "defer", "post", "ok", "reset", "fail", "trip"}

HeldRows ==
  \A w \in Processes :
    /\ \A r \in worker[w].rows : r.id \in Rows
    /\ worker[w].pc \in Delivering => worker[w].row \in DueRow /\ worker[w].row.id \in Rows
    /\ worker[w].pc = "ok" =>
         <<worker[w].row.id.event, worker[w].row.id.endpoint>> \in received

HeldEvents ==
  \A w \in Processes :
    /\ \A e \in worker[w].events : event[e] /= "none"
    /\ worker[w].pc = "commit" =>
         \A e \in worker[w].events : IsFirst(e, worker[w].events) =>
           \A p \in owed[e] : endpoint[p].status = "active" =>
             \E t \in worker[w].targets : t.endpoint = p

OwedKnown ==
  \A e \in Events : \A p \in owed[e] :
    event[e] /= "none" /\ endpoint[p].status /= "absent" /\ e \in Subscribes[p]

(* Fan-out loses nothing: an endpoint that was active when an event was    *)
(* committed, and still is, has a delivery row once the event is marked    *)
(* dispatched, whatever the breaker's state and wherever a worker crashed  *)
(* (fanOutPending).                                                        *)
FannedOutInFull ==
  \A e \in Events : event[e] = "dispatched" =>
    \A p \in owed[e] : endpoint[p].status = "active" => Copies(e, p) /= {}

(* An event reaches an endpoint as one delivery row (fanOutPending).       *)
OneDeliveryPerEndpoint ==
  \A e \in Events, p \in Endpoints : Cardinality(Copies(e, p)) <= 1

(* A row that says delivered was received, also when a crash or a lost     *)
(* write made the worker post it again (deliver).                          *)
DeliveredWasReceived ==
  \A d \in RowIds : delivery[d].status = "delivered" => <<d.event, d.endpoint>> \in received

(* A row is given up only after its full number of attempts, unless its    *)
(* endpoint was switched off: waiting behind an open breaker costs none    *)
(* (deliver, onFailure).                                                   *)
GivenUpOnlyWhenExhausted ==
  \A d \in RowIds :
    delivery[d].status = "dead" /\ endpoint[d.endpoint].status = "active"
      => posts[d] >= MaxAttempts

(* An endpoint is called at most webhookMaxAttempts times for a row, plus  *)
(* once for every crash or failed write that lost the record of an attempt *)
(* (deliver, onFailure).                                                   *)
AttemptsBounded ==
  \A d \in RowIds : posts[d] <= MaxAttempts + faults

(* failure_count is consecutive failures: between ticks of a worker that   *)
(* lost nothing it counts the failed attempts since the last success or    *)
(* trip (onFailure, deliver).                                              *)
BreakerCountsConsecutive ==
  faults = 0 /\ (\A w \in Processes : worker[w].pc \in {"idle", "deliver"})
    => \A p \in Endpoints : endpoint[p].failures = streak[p]

(* A row that was given up stays so, and a row marked delivered is touched *)
(* again in one case only: its write was reported as failed though it was  *)
(* committed, and onFailure records the same attempt over it as failed or  *)
(* dead (deliver's catch).                                                 *)
SettledIsFinal ==
  [][\A d \in RowIds : delivery[d].status \in {"delivered", "dead"} =>
       \/ delivery'[d] = delivery[d]
       \/ /\ d \in disputed
          /\ delivery[d].status = "delivered"
          /\ delivery'[d].status \in {"failed", "dead"}
          /\ delivery'[d].attempt = delivery[d].attempt]_vars

(* Every committed event is dispatched and each of its rows is delivered   *)
(* or given up, through crashes, failed calls and open breakers.           *)
EventuallySettled ==
  \A e \in Events : event[e] = "emitted" ~>
    /\ event[e] = "dispatched"
    /\ \A d \in Rows : d.event = e => delivery[d].status \in {"delivered", "dead"}

(* Attempts are accounted for: not more of them than allowed, not fewer    *)
(* before a row is given up, and the breaker counts the consecutive ones.  *)
RetriesAccounted == AttemptsBounded /\ GivenUpOnlyWhenExhausted /\ BreakerCountsConsecutive
=============================================================================
