---------------------------- MODULE OutboxProofs ----------------------------
(***************************************************************************)
(* What the outbox guarantees with any number of processes, endpoints,     *)
(* events and faults: tables of their types, complete fan-out, and no row  *)
(* marked delivered that was not received; and, with one worker, one row   *)
(* per endpoint, bounded retries and rows that stay settled.               *)
(***************************************************************************)
EXTENDS Outbox, FiniteSetTheorems, TLAPS

(* The inductive invariant: what workers hold between two calls. *)
OutboxInv ==
  TypeOK /\ HeldRows /\ HeldEvents /\ OwedKnown /\ FannedOutInFull /\ DeliveredWasReceived

-----------------------------------------------------------------------------
(* Types *)

(* The types of the parts of a state. *)
LEMMA PartTypes ==
  ASSUME TypeOK
  PROVE  /\ \A p \in Endpoints : endpoint[p] \in EndpointRow
         /\ \A d \in RowIds : delivery[d] \in DeliveryRow
         /\ \A w \in Processes : worker[w] \in WorkerState
BY DEF TypeOK

(* A worker that is delivering holds a row: HeldRows gives it a type. *)
LEMMA HeldRowType ==
  ASSUME TypeOK, HeldRows, NEW w \in Processes, worker[w].pc \in Delivering
  PROVE  /\ worker[w].row \in DueRow
         /\ worker[w].row.id \in RowIds
         /\ worker[w].row.attempt \in Nat
         /\ worker[w].row.id.endpoint \in Endpoints
         /\ worker[w].row.id.event \in Events
         /\ worker[w].failures \in 0..(Threshold - 1)
<1>1. worker[w] \in WorkerState
  BY PartTypes
<1>2. worker[w].row \in DueRow
  BY DEF HeldRows
<1> QED
  BY <1>1, <1>2 DEF DueRow, RowIds, WorkerState

LEMMA InitTypes ==
  ASSUME Init PROVE OutboxInv
<1> USE OutboxAssumption
<1>1. Idle \in WorkerState
  BY DEF Idle, WorkerState, Places
<1>2. TypeOK
  BY <1>1 DEF Init, TypeOK, EndpointRow, DeliveryRow
<1>3. HeldRows /\ HeldEvents
  BY DEF Init, HeldRows, HeldEvents, Idle, Delivering
<1>4. OwedKnown /\ FannedOutInFull /\ DeliveredWasReceived
  BY DEF Init, OwedKnown, FannedOutInFull, DeliveredWasReceived
<1> QED
  BY <1>2, <1>3, <1>4 DEF OutboxInv

(* The calls that write, but for the fan-out. *)
Write(w) ==
  SetDead(w) \/ SetDeferred(w) \/ SetDelivered(w) \/ ClearFailures(w) \/ SetFailed(w) \/ SetBreaker(w)

(* Where a write stands in the tick, and what it leaves alone. *)
LEMMA WriteFrame ==
  ASSUME NEW w \in Processes, Write(w)
  PROVE  /\ worker[w].pc \in Delivering /\ worker[w].pc /= "post"
         /\ UNCHANGED <<event, owed, posts, received>>
         /\ ~SetDelivered(w) => disputed' \subseteq disputed
<1>1. CASE SetDead(w)
  BY <1>1 DEF SetDead, SetDelivered, Delivering, history
<1>2. CASE SetDeferred(w)
  BY <1>2 DEF SetDeferred, SetDelivered, Delivering, history
<1>3. CASE SetDelivered(w)
  BY <1>3 DEF SetDelivered, Delivering
<1>4. CASE ClearFailures(w)
  BY <1>4 DEF ClearFailures, SetDelivered, Delivering, history
<1>5. CASE SetFailed(w)
  BY <1>5 DEF SetFailed, SetDelivered, Delivering
<1>6. CASE SetBreaker(w)
  <2>1. worker[w].pc = "trip" /\ UNCHANGED <<event, owed, posts, received, disputed>>
    BY <1>6 DEF SetBreaker
  <2> QED
    BY <2>1 DEF Delivering
<1> QED
  BY <1>1, <1>2, <1>3, <1>4, <1>5, <1>6 DEF Write

(* A write keeps the tables in their types. *)
LEMMA WriteTypes ==
  ASSUME TypeOK, HeldRows, NEW w \in Processes, Write(w)
  PROVE  /\ event' \in [Events -> {"none", "emitted", "dispatched"}]
         /\ endpoint' \in [Endpoints -> EndpointRow]
         /\ delivery' \in [RowIds -> DeliveryRow]
         /\ owed' \in [Events -> SUBSET Endpoints]
         /\ posts' \in [RowIds -> Nat]
         /\ received' \subseteq Events \X Endpoints
         /\ streak' \in [Endpoints -> Nat]
<1>a. Threshold \in Nat \ {0} /\ 0 \in 0..(Threshold - 1)
  BY OutboxAssumption
<1>t. /\ event \in [Events -> {"none", "emitted", "dispatched"}]
      /\ endpoint \in [Endpoints -> EndpointRow]
      /\ delivery \in [RowIds -> DeliveryRow]
      /\ owed \in [Events -> SUBSET Endpoints]
      /\ posts \in [RowIds -> Nat]
      /\ received \subseteq Events \X Endpoints
      /\ streak \in [Endpoints -> Nat]
  BY DEF TypeOK
<1>r. /\ worker[w].row.id \in RowIds /\ worker[w].row.attempt \in Nat
      /\ worker[w].row.id.endpoint \in Endpoints
      /\ worker[w].failures \in 0..(Threshold - 1)
  BY HeldRowType, WriteFrame
<1>1. CASE SetDead(w)
  BY <1>t, <1>r, <1>1 DEF SetDead, DeliveryRow, history
<1>2. CASE SetDeferred(w)
  BY <1>t, <1>r, <1>2 DEF SetDeferred, DeliveryRow, history
<1>3. CASE SetDelivered(w)
  <2>1. PICK d \in RowIds : d = worker[w].row.id
    BY <1>r
  <2>2. [delivery[d] EXCEPT !.status = "delivered", !.attempt = worker[w].row.attempt + 1] \in DeliveryRow
    <3>1. PICK r \in DeliveryRow, n \in Nat : r = delivery[d] /\ n = worker[w].row.attempt + 1
      BY <1>t, <1>r
    <3>2. [r EXCEPT !.status = "delivered", !.attempt = n] \in DeliveryRow
      BY DEF DeliveryRow
    <3> QED
      BY <3>1, <3>2
  <2>3. delivery' \in [RowIds -> DeliveryRow]
    BY <1>t, <1>3, <2>1, <2>2 DEF SetDelivered
  <2> QED
    BY <1>t, <1>3, <2>3 DEF SetDelivered
<1>4. CASE ClearFailures(w)
  BY <1>a, <1>t, <1>r, <1>4 DEF ClearFailures, EndpointRow, history
<1>5. CASE SetFailed(w)
  BY <1>t, <1>r, <1>5 DEF SetFailed, DeliveryRow
<1>6. CASE SetBreaker(w)
  <2>1. endpoint' \in [Endpoints -> EndpointRow] /\ streak' \in [Endpoints -> Nat]
    <3>1. PICK p \in Endpoints : p = worker[w].row.id.endpoint
      BY <1>r
    <3>2. CASE worker[w].failures + 1 >= Threshold
      <4>1. /\ endpoint' = [endpoint EXCEPT ![p].failures = 0, ![p].open = TRUE]
            /\ streak' = [streak EXCEPT ![p] = 0]
        BY <1>6, <3>1, <3>2 DEF SetBreaker
      <4>2. endpoint[p] \in EndpointRow
        BY <1>t
      <4>3. endpoint' \in [Endpoints -> EndpointRow]
        BY <1>a, <1>t, <4>1, <4>2 DEF EndpointRow
      <4> QED
        BY <1>t, <4>1, <4>3
    <3>3. CASE ~(worker[w].failures + 1 >= Threshold)
      <4>1. worker[w].failures + 1 \in 0..(Threshold - 1)
        BY <1>a, <1>r, <3>3
      <4>2. endpoint' = [endpoint EXCEPT ![p].failures = worker[w].failures + 1] /\ UNCHANGED streak
        BY <1>6, <3>1, <3>3 DEF SetBreaker
      <4> QED
        BY <1>t, <3>1, <4>1, <4>2 DEF EndpointRow
    <3> QED
      BY <3>2, <3>3
  <2> QED
    BY <1>t, <1>6, <2>1 DEF SetBreaker
<1> QED
  BY <1>1, <1>2, <1>3, <1>4, <1>5, <1>6 DEF Write

(* Whatever call fails, the worker goes on in a legal state. *)
LEMMA AfterErrorType ==
  ASSUME TypeOK, NEW w \in Processes
  PROVE  AfterError(w) \in WorkerState
<1>1. worker[w] \in WorkerState /\ Idle \in WorkerState /\ 0 \in 0..(Threshold - 1)
  BY OutboxAssumption DEF TypeOK, Idle, WorkerState, Places
<1>2. CASE worker[w].pc = "ok"
  BY <1>1, <1>2 DEF AfterError, WorkerState, Places
<1>3. CASE worker[w].pc = "fail"
  BY <1>1, <1>3 DEF AfterError, WorkerState, Places
<1>4. CASE worker[w].pc \in {"reset", "trip"}
  BY <1>1, <1>4 DEF AfterError, WorkerState, Places
<1>5. CASE worker[w].pc \notin {"ok", "fail", "reset", "trip"}
  BY <1>1, <1>5 DEF AfterError
<1> QED
  BY <1>2, <1>3, <1>4, <1>5

(* Every step keeps the types. *)
LEMMA TypeStep ==
  ASSUME TypeOK, HeldRows, [Next]_vars
  PROVE  TypeOK'
<1>a. Threshold \in Nat \ {0} /\ 0 \in 0..(Threshold - 1) /\ MaxFaults \in Nat
  BY OutboxAssumption
<1>t. /\ event \in [Events -> {"none", "emitted", "dispatched"}]
      /\ endpoint \in [Endpoints -> EndpointRow]
      /\ delivery \in [RowIds -> DeliveryRow]
      /\ worker \in [Processes -> WorkerState]
      /\ faults \in 0..MaxFaults
      /\ owed \in [Events -> SUBSET Endpoints]
      /\ posts \in [RowIds -> Nat]
      /\ received \subseteq Events \X Endpoints
      /\ streak \in [Endpoints -> Nat]
      /\ disputed \subseteq RowIds
  BY DEF TypeOK
<1>i. Idle \in WorkerState
  BY <1>a DEF Idle, WorkerState, Places
<1>1. CASE UNCHANGED vars
  BY <1>1 DEF TypeOK, vars
<1>2. ASSUME NEW e \in Events, Emit(e) PROVE TypeOK'
  BY <1>t, <1>2 DEF Emit, TypeOK, Matching
<1>3. ASSUME NEW p \in Endpoints, RegisterWebhookEndpoint(p) PROVE TypeOK'
  BY <1>t, <1>3 DEF RegisterWebhookEndpoint, TypeOK, EndpointRow, history
<1>4. ASSUME NEW p \in Endpoints, Deactivate(p) PROVE TypeOK'
  BY <1>t, <1>4 DEF Deactivate, TypeOK, EndpointRow, history
<1>5. ASSUME NEW p \in Endpoints, CircuitCloses(p) PROVE TypeOK'
  BY <1>t, <1>5 DEF CircuitCloses, TypeOK, EndpointRow, history
<1>6. ASSUME NEW d \in RowIds, RowDue(d) PROVE TypeOK'
  BY <1>t, <1>6 DEF RowDue, TypeOK, DeliveryRow, history
<1>7. ASSUME NEW w \in Processes, WorkerStep(w) PROVE TypeOK'
  <2>w. worker[w] \in WorkerState
    BY <1>t
  <2>n. ASSUME NEW s \in WorkerState, worker' = [worker EXCEPT ![w] = s]
        PROVE  worker' \in [Processes -> WorkerState]
    BY <1>t, <2>n
  <2>1. CASE TickStart(w)
    BY <1>t, <1>i, <2>1 DEF TickStart, TypeOK, tables, history, Idle, WorkerState, Places, Oldest, Undispatched
  <2>2. CASE ReadEndpoints(w)
    <3>1. PICK e \in Events : worker' = [worker EXCEPT
            ![w].pc = "commit",
            ![w].targets = {[endpoint |-> p, open |-> endpoint[p].open] : p \in Matching(e)}]
      BY <2>2 DEF ReadEndpoints
    <3>2. {[endpoint |-> p, open |-> endpoint[p].open] : p \in Matching(e)}
            \in SUBSET [endpoint : Endpoints, open : BOOLEAN]
      BY <1>t DEF Matching, EndpointRow
    <3>3. worker' \in [Processes -> WorkerState]
      BY <1>t, <2>w, <3>1, <3>2 DEF WorkerState, Places
    <3> QED
      BY <1>t, <2>2, <3>3 DEF ReadEndpoints, TypeOK, tables, history
  <2>3. CASE CommitFanOut(w)
    <3>1. PICK e \in Events :
            /\ FanOut(w, e)
            /\ worker' = [worker EXCEPT ![w].pc = "events", ![w].targets = {}, ![w].events = @ \ {e}]
      BY <2>3 DEF CommitFanOut
    <3>2. worker' \in [Processes -> WorkerState]
      BY <1>t, <2>w, <3>1 DEF WorkerState, Places
    <3>3. delivery' \in [RowIds -> DeliveryRow]
      BY <1>t, <3>1 DEF FanOut, DeliveryRow
    <3>4. event' \in [Events -> {"none", "emitted", "dispatched"}]
      BY <1>t, <3>1 DEF FanOut
    <3> QED
      BY <1>t, <2>3, <3>2, <3>3, <3>4 DEF CommitFanOut, TypeOK, history
  <2>4. CASE ReadDue(w)
    <3>1. PICK S \in SUBSET DueRows : worker' = [worker EXCEPT
            ![w].pc = "deliver",
            ![w].rows = {[id |-> d, attempt |-> delivery[d].attempt] : d \in S}]
      BY <2>4 DEF ReadDue
    <3>2. {[id |-> d, attempt |-> delivery[d].attempt] : d \in S} \in SUBSET DueRow
      BY <1>t DEF DueRows, Rows, DeliveryRow, DueRow
    <3>3. worker' \in [Processes -> WorkerState]
      BY <1>t, <2>w, <3>1, <3>2 DEF WorkerState, Places
    <3> QED
      BY <1>t, <2>4, <3>3 DEF ReadDue, TypeOK, tables, history
  <2>5. CASE TickEnds(w)
    BY <1>t, <1>i, <2>5 DEF TickEnds, TypeOK, tables, history
  <2>6. CASE ReadEndpoint(w)
    <3>1. PICK r \in worker[w].rows : worker' = [worker EXCEPT
            ![w].rows = @ \ {r},
            ![w].row = r,
            ![w].failures = endpoint[r.id.endpoint].failures,
            ![w].pc = Route(r.id.endpoint)]
      BY <2>6 DEF ReadEndpoint
    <3>2. r \in DueRow /\ r.id.endpoint \in Endpoints
      BY <2>w DEF WorkerState, DueRow, RowIds
    <3>3. endpoint[r.id.endpoint].failures \in 0..(Threshold - 1)
      BY <1>t, <3>2 DEF EndpointRow
    <3>4. Route(r.id.endpoint) \in Places
      BY DEF Route, Places
    <3>5. worker' \in [Processes -> WorkerState]
      BY <1>t, <2>w, <3>1, <3>2, <3>3, <3>4 DEF WorkerState
    <3> QED
      BY <1>t, <2>6, <3>5 DEF ReadEndpoint, TypeOK, tables, history
  <2>p. ASSUME Proceed(w) PROVE worker' \in [Processes -> WorkerState]
    BY <1>a, <1>t, <2>w, <2>p DEF Proceed, WorkerState, Places
  <2>7. CASE MarkDead(w) \/ Defer(w) \/ ResetFailures(w) \/ WriteBreaker(w)
    <3>1. Write(w) /\ Proceed(w) /\ UNCHANGED faults
      BY <2>7 DEF MarkDead, Defer, ResetFailures, WriteBreaker, Write
    <3>2. ~SetDelivered(w)
      BY <2>7 DEF MarkDead, Defer, ResetFailures, WriteBreaker, SetDead, SetDeferred, ClearFailures,
                  SetBreaker, SetDelivered
    <3>3. disputed' \subseteq disputed
      BY <3>1, <3>2, WriteFrame
    <3> QED
      BY <1>t, <2>p, <3>1, <3>3, WriteTypes DEF TypeOK
  <2>9. ASSUME NEW o \in Outcomes, Post(w, o) PROVE TypeOK'
    <3>1. worker[w].row.id \in RowIds /\ worker[w].row.id.endpoint \in Endpoints
            /\ worker[w].row.id.event \in Events
      BY <2>9, HeldRowType DEF Post, Delivering
    <3>2. worker' \in [Processes -> WorkerState]
      BY <1>t, <2>w, <2>9 DEF Post, Answered, WorkerState, Places
    <3>3. posts' \in [RowIds -> Nat] /\ streak' \in [Endpoints -> Nat]
      BY <1>t, <2>9, <3>1 DEF Post
    <3>4. received' \subseteq Events \X Endpoints
      BY <1>t, <2>9, <3>1 DEF Post
    <3> QED
      BY <1>t, <2>9, <3>2, <3>3, <3>4 DEF Post, TypeOK, tables
  <2>10. CASE WriteDelivered(w)
    <3>1. Write(w) /\ UNCHANGED <<faults, disputed>>
      BY <2>10 DEF WriteDelivered, Write
    <3>2. worker' \in [Processes -> WorkerState]
      <4>1. CASE worker[w].failures > 0
        <5>1. worker' = [worker EXCEPT ![w].pc = "reset"]
          BY <2>10, <4>1 DEF WriteDelivered
        <5>2. [worker[w] EXCEPT !.pc = "reset"] \in WorkerState
          BY <2>w DEF WorkerState, Places
        <5> QED
          BY <1>t, <5>1, <5>2
      <4>2. CASE ~(worker[w].failures > 0)
        BY <2>10, <2>p, <4>2 DEF WriteDelivered
      <4> QED
        BY <4>1, <4>2
    <3> QED
      BY <1>t, <3>1, <3>2, WriteTypes DEF TypeOK
  <2>11. CASE WriteFailed(w)
    <3>1. Write(w) /\ UNCHANGED faults /\ disputed' \subseteq disputed
      BY <2>11 DEF WriteFailed, SetFailed, Write
    <3>2. worker' \in [Processes -> WorkerState]
      BY <1>t, <2>w, <2>11 DEF WriteFailed, WorkerState, Places
    <3> QED
      BY <1>t, <3>1, <3>2, WriteTypes DEF TypeOK
  <2> QED
    BY <1>7, <2>1, <2>2, <2>3, <2>4, <2>5, <2>6, <2>7, <2>9, <2>10, <2>11 DEF WorkerStep
<1>e. ASSUME NEW w \in Processes, worker' = [worker EXCEPT ![w] = AfterError(w)], Fault
      PROVE  worker' \in [Processes -> WorkerState] /\ faults' \in 0..MaxFaults
  BY <1>a, <1>t, <1>e, AfterErrorType DEF Fault
<1>8. ASSUME NEW w \in Processes, DbError(w) PROVE TypeOK'
  BY <1>e, <1>t, <1>8 DEF DbError, TypeOK, tables, history
<1>9. ASSUME NEW w \in Processes, Crash(w) PROVE TypeOK'
  BY <1>a, <1>t, <1>i, <1>9 DEF Crash, Fault, TypeOK, tables, history
<1>10. ASSUME NEW w \in Processes, ReplyLost(w) PROVE TypeOK'
  <2>1. worker' \in [Processes -> WorkerState] /\ faults' \in 0..MaxFaults
    BY <1>e, <1>10 DEF ReplyLost
  <2>2. ASSUME NEW e \in Events, FanOut(w, e), UNCHANGED <<endpoint, history>> PROVE TypeOK'
    BY <1>t, <2>1, <2>2 DEF FanOut, TypeOK, DeliveryRow, history
  <2>3. ASSUME Write(w), disputed' \subseteq RowIds PROVE TypeOK'
    BY <2>1, <2>3, WriteTypes DEF TypeOK
  <2>4. CASE SetDelivered(w) /\ disputed' = disputed \cup {worker[w].row.id}
    BY <1>t, <2>3, <2>4, HeldRowType DEF Write, SetDelivered, Delivering
  <2>5. CASE SetDead(w) \/ SetDeferred(w) \/ ClearFailures(w) \/ SetFailed(w) \/ SetBreaker(w)
    <3>1. Write(w)
      BY <2>5 DEF Write
    <3>2. ~SetDelivered(w)
      BY <2>5 DEF SetDead, SetDeferred, ClearFailures, SetFailed, SetBreaker, SetDelivered
    <3> QED
      BY <1>t, <2>3, <3>1, <3>2, WriteFrame
  <2> QED
    BY <1>10, <2>2, <2>4, <2>5 DEF ReplyLost
<1> QED
  BY <1>1, <1>2, <1>3, <1>4, <1>5, <1>6, <1>7, <1>8, <1>9, <1>10 DEF Next

-----------------------------------------------------------------------------
(* Rows *)

(* A write to a row that exists leaves it in the table. *)
LEMMA WriteKeepsRows ==
  ASSUME delivery \in [RowIds -> DeliveryRow], NEW d \in RowIds, NEW r,
         r.status /= "absent", delivery' = [delivery EXCEPT ![d] = r]
  PROVE  Rows \subseteq Rows'
BY DEF Rows

(* A fan-out adds the rows of its targets and touches no other.  That it   *)
(* gives each target a row is what FannedOutInFull rests on.               *)
LEMMA FanOutRows ==
  ASSUME TypeOK, NEW w \in Processes, NEW e \in Events, FanOut(w, e)
  PROVE  /\ Rows \subseteq Rows'
         /\ \A t \in worker[w].targets : Copies(e, t.endpoint)' /= {}
         /\ \A d \in RowIds : delivery'[d].status = "delivered" => delivery[d].status = "delivered"
<1>1. PICK inserted, due :
        /\ inserted = {NewRow(e, t.endpoint) : t \in worker[w].targets}
        /\ inserted \subseteq RowIds
        /\ delivery' = [d \in RowIds |->
             IF d \in inserted
               THEN [status |-> "pending", attempt |-> 0, due |-> d \in due]
               ELSE delivery[d]]
  BY DEF FanOut
<1>2. Rows \subseteq Rows' /\ inserted \subseteq Rows'
  BY <1>1 DEF Rows
<1>3. ASSUME NEW t \in worker[w].targets PROVE Copies(e, t.endpoint)' /= {}
  <2>1. NewRow(e, t.endpoint) \in Rows'
    BY <1>1, <1>2
  <2>2. NewRow(e, t.endpoint).event = e /\ NewRow(e, t.endpoint).endpoint = t.endpoint
    BY DEF NewRow
  <2> QED
    BY <2>1, <2>2 DEF Copies
<1>4. \A d \in RowIds : delivery'[d].status = "delivered" => delivery[d].status = "delivered"
  BY <1>1
<1> QED
  BY <1>2, <1>3, <1>4

(* No step removes a row, or forgets that an event was received. *)
LEMMA RowsStay ==
  ASSUME TypeOK, HeldRows, [Next]_vars
  PROVE  Rows \subseteq Rows' /\ received \subseteq received'
<1>t. delivery \in [RowIds -> DeliveryRow]
  BY DEF TypeOK
<1>1. CASE UNCHANGED delivery /\ UNCHANGED received
  BY <1>1 DEF Rows
<1>2. ASSUME NEW d \in RowIds, RowDue(d) PROVE Rows \subseteq Rows' /\ received \subseteq received'
  BY <1>t, <1>2 DEF RowDue, Rows, DeliveryRow, history
<1>3. ASSUME NEW w \in Processes, NEW e \in Events, FanOut(w, e), UNCHANGED received
      PROVE  Rows \subseteq Rows' /\ received \subseteq received'
  BY <1>3, FanOutRows
<1>4. ASSUME NEW w \in Processes, Write(w)
      PROVE  Rows \subseteq Rows' /\ received \subseteq received'
  <2>0. received' = received
    BY <1>4, WriteFrame
  <2>1. CASE SetDead(w)
    BY <1>t, <2>0, <2>1, HeldRowType DEF SetDead, Delivering, Rows, DeliveryRow
  <2>2. CASE SetDeferred(w)
    BY <1>t, <2>0, <2>2, HeldRowType DEF SetDeferred, Delivering, Rows, DeliveryRow
  <2>3. CASE SetDelivered(w)
    <3>1. PICK d \in RowIds : d = worker[w].row.id
      BY <2>3, HeldRowType DEF SetDelivered, Delivering
    <3>2. PICK r : r = [delivery[d] EXCEPT !.status = "delivered", !.attempt = worker[w].row.attempt + 1]
      OBVIOUS
    <3>3. delivery' = [delivery EXCEPT ![d] = r]
      BY <2>3, <3>1, <3>2 DEF SetDelivered
    <3>4. r.status = "delivered"
      BY <1>t, <3>2 DEF DeliveryRow
    <3> QED
      BY <1>t, <2>0, <3>3, <3>4, WriteKeepsRows
  <2>4. CASE SetFailed(w)
    <3>1. PICK d \in RowIds : d = worker[w].row.id
      BY <2>4, HeldRowType DEF SetFailed, Delivering
    <3>2. PICK r : r = [status |-> IF Terminal(worker[w].row.attempt + 1) THEN "dead" ELSE "failed",
                        attempt |-> worker[w].row.attempt + 1, due |-> FALSE]
      OBVIOUS
    <3>3. delivery' = [delivery EXCEPT ![d] = r] /\ r.status /= "absent"
      BY <2>4, <3>1, <3>2 DEF SetFailed
    <3> QED
      BY <1>t, <2>0, <3>3, WriteKeepsRows
  <2>5. CASE ClearFailures(w) \/ SetBreaker(w)
    BY <1>1, <2>0, <2>5 DEF ClearFailures, SetBreaker
  <2> QED
    BY <1>4, <2>1, <2>2, <2>3, <2>4, <2>5 DEF Write
<1>5. ASSUME NEW w \in Processes, NEW o \in Outcomes, Post(w, o)
      PROVE  Rows \subseteq Rows' /\ received \subseteq received'
  BY <1>5 DEF Post, tables, Rows
<1>6. ASSUME NEW w \in Processes, WorkerStep(w) \/ ReplyLost(w)
      PROVE  Rows \subseteq Rows' /\ received \subseteq received'
  <2>1. CASE \/ MarkDead(w) \/ Defer(w) \/ WriteDelivered(w) \/ ResetFailures(w)
             \/ WriteFailed(w) \/ WriteBreaker(w)
    BY <1>4, <2>1
       DEF MarkDead, Defer, WriteDelivered, ResetFailures, WriteFailed, WriteBreaker, Write
  <2>2. CASE CommitFanOut(w)
    BY <1>3, <2>2 DEF CommitFanOut, history
  <2>3. CASE TickStart(w) \/ ReadEndpoints(w) \/ ReadDue(w) \/ TickEnds(w) \/ ReadEndpoint(w)
    BY <1>1, <2>3 DEF TickStart, ReadEndpoints, ReadDue, TickEnds, ReadEndpoint, tables, history
  <2>4. CASE ReplyLost(w)
    <3>1. \/ Write(w)
          \/ UNCHANGED received /\ \E e \in Events : FanOut(w, e)
      BY <2>4 DEF ReplyLost, Write, history
    <3> QED
      BY <1>3, <1>4, <3>1
  <2> QED
    BY <1>5, <1>6, <2>1, <2>2, <2>3, <2>4 DEF WorkerStep
<1> QED
  BY <1>1, <1>2, <1>6
     DEF Next, vars, Emit, RegisterWebhookEndpoint, Deactivate, CircuitCloses, DbError, Crash, tables, history

(* What one worker holds, given the rows of the table and the received     *)
(* pairs: HeldRows says it of every worker.                                *)
HeldBy(v, rows, pairs) ==
  /\ \A r \in v.rows : r.id \in rows
  /\ v.pc \in Delivering => v.row \in DueRow /\ v.row.id \in rows
  /\ v.pc = "ok" => <<v.row.id.event, v.row.id.endpoint>> \in pairs

(* Workers hold rows that exist, and what was answered with a 2xx was      *)
(* received.                                                               *)
LEMMA HeldRowsStep ==
  ASSUME TypeOK, HeldRows, [Next]_vars
  PROVE  HeldRows'
<1>h. \A x \in Processes : HeldBy(worker[x], Rows, received)
  BY DEF HeldRows, HeldBy
<1>s. Rows \subseteq Rows' /\ received \subseteq received'
  BY RowsStay
<1>m. \A x \in Processes : HeldBy(worker[x], Rows', received')
  BY <1>h, <1>s DEF HeldBy
<1>t. worker \in [Processes -> WorkerState]
  BY DEF TypeOK
<1>i. HeldBy(Idle, Rows', received')
  BY DEF HeldBy, Idle, Delivering
<1>q. SUFFICES \A x \in Processes : HeldBy(worker'[x], Rows', received')
  BY DEF HeldRows, HeldBy
<1>1. CASE UNCHANGED worker
  BY <1>1, <1>m
<1>2. ASSUME NEW w \in Processes, NEW v, worker' = [worker EXCEPT ![w] = v],
             HeldBy(v, Rows', received')
      PROVE  \A x \in Processes : HeldBy(worker'[x], Rows', received')
  BY <1>2, <1>t, <1>m
<1>3. ASSUME NEW w \in Processes, WorkerStep(w)
      PROVE  \A x \in Processes : HeldBy(worker'[x], Rows', received')
  <2>m. HeldBy(worker[w], Rows', received') /\ worker[w] \in WorkerState
    BY <1>m, <1>t
  <2>o. \A x \in Processes \ {w} : worker'[x] = worker[x]
    BY <1>3, <1>t
       DEF WorkerStep, TickStart, ReadEndpoints, CommitFanOut, ReadDue, TickEnds, ReadEndpoint,
           MarkDead, Defer, Post, WriteDelivered, ResetFailures, WriteFailed, WriteBreaker, Proceed
  <2>q. SUFFICES HeldBy(worker'[w], Rows', received')
    BY <1>m, <2>o
  <2>p. ASSUME Proceed(w) PROVE HeldBy(worker'[w], Rows', received')
    BY <1>t, <2>m, <2>p DEF Proceed, HeldBy, Delivering, WorkerState
  <2>1. CASE TickStart(w)
    BY <1>t, <2>1 DEF TickStart, Idle, HeldBy, Delivering
  <2>2. CASE ReadEndpoints(w)
    <3>1. worker'[w].rows = worker[w].rows /\ worker'[w].pc = "commit"
      BY <1>t, <2>m, <2>2 DEF ReadEndpoints, WorkerState
    <3> QED
      BY <2>m, <3>1 DEF HeldBy, Delivering
  <2>3. CASE CommitFanOut(w)
    <3>1. worker'[w].rows = worker[w].rows /\ worker'[w].pc = "events"
      BY <1>t, <2>m, <2>3 DEF CommitFanOut, WorkerState
    <3> QED
      BY <2>m, <3>1 DEF HeldBy, Delivering
  <2>4. CASE ReadDue(w)
    <3>1. PICK S \in SUBSET DueRows : worker' = [worker EXCEPT
            ![w].pc = "deliver",
            ![w].rows = {[id |-> d, attempt |-> delivery[d].attempt] : d \in S}]
      BY <2>4 DEF ReadDue
    <3>2. worker'[w].pc = "deliver"
            /\ worker'[w].rows = {[id |-> d, attempt |-> delivery[d].attempt] : d \in S}
      BY <1>t, <2>m, <3>1 DEF WorkerState
    <3>3. S \subseteq Rows'
      BY <1>s DEF DueRows
    <3> QED
      BY <3>2, <3>3 DEF HeldBy, Delivering
  <2>5. CASE TickEnds(w)
    BY <1>t, <1>i, <2>5 DEF TickEnds
  <2>6. CASE ReadEndpoint(w)
    <3>1. PICK r \in worker[w].rows : worker' = [worker EXCEPT
            ![w].rows = @ \ {r},
            ![w].row = r,
            ![w].failures = endpoint[r.id.endpoint].failures,
            ![w].pc = Route(r.id.endpoint)]
      BY <2>6 DEF ReadEndpoint
    <3>2. /\ worker'[w].rows = worker[w].rows \ {r}
          /\ worker'[w].row = r
          /\ worker'[w].pc = Route(r.id.endpoint)
      BY <1>t, <2>m, <3>1 DEF WorkerState
    <3>3. r.id \in Rows' /\ r \in DueRow
      BY <2>m DEF HeldBy, WorkerState
    <3>5. worker'[w].pc /= "ok"
      BY <3>2 DEF Route
    <3> QED
      BY <2>m, <3>2, <3>3, <3>5 DEF HeldBy
  <2>7. CASE MarkDead(w) \/ Defer(w) \/ ResetFailures(w) \/ WriteBreaker(w)
    BY <2>7, <2>p DEF MarkDead, Defer, ResetFailures, WriteBreaker
  <2>8. ASSUME NEW o \in Outcomes, Post(w, o) PROVE HeldBy(worker'[w], Rows', received')
    <3>1. /\ worker'[w].rows = worker[w].rows
          /\ worker'[w].row = worker[w].row
          /\ worker'[w].pc = Answered(o)
      BY <1>t, <2>m, <2>8 DEF Post, WorkerState
    <3>2. o = "ok" => <<worker[w].row.id.event, worker[w].row.id.endpoint>> \in received'
      BY <2>8 DEF Post
    <3>3. worker[w].row \in DueRow /\ worker[w].row.id \in Rows'
      BY <2>m, <2>8 DEF Post, HeldBy, Delivering
    <3> QED
      BY <2>m, <3>1, <3>2, <3>3 DEF HeldBy, Answered
  <2>9. CASE WriteDelivered(w)
    <3>1. CASE worker[w].failures > 0
      <4>1. /\ worker'[w].rows = worker[w].rows
            /\ worker'[w].row = worker[w].row
            /\ worker'[w].pc = "reset"
        BY <1>t, <2>m, <2>9, <3>1 DEF WriteDelivered, WorkerState
      <4> QED
        BY <2>m, <2>9, <4>1 DEF WriteDelivered, SetDelivered, HeldBy, Delivering
    <3>2. CASE ~(worker[w].failures > 0)
      BY <2>9, <2>p, <3>2 DEF WriteDelivered
    <3> QED
      BY <3>1, <3>2
  <2>10. CASE WriteFailed(w)
    <3>1. /\ worker'[w].rows = worker[w].rows
          /\ worker'[w].row = worker[w].row
          /\ worker'[w].pc = "trip"
      BY <1>t, <2>m, <2>10 DEF WriteFailed, WorkerState
    <3> QED
      BY <2>m, <2>10, <3>1 DEF WriteFailed, SetFailed, HeldBy, Delivering
  <2> QED
    BY <1>3, <2>1, <2>2, <2>3, <2>4, <2>5, <2>6, <2>7, <2>8, <2>9, <2>10 DEF WorkerStep
<1>4. ASSUME NEW w \in Processes, DbError(w) \/ ReplyLost(w)
      PROVE  \A x \in Processes : HeldBy(worker'[x], Rows', received')
  <2>1. worker[w] \in WorkerState /\ HeldBy(worker[w], Rows', received')
    BY <1>m, <1>t
  <2>2. HeldBy(AfterError(w), Rows', received')
    <3>1. CASE worker[w].pc = "ok"
      BY <2>1, <3>1 DEF AfterError, HeldBy, Delivering, WorkerState
    <3>2. CASE worker[w].pc = "fail"
      BY <2>1, <3>2 DEF AfterError, HeldBy, Delivering, WorkerState
    <3>3. CASE worker[w].pc \in {"reset", "trip"}
      BY <2>1, <3>3 DEF AfterError, HeldBy, Delivering, WorkerState
    <3>4. CASE worker[w].pc \notin {"ok", "fail", "reset", "trip"}
      BY <1>i, <3>4 DEF AfterError
    <3> QED
      BY <3>1, <3>2, <3>3, <3>4
  <2>3. worker' = [worker EXCEPT ![w] = AfterError(w)]
    BY <1>4 DEF DbError, ReplyLost
  <2> QED
    BY <1>2, <2>2, <2>3
<1>5. ASSUME NEW w \in Processes, Crash(w)
      PROVE  \A x \in Processes : HeldBy(worker'[x], Rows', received')
  BY <1>2, <1>5, <1>i DEF Crash
<1> QED
  BY <1>1, <1>3, <1>4, <1>5
     DEF Next, vars, Emit, RegisterWebhookEndpoint, Deactivate, CircuitCloses, RowDue

-----------------------------------------------------------------------------
(* Fan-out *)

(* The steps that touch the events, or what is owed: the emission, and the *)
(* transaction of the fan-out, whether its answer arrives or not.          *)
LEMMA EventSteps ==
  ASSUME [Next]_vars
  PROVE  \/ UNCHANGED <<event, owed>>
         \/ \E e \in Events : Emit(e)
         \/ \E w \in Processes :
              /\ worker[w].pc = "commit" /\ UNCHANGED <<endpoint, history>>
              /\ \E e \in Events : IsFirst(e, worker[w].events) /\ FanOut(w, e)
<1> DEFINE Same == UNCHANGED <<event, owed>>
           Fans(w) == /\ worker[w].pc = "commit" /\ UNCHANGED <<endpoint, history>>
                      /\ \E e \in Events : IsFirst(e, worker[w].events) /\ FanOut(w, e)
<1> HIDE DEF Same, Fans
<1>1. ASSUME UNCHANGED vars PROVE Same
  BY <1>1 DEF vars, Same
<1>2. ASSUME NEW p \in Endpoints, RegisterWebhookEndpoint(p) \/ Deactivate(p) \/ CircuitCloses(p)
      PROVE  Same
  BY <1>2 DEF RegisterWebhookEndpoint, Deactivate, CircuitCloses, history, Same
<1>3. ASSUME NEW d \in RowIds, RowDue(d) PROVE Same
  BY <1>3 DEF RowDue, history, Same
<1>4. ASSUME NEW w \in Processes, Write(w) PROVE Same
  BY <1>4, WriteFrame DEF Same
<1>5. ASSUME NEW w \in Processes, WorkerStep(w) PROVE Same \/ Fans(w)
  <2>1. CASE \/ MarkDead(w) \/ Defer(w) \/ WriteDelivered(w) \/ ResetFailures(w)
             \/ WriteFailed(w) \/ WriteBreaker(w)
    BY <1>4, <2>1
       DEF MarkDead, Defer, WriteDelivered, ResetFailures, WriteFailed, WriteBreaker, Write
  <2>2. CASE CommitFanOut(w)
    BY <2>2 DEF CommitFanOut, Fans
  <2>3. CASE TickStart(w) \/ ReadEndpoints(w) \/ ReadDue(w) \/ TickEnds(w) \/ ReadEndpoint(w)
    BY <2>3 DEF TickStart, ReadEndpoints, ReadDue, TickEnds, ReadEndpoint, tables, history, Same
  <2>4. ASSUME NEW o \in Outcomes, Post(w, o) PROVE Same
    BY <2>4 DEF Post, tables, Same
  <2> QED
    BY <1>5, <2>1, <2>2, <2>3, <2>4 DEF WorkerStep
<1>6. ASSUME NEW w \in Processes, ReplyLost(w) PROVE Same \/ Fans(w)
  <2>1. CASE Write(w)
    BY <1>4, <2>1
  <2>2. CASE ~Write(w)
    BY <1>6, <2>2 DEF ReplyLost, Write, Fans
  <2> QED
    BY <2>1, <2>2
<1>7. ASSUME NEW w \in Processes, DbError(w) \/ Crash(w) PROVE Same
  BY <1>7 DEF DbError, Crash, tables, history, Same
<1>8. Same \/ (\E e \in Events : Emit(e)) \/ \E w \in Processes : Fans(w)
  <2>1. CASE \E w \in Processes : WorkerStep(w) \/ DbError(w) \/ ReplyLost(w) \/ Crash(w)
    BY <1>5, <1>6, <1>7, <2>1
  <2>2. CASE \/ \E p \in Endpoints : RegisterWebhookEndpoint(p) \/ Deactivate(p) \/ CircuitCloses(p)
             \/ \E d \in RowIds : RowDue(d)
    BY <1>2, <1>3, <2>2
  <2> QED
    BY <1>1, <2>1, <2>2 DEF Next
<1> QED
  BY <1>8 DEF Same, Fans

(* An endpoint is registered once and switched off for good; an event, once *)
(* committed, stays committed and owed to the same endpoints.               *)
LEMMA OneWay ==
  ASSUME TypeOK, HeldRows, [Next]_vars
  PROVE  /\ \A p \in Endpoints : endpoint[p].status /= "absent" =>
              /\ endpoint'[p].status /= "absent"
              /\ endpoint'[p].status = "active" => endpoint[p].status = "active"
         /\ \A e \in Events : event[e] /= "none" => event'[e] /= "none" /\ owed'[e] = owed[e]
<1> DEFINE OneWayEndpoints ==
      \A p \in Endpoints : endpoint[p].status /= "absent" =>
        /\ endpoint'[p].status /= "absent"
        /\ endpoint'[p].status = "active" => endpoint[p].status = "active"
<1> DEFINE OneWayEvents ==
      \A e \in Events : event[e] /= "none" => event'[e] /= "none" /\ owed'[e] = owed[e]
<1>t. /\ event \in [Events -> {"none", "emitted", "dispatched"}]
      /\ endpoint \in [Endpoints -> EndpointRow]
      /\ owed \in [Events -> SUBSET Endpoints]
  BY DEF TypeOK
<1>1. OneWayEndpoints
  <2>1. CASE UNCHANGED endpoint
    BY <2>1
  <2>2. ASSUME NEW p \in Endpoints, RegisterWebhookEndpoint(p) \/ Deactivate(p) \/ CircuitCloses(p)
        PROVE  OneWayEndpoints
    BY <1>t, <2>2 DEF RegisterWebhookEndpoint, Deactivate, CircuitCloses, EndpointRow
  <2>3. ASSUME NEW w \in Processes, ClearFailures(w) PROVE OneWayEndpoints
    BY <1>t, <2>3 DEF ClearFailures, EndpointRow
  <2>4. ASSUME NEW w \in Processes, SetBreaker(w) PROVE OneWayEndpoints
    <3>1. PICK p : p = worker[w].row.id.endpoint
      OBVIOUS
    <3>2. CASE worker[w].failures + 1 >= Threshold
      <4>1. endpoint' = [endpoint EXCEPT ![p].failures = 0, ![p].open = TRUE]
        BY <2>4, <3>1, <3>2 DEF SetBreaker
      <4> QED
        BY <1>t, <4>1 DEF EndpointRow
    <3>3. CASE ~(worker[w].failures + 1 >= Threshold)
      <4>1. endpoint' = [endpoint EXCEPT ![p].failures = worker[w].failures + 1]
        BY <2>4, <3>1, <3>3 DEF SetBreaker
      <4> QED
        BY <1>t, <4>1 DEF EndpointRow
    <3> QED
      BY <3>2, <3>3
  <2>5. ASSUME NEW w \in Processes, ReplyLost(w)
        PROVE  UNCHANGED endpoint \/ ClearFailures(w) \/ SetBreaker(w)
    BY <2>5 DEF ReplyLost, SetDelivered, SetDead, SetDeferred, SetFailed
  <2>6. ASSUME NEW w \in Processes, WorkerStep(w)
        PROVE  UNCHANGED endpoint \/ ClearFailures(w) \/ SetBreaker(w)
    <3>1. CASE \/ MarkDead(w) \/ Defer(w) \/ WriteDelivered(w) \/ ResetFailures(w)
               \/ WriteFailed(w) \/ WriteBreaker(w)
      BY <3>1 DEF MarkDead, Defer, WriteDelivered, ResetFailures, WriteFailed, WriteBreaker,
                  SetDelivered, SetDead, SetDeferred, SetFailed
    <3> QED
      BY <2>6, <3>1 DEF WorkerStep, TickStart, ReadEndpoints, CommitFanOut, ReadDue, TickEnds,
                        ReadEndpoint, Post, tables
  <2> QED
    BY <2>1, <2>2, <2>3, <2>4, <2>5, <2>6 DEF Next, vars, Emit, RowDue, DbError, Crash, tables
<1>2. OneWayEvents
  <2>1. CASE UNCHANGED <<event, owed>>
    BY <2>1
  <2>2. ASSUME NEW e \in Events, Emit(e) PROVE OneWayEvents
    BY <1>t, <2>2 DEF Emit
  <2>3. ASSUME NEW w \in Processes, NEW e \in Events, FanOut(w, e), UNCHANGED owed
        PROVE  OneWayEvents
    <3>1. event' = [event EXCEPT ![e] = "dispatched"]
      BY <2>3 DEF FanOut
    <3> QED
      BY <1>t, <2>3, <3>1
  <2>4. \/ UNCHANGED <<event, owed>>
        \/ \E e \in Events : Emit(e)
        \/ UNCHANGED owed /\ \E w \in Processes, e \in Events : FanOut(w, e)
    BY EventSteps DEF history
  <2> HIDE DEF OneWayEvents
  <2> QED
    BY <2>1, <2>2, <2>3, <2>4
<1> QED
  BY <1>1, <1>2

(* An event is owed to endpoints that were registered and subscribed. *)
LEMMA OwedKnownStep ==
  ASSUME TypeOK, HeldRows, OwedKnown, [Next]_vars
  PROVE  OwedKnown'
<1>t. /\ event \in [Events -> {"none", "emitted", "dispatched"}]
      /\ owed \in [Events -> SUBSET Endpoints]
  BY DEF TypeOK
<1>1. ASSUME NEW e \in Events, Emit(e) PROVE OwedKnown'
  BY <1>t, <1>1 DEF Emit, OwedKnown, Matching
<1>2. CASE UNCHANGED owed
  BY <1>t, <1>2, OneWay DEF OwedKnown
<1> QED
  BY <1>1, <1>2, EventSteps DEF history

(* What one worker holds of a fan-out: HeldEvents says it of every worker. *)
FanHeldBy(v) ==
  /\ \A e \in v.events : event[e] /= "none"
  /\ v.pc = "commit" =>
       \A e \in v.events : IsFirst(e, v.events) =>
         \A p \in owed[e] : endpoint[p].status = "active" => \E t \in v.targets : t.endpoint = p

(* A worker about to dispatch an event holds every endpoint it is owed to. *)
LEMMA HeldEventsStep ==
  ASSUME TypeOK, HeldRows, OwedKnown, HeldEvents, [Next]_vars
  PROVE  HeldEvents'
<1>t. /\ event \in [Events -> {"none", "emitted", "dispatched"}]
      /\ owed \in [Events -> SUBSET Endpoints]
      /\ worker \in [Processes -> WorkerState]
  BY DEF TypeOK
<1>w. /\ \A p \in Endpoints :
           endpoint[p].status /= "absent" /\ endpoint'[p].status = "active"
             => endpoint[p].status = "active"
      /\ \A e \in Events : event[e] /= "none" => event'[e] /= "none" /\ owed'[e] = owed[e]
      /\ \A e \in Events : \A p \in owed[e] : endpoint[p].status /= "absent"
  BY OneWay DEF OwedKnown
<1>k. ASSUME NEW v \in WorkerState,
             \A e \in v.events : event[e] /= "none",
             v.pc = "commit" =>
               \A e \in v.events : IsFirst(e, v.events) =>
                 \A p \in owed[e] : endpoint[p].status = "active" => \E t \in v.targets : t.endpoint = p
      PROVE  /\ \A e \in v.events : event'[e] /= "none"
             /\ v.pc = "commit" =>
                  \A e \in v.events : IsFirst(e, v.events) =>
                    \A p \in owed'[e] : endpoint'[p].status = "active" =>
                      \E t \in v.targets : t.endpoint = p
  <2>1. \A e \in v.events : e \in Events /\ event'[e] /= "none" /\ owed'[e] = owed[e]
    BY <1>k, <1>w DEF WorkerState
  <2>2. \A e \in v.events : \A p \in owed[e] :
          endpoint'[p].status = "active" => endpoint[p].status = "active"
    BY <1>t, <1>w, <2>1
  <2> QED
    BY <1>k, <2>1, <2>2
<1>q. SUFFICES ASSUME NEW x \in Processes PROVE FanHeldBy(worker[x])'
  BY DEF HeldEvents, FanHeldBy
<1>x. worker[x] \in WorkerState
  BY <1>t
<1>1. CASE worker'[x] = worker[x]
  BY <1>1, <1>k, <1>x DEF HeldEvents, FanHeldBy
<1>2. CASE worker'[x].pc /= "commit" /\ worker'[x].events \subseteq worker[x].events
  BY <1>2, <1>k, <1>x DEF HeldEvents, FanHeldBy
<1>3. CASE TickStart(x)
  <2>1. worker'[x].pc = "events" /\ worker'[x].events = Oldest(Undispatched, FanOutLimit)
    BY <1>t, <1>3 DEF TickStart, Idle
  <2>2. \A e \in worker'[x].events : e \in Events /\ event[e] = "emitted"
    BY <2>1 DEF Oldest, Undispatched
  <2> QED
    BY <1>w, <2>1, <2>2 DEF FanHeldBy
<1>4. CASE ReadEndpoints(x)
  <2>1. PICK e \in Events :
          /\ IsFirst(e, worker[x].events)
          /\ worker' = [worker EXCEPT
               ![x].pc = "commit",
               ![x].targets = {[endpoint |-> p, open |-> endpoint[p].open] : p \in Matching(e)}]
    BY <1>4 DEF ReadEndpoints
  <2>2. PICK T : T = {[endpoint |-> p, open |-> endpoint[p].open] : p \in Matching(e)}
    OBVIOUS
  <2>3. worker'[x].events = worker[x].events /\ worker'[x].targets = T
    BY <1>t, <1>x, <2>1, <2>2 DEF WorkerState
  <2>4. UNCHANGED <<event, owed, endpoint>>
    BY <1>4 DEF ReadEndpoints, tables, history
  <2>5. \A f \in worker[x].events : IsFirst(f, worker[x].events) => f = e
    <3>1. worker[x].events \subseteq Nat
      BY <1>x, OutboxAssumption DEF WorkerState
    <3> QED
      BY <2>1, <3>1 DEF IsFirst
  <2>6. \A p \in owed[e] : endpoint[p].status = "active" => \E t \in T : t.endpoint = p
    <3> SUFFICES ASSUME NEW p \in owed[e], endpoint[p].status = "active"
                 PROVE  \E t \in T : t.endpoint = p
      OBVIOUS
    <3>1. p \in Matching(e)
      BY <1>t DEF OwedKnown, Matching
    <3>2. [endpoint |-> p, open |-> endpoint[p].open] \in T
      BY <2>2, <3>1
    <3> QED
      BY <3>2
  <2>7. \A f \in worker[x].events : event[f] /= "none"
    BY DEF HeldEvents
  <2> QED
    BY <2>3, <2>4, <2>5, <2>6, <2>7 DEF FanHeldBy
<1>5. CASE CommitFanOut(x)
  <2>1. worker'[x].pc = "events" /\ worker'[x].events \subseteq worker[x].events
    BY <1>t, <1>x, <1>5 DEF CommitFanOut, WorkerState
  <2> QED
    BY <1>2, <2>1
<1>6. CASE ReadDue(x) \/ ReadEndpoint(x)
  <2>1. worker'[x].pc /= "commit" /\ worker'[x].events = worker[x].events
    <3>1. CASE ReadDue(x)
      BY <1>t, <1>x, <3>1 DEF ReadDue, WorkerState
    <3>2. CASE ReadEndpoint(x)
      BY <1>t, <1>x, <3>2 DEF ReadEndpoint, Route, WorkerState
    <3> QED
      BY <1>6, <3>1, <3>2
  <2> QED
    BY <1>2, <2>1
<1>7. CASE TickEnds(x) \/ Crash(x)
  BY <1>t, <1>x, <1>2, <1>7 DEF TickEnds, Crash, Idle, WorkerState
<1>p. ASSUME Proceed(x) PROVE worker'[x].pc = "deliver" /\ worker'[x].events = worker[x].events
  BY <1>t, <1>x, <1>p DEF Proceed, WorkerState
<1>8. CASE MarkDead(x) \/ Defer(x) \/ ResetFailures(x) \/ WriteBreaker(x)
  BY <1>2, <1>p, <1>8 DEF MarkDead, Defer, ResetFailures, WriteBreaker
<1>9. ASSUME NEW o \in Outcomes, Post(x, o) PROVE FanHeldBy(worker[x])'
  <2>1. worker'[x].pc /= "commit" /\ worker'[x].events = worker[x].events
    BY <1>t, <1>x, <1>9 DEF Post, Answered, WorkerState
  <2> QED
    BY <1>2, <2>1
<1>10. CASE WriteDelivered(x)
  <2>1. worker'[x].pc /= "commit" /\ worker'[x].events = worker[x].events
    <3>1. CASE worker[x].failures > 0
      BY <1>t, <1>x, <1>10, <3>1 DEF WriteDelivered, WorkerState
    <3>2. CASE ~(worker[x].failures > 0)
      BY <1>p, <1>10, <3>2 DEF WriteDelivered
    <3> QED
      BY <3>1, <3>2
  <2> QED
    BY <1>2, <2>1
<1>11. CASE WriteFailed(x)
  BY <1>t, <1>x, <1>2, <1>11 DEF WriteFailed, WorkerState
<1>12. CASE DbError(x) \/ ReplyLost(x)
  <2>1. AfterError(x).pc /= "commit" /\ AfterError(x).events \subseteq worker[x].events
    <3>1. CASE worker[x].pc = "ok"
      BY <1>x, <3>1 DEF AfterError, WorkerState
    <3>2. CASE worker[x].pc = "fail"
      BY <1>x, <3>2 DEF AfterError, WorkerState
    <3>3. CASE worker[x].pc \in {"reset", "trip"}
      BY <1>x, <3>3 DEF AfterError, WorkerState
    <3>4. CASE worker[x].pc \notin {"ok", "fail", "reset", "trip"}
      BY <3>4 DEF AfterError, Idle
    <3> QED
      BY <3>1, <3>2, <3>3, <3>4
  <2>2. worker'[x] = AfterError(x)
    BY <1>t, <1>12 DEF DbError, ReplyLost
  <2> QED
    BY <1>2, <2>1, <2>2
<1>13. ASSUME NEW w \in Processes, WorkerStep(w) \/ DbError(w) \/ ReplyLost(w) \/ Crash(w), w /= x
       PROVE  worker'[x] = worker[x]
  BY <1>t, <1>13
     DEF WorkerStep, TickStart, ReadEndpoints, CommitFanOut, ReadDue, TickEnds, ReadEndpoint,
         MarkDead, Defer, Post, WriteDelivered, ResetFailures, WriteFailed, WriteBreaker, Proceed,
         DbError, ReplyLost, Crash
<1>14. CASE UNCHANGED worker
  BY <1>1, <1>14
<1>15. CASE WorkerStep(x) \/ DbError(x) \/ ReplyLost(x) \/ Crash(x)
  BY <1>3, <1>4, <1>5, <1>6, <1>7, <1>8, <1>9, <1>10, <1>11, <1>12, <1>15 DEF WorkerStep
<1>16. CASE \E w \in Processes : WorkerStep(w) \/ DbError(w) \/ ReplyLost(w) \/ Crash(w)
  BY <1>1, <1>13, <1>15, <1>16
<1> QED
  BY <1>14, <1>16
     DEF Next, vars, Emit, RegisterWebhookEndpoint, Deactivate, CircuitCloses, RowDue

(* Dispatching an event leaves no endpoint it is owed to without a row. *)
LEMMA FannedOutStep ==
  ASSUME TypeOK, HeldRows, OwedKnown, HeldEvents, FannedOutInFull, [Next]_vars
  PROVE  FannedOutInFull'
<1>t. /\ event \in [Events -> {"none", "emitted", "dispatched"}]
      /\ owed \in [Events -> SUBSET Endpoints]
      /\ endpoint \in [Endpoints -> EndpointRow]
  BY DEF TypeOK
<1>q. SUFFICES ASSUME NEW e \in Events, event'[e] = "dispatched",
                      NEW p \in owed'[e], endpoint'[p].status = "active"
               PROVE  Copies(e, p)' /= {}
  BY DEF FannedOutInFull
<1>s. Rows \subseteq Rows'
  BY RowsStay
<1>1. CASE event[e] = "dispatched"
  <2>1. p \in owed[e] /\ p \in Endpoints
    BY <1>t, <1>1, <1>q, OneWay
  <2>2. endpoint[p].status = "active"
    BY <1>q, <2>1, OneWay DEF OwedKnown
  <2>3. PICK d \in Rows : d.event = e /\ d.endpoint = p
    BY <1>1, <2>1, <2>2 DEF FannedOutInFull, Copies
  <2> QED
    BY <1>s, <2>3 DEF Copies
<1>2. CASE event[e] /= "dispatched"
  <2>1. PICK w \in Processes, f \in Events :
          /\ worker[w].pc = "commit" /\ UNCHANGED <<endpoint, history>>
          /\ IsFirst(f, worker[w].events) /\ FanOut(w, f)
    <3>1. event' /= event
      BY <1>2, <1>q
    <3>2. \A g \in Events : ~Emit(g)
      BY <1>t, <1>2, <1>q DEF Emit
    <3> QED
      BY <3>1, <3>2, EventSteps
  <2>2. IsFirst(f, worker[w].events) /\ FanOut(w, f)
    BY <2>1
  <2>3. f = e
    BY <1>t, <1>2, <1>q, <2>2 DEF FanOut
  <2>4. UNCHANGED <<owed, endpoint>> /\ worker[w].pc = "commit"
    BY <2>1 DEF history
  <2>5. PICK t \in worker[w].targets : t.endpoint = p
    BY <1>q, <2>2, <2>3, <2>4 DEF HeldEvents, IsFirst
  <2>6. Copies(e, t.endpoint)' /= {}
    BY <2>2, <2>3, FanOutRows
  <2> QED
    BY <2>5, <2>6 DEF Copies
<1> QED
  BY <1>1, <1>2

(* A row is marked delivered only after the endpoint accepted the event. *)
LEMMA DeliveredStep ==
  ASSUME TypeOK, HeldRows, DeliveredWasReceived, [Next]_vars
  PROVE  DeliveredWasReceived'
<1>t. delivery \in [RowIds -> DeliveryRow]
  BY DEF TypeOK
<1>s. received \subseteq received'
  BY RowsStay
<1>q. SUFFICES ASSUME NEW d \in RowIds, delivery'[d].status = "delivered",
                      delivery[d].status /= "delivered"
               PROVE  <<d.event, d.endpoint>> \in received'
  BY <1>s DEF DeliveredWasReceived
<1>1. PICK w \in Processes : SetDelivered(w)
  <2>1. ~UNCHANGED delivery
    BY <1>q
  <2>2. \A r \in RowIds : ~RowDue(r)
    BY <1>t, <1>q DEF RowDue, DeliveryRow
  <2>3. \A w \in Processes, e \in Events : ~FanOut(w, e)
    BY <1>q, FanOutRows
  <2>4. ASSUME NEW w \in Processes
        PROVE  ~SetDead(w) /\ ~SetDeferred(w) /\ ~SetFailed(w)
    <3>1. ASSUME SetDead(w) PROVE FALSE
      BY <1>t, <1>q, <3>1 DEF SetDead, DeliveryRow
    <3>2. ASSUME SetDeferred(w) PROVE FALSE
      BY <1>t, <1>q, <3>2 DEF SetDeferred, DeliveryRow
    <3>3. ASSUME SetFailed(w) PROVE FALSE
      BY <1>t, <1>q, <3>3 DEF SetFailed
    <3> QED
      BY <3>1, <3>2, <3>3
  <2>5. ASSUME NEW w \in Processes, ~SetDelivered(w)
        PROVE  ~WorkerStep(w) /\ ~ReplyLost(w) /\ ~DbError(w) /\ ~Crash(w)
    <3>1. ~ClearFailures(w) /\ ~SetBreaker(w)
      BY <2>1 DEF ClearFailures, SetBreaker
    <3>2. ~MarkDead(w) /\ ~Defer(w) /\ ~WriteDelivered(w) /\ ~ResetFailures(w) /\ ~WriteFailed(w) /\ ~WriteBreaker(w)
      BY <2>4, <2>5, <3>1
         DEF MarkDead, Defer, WriteDelivered, ResetFailures, WriteFailed, WriteBreaker
    <3>3. ~ReplyLost(w) /\ ~CommitFanOut(w)
      BY <2>3, <2>4, <2>5, <3>1 DEF ReplyLost, CommitFanOut
    <3> QED
      BY <2>1, <3>2, <3>3
         DEF WorkerStep, TickStart, ReadEndpoints, ReadDue, TickEnds, ReadEndpoint, Post, DbError,
             Crash, tables
  <2> QED
    BY <2>1, <2>2, <2>5 DEF Next, vars, Emit, RegisterWebhookEndpoint, Deactivate, CircuitCloses
<1>5. d = worker[w].row.id
  BY <1>t, <1>q, <1>1 DEF SetDelivered
<1>6. <<worker[w].row.id.event, worker[w].row.id.endpoint>> \in received
  BY <1>1 DEF SetDelivered, HeldRows
<1> QED
  BY <1>s, <1>5, <1>6

-----------------------------------------------------------------------------
(* Theorems *)

(* OutboxInv holds in every reachable state. *)
THEOREM OutboxInvariant == Spec => []OutboxInv
<1>1. Init => OutboxInv
  BY InitTypes
<1>2. OutboxInv /\ [Next]_vars => OutboxInv'
  BY TypeStep, HeldRowsStep, HeldEventsStep, OwedKnownStep, FannedOutStep, DeliveredStep
     DEF OutboxInv
<1> QED
  BY <1>1, <1>2, PTL DEF Spec

(* The tables and the workers have their types, for any numbers of         *)
(* processes, events, endpoints and faults.                                *)
THEOREM OutboxTypes == Spec => []TypeOK
<1>1. OutboxInv => TypeOK
  BY DEF OutboxInv
<1> QED
  BY <1>1, OutboxInvariant, PTL

(* fanOutPending loses no event: with any number of workers fanning out at *)
(* once and crashing anywhere, an endpoint that was active when the event  *)
(* was committed and still is has a delivery row once it is dispatched.    *)
THEOREM FanOutComplete == Spec => []FannedOutInFull
<1>1. OutboxInv => FannedOutInFull
  BY DEF OutboxInv
<1> QED
  BY <1>1, OutboxInvariant, PTL

(* A row marked delivered was accepted by its endpoint, whichever of the   *)
(* workers posted it.                                                      *)
THEOREM DeliveredMeansReceived == Spec => []DeliveredWasReceived
<1>1. OutboxInv => DeliveredWasReceived
  BY DEF OutboxInv
<1> QED
  BY <1>1, OutboxInvariant, PTL
-----------------------------------------------------------------------------
(* One server process                                                      *)
(*                                                                         *)
(* Nothing in the tables keeps two workers off one row: what follows holds *)
(* where one process runs the worker, with any numbers of events,          *)
(* endpoints and faults.                                                   *)

OneWorker == \E w \in Processes : Processes = {w}

(* What a step does, worker by worker and field by field. *)
SameTable == \A d \in RowIds : delivery'[d].status = delivery[d].status
                                 /\ delivery'[d].attempt = delivery[d].attempt
SameCounts == \A p \in Endpoints : endpoint'[p].failures = endpoint[p].failures
Keeps(w) == /\ worker'[w].events = worker[w].events
            /\ worker'[w].targets = worker[w].targets
            /\ worker'[w].rows = worker[w].rows
Holds(w) == worker'[w].row = worker[w].row /\ worker'[w].failures = worker[w].failures

Around ==
  /\ UNCHANGED <<worker, posts, streak, faults, disputed>>
  /\ SameTable /\ SameCounts
  /\ \A d \in RowIds : delivery'[d] = delivery[d] \/ delivery[d].status \in {"pending", "failed"}
  /\ \A e \in Events : event[e] /= "none" => event'[e] = event[e]

Collects(w) ==
  /\ UNCHANGED <<tables, faults, history>>
  /\ worker[w].pc = "idle" /\ worker'[w].pc = "events"
  /\ worker'[w].events \subseteq Undispatched
  /\ worker'[w].targets = {} /\ worker'[w].rows = {}

Aims(w) ==
  /\ UNCHANGED <<tables, faults, history>>
  /\ worker[w].pc = "events" /\ worker'[w].pc = "commit"
  /\ worker'[w].events = worker[w].events /\ worker'[w].rows = worker[w].rows
  /\ \A t \in worker'[w].targets : endpoint[t.endpoint].status = "active"

FansOut(w, e) ==
  /\ UNCHANGED <<endpoint, faults, history>>
  /\ e \in worker[w].events
  /\ FanOut(w, e)
  /\ worker[w].pc = "commit" /\ worker'[w].pc = "events"
  /\ worker'[w].events = worker[w].events \ {e}
  /\ worker'[w].targets = {} /\ worker'[w].rows = worker[w].rows

Selects(w, S) ==
  /\ UNCHANGED <<tables, faults, history>>
  /\ S \subseteq DueRows
  /\ worker[w].pc = "events" /\ worker'[w].pc = "deliver"
  /\ worker'[w].events = worker[w].events /\ worker'[w].targets = worker[w].targets
  /\ worker'[w].rows = {[id |-> d, attempt |-> delivery[d].attempt] : d \in S}

Quits(w) ==
  /\ UNCHANGED <<tables, history>>
  /\ worker'[w] = Idle
  /\ \/ faults' = faults + 1
     \/ faults' = faults /\ worker[w].pc = "deliver"

Turns(w, r) ==
  /\ UNCHANGED <<tables, faults, history>>
  /\ r \in worker[w].rows
  /\ worker[w].pc = "deliver" /\ worker'[w].pc = Route(r.id.endpoint)
  /\ worker'[w].events = worker[w].events /\ worker'[w].targets = worker[w].targets
  /\ worker'[w].rows = worker[w].rows \ {r} /\ worker'[w].row = r
  /\ worker'[w].failures = endpoint[r.id.endpoint].failures

GivesUp(w) == /\ MarkDead(w) /\ Keeps(w) /\ worker'[w].pc = "deliver"
PutsOff(w) == /\ Defer(w) /\ Keeps(w) /\ worker'[w].pc = "deliver"
Calls(w, o) == /\ Post(w, o) /\ Keeps(w) /\ Holds(w) /\ worker'[w].pc = Answered(o)
Succeeds(w) ==
  /\ WriteDelivered(w) /\ Keeps(w)
  /\ \/ worker[w].failures > 0 /\ worker'[w].pc = "reset" /\ Holds(w)
     \/ ~(worker[w].failures > 0) /\ worker'[w].pc = "deliver"
Clears(w) == /\ ResetFailures(w) /\ Keeps(w) /\ worker'[w].pc = "deliver"
Counts(w) == /\ WriteFailed(w) /\ Keeps(w) /\ Holds(w) /\ worker'[w].pc = "trip"
Trips(w) == /\ WriteBreaker(w) /\ Keeps(w) /\ worker'[w].pc = "deliver"
GoesOn(w) ==
  /\ Keeps(w)
  /\ faults' = faults + 1
  /\ \/ worker[w].pc = "ok" /\ worker'[w].pc = "fail" /\ Holds(w)
     \/ worker[w].pc = "fail" /\ worker'[w].pc = "trip" /\ Holds(w)
     \/ worker[w].pc \in {"reset", "trip"} /\ worker'[w].pc = "deliver"
Swallows(w) == GoesOn(w) /\ UNCHANGED <<tables, history>>

(* A write that was reported as failed and is committed. *)
Doubts(w) ==
  /\ Write(w)
  /\ \/ GoesOn(w)
     \/ worker[w].pc \in {"dead", "defer"} /\ worker'[w] = Idle /\ faults' = faults + 1
  /\ SetDelivered(w) => disputed' = disputed \cup {worker[w].row.id}
FansOutUnheard(w, e) ==
  /\ UNCHANGED <<endpoint, history>>
  /\ e \in worker[w].events /\ FanOut(w, e)
  /\ worker[w].pc = "commit" /\ worker'[w] = Idle /\ faults' = faults + 1

Move(w) ==
  \/ Collects(w) \/ Aims(w) \/ Quits(w) \/ GivesUp(w) \/ PutsOff(w)
  \/ Succeeds(w) \/ Clears(w) \/ Counts(w) \/ Trips(w) \/ Swallows(w)
  \/ Doubts(w)
  \/ \E e \in Events : FansOutUnheard(w, e)
  \/ \E e \in Events : FansOut(w, e)
  \/ \E S : Selects(w, S)
  \/ \E r \in DueRow : Turns(w, r)
  \/ \E o \in Outcomes : Calls(w, o)

LEMMA Moves ==
  ASSUME TypeOK, HeldRows, [Next]_vars
  PROVE  Around \/ \E w \in Processes : Move(w)
<1>t. /\ worker \in [Processes -> WorkerState] /\ delivery \in [RowIds -> DeliveryRow]
      /\ endpoint \in [Endpoints -> EndpointRow]
  BY DEF TypeOK
<1>1. CASE UNCHANGED vars
  BY <1>1 DEF vars, Around, SameTable, SameCounts
<1>2. ASSUME NEW e \in Events, Emit(e) PROVE Around
  BY <1>2 DEF Emit, Around, SameTable, SameCounts, TypeOK
<1>3. ASSUME NEW p \in Endpoints, RegisterWebhookEndpoint(p) \/ Deactivate(p) \/ CircuitCloses(p) PROVE Around
  BY <1>t, <1>3 DEF RegisterWebhookEndpoint, Deactivate, CircuitCloses, Around, SameTable, SameCounts,
                    EndpointRow, history
<1>4. ASSUME NEW d \in RowIds, RowDue(d) PROVE Around
  BY <1>t, <1>4 DEF RowDue, Around, SameTable, SameCounts, DeliveryRow, history
<1>5. ASSUME NEW w \in Processes, WorkerStep(w) PROVE Move(w)
  <2>t. worker[w] \in WorkerState
    BY <1>t
  <2>p. ASSUME Proceed(w) PROVE Keeps(w) /\ worker'[w].pc = "deliver"
    BY <1>t, <2>t, <2>p DEF Proceed, Keeps, WorkerState
  <2>1. CASE TickStart(w)
    <3>1. Oldest(Undispatched, FanOutLimit) \subseteq Undispatched
      BY DEF Oldest
    <3>2. worker'[w] = [Idle EXCEPT !.pc = "events", !.events = Oldest(Undispatched, FanOutLimit)]
      BY <1>t, <2>1 DEF TickStart
    <3>3. /\ worker'[w].pc = "events" /\ worker'[w].events = Oldest(Undispatched, FanOutLimit)
          /\ worker'[w].targets = {} /\ worker'[w].rows = {}
      BY <3>2 DEF Idle
    <3>4. Collects(w)
      BY <2>1, <3>1, <3>3 DEF TickStart, Collects
    <3> QED
      BY <3>4 DEF Move
  <2>2. CASE ReadEndpoints(w)
    <3>1. PICK e \in Events : worker' = [worker EXCEPT
            ![w].pc = "commit",
            ![w].targets = {[endpoint |-> p, open |-> endpoint[p].open] : p \in Matching(e)}]
      BY <2>2 DEF ReadEndpoints
    <3>2. /\ worker'[w].pc = "commit" /\ worker'[w].events = worker[w].events
          /\ worker'[w].rows = worker[w].rows
          /\ worker'[w].targets = {[endpoint |-> p, open |-> endpoint[p].open] : p \in Matching(e)}
      BY <1>t, <2>t, <3>1 DEF WorkerState
    <3>3. ASSUME NEW t \in worker'[w].targets PROVE endpoint[t.endpoint].status = "active"
      <4>1. PICK p \in Matching(e) : t = [endpoint |-> p, open |-> endpoint[p].open]
        BY <3>2
      <4> QED
        BY <4>1 DEF Matching
    <3>4. Aims(w)
      BY <2>2, <3>2, <3>3 DEF ReadEndpoints, Aims
    <3> QED
      BY <3>4 DEF Move
  <2>3. CASE CommitFanOut(w)
    <3>1. PICK e \in Events :
            /\ IsFirst(e, worker[w].events)
            /\ FanOut(w, e)
            /\ worker' = [worker EXCEPT ![w].pc = "events", ![w].targets = {}, ![w].events = @ \ {e}]
      BY <2>3 DEF CommitFanOut
    <3>2. /\ worker'[w].pc = "events" /\ worker'[w].events = worker[w].events \ {e}
          /\ worker'[w].rows = worker[w].rows /\ worker'[w].targets = {}
      BY <1>t, <2>t, <3>1 DEF WorkerState
    <3>3. FansOut(w, e)
      BY <2>3, <3>1, <3>2 DEF CommitFanOut, FansOut, IsFirst
    <3> QED
      BY <3>3 DEF Move
  <2>4. CASE ReadDue(w)
    <3>1. PICK S \in SUBSET DueRows : worker' = [worker EXCEPT
            ![w].pc = "deliver",
            ![w].rows = {[id |-> d, attempt |-> delivery[d].attempt] : d \in S}]
      BY <2>4 DEF ReadDue
    <3>2. /\ worker'[w].pc = "deliver" /\ worker'[w].events = worker[w].events
          /\ worker'[w].targets = worker[w].targets
          /\ worker'[w].rows = {[id |-> d, attempt |-> delivery[d].attempt] : d \in S}
      BY <1>t, <2>t, <3>1 DEF WorkerState
    <3>3. Selects(w, S)
      BY <2>4, <3>2 DEF ReadDue, Selects
    <3> QED
      BY <3>3 DEF Move
  <2>5. CASE TickEnds(w)
    <3>1. Quits(w)
      BY <1>t, <2>5 DEF TickEnds, Quits
    <3> QED
      BY <3>1 DEF Move
  <2>6. CASE ReadEndpoint(w)
    <3>1. PICK r \in worker[w].rows : worker' = [worker EXCEPT
            ![w].rows = @ \ {r},
            ![w].row = r,
            ![w].failures = endpoint[r.id.endpoint].failures,
            ![w].pc = Route(r.id.endpoint)]
      BY <2>6 DEF ReadEndpoint
    <3>2. /\ worker'[w].rows = worker[w].rows \ {r} /\ worker'[w].row = r
          /\ worker'[w].pc = Route(r.id.endpoint)
          /\ worker'[w].failures = endpoint[r.id.endpoint].failures
          /\ worker'[w].events = worker[w].events /\ worker'[w].targets = worker[w].targets
      BY <1>t, <2>t, <3>1 DEF WorkerState
    <3>3. r \in DueRow
      BY <2>t DEF WorkerState
    <3>4. Turns(w, r)
      BY <2>6, <3>2 DEF ReadEndpoint, Turns
    <3> QED
      BY <3>3, <3>4 DEF Move
  <2>7. CASE MarkDead(w)
    BY <2>7, <2>p DEF MarkDead, GivesUp, Move
  <2>8. CASE Defer(w)
    BY <2>8, <2>p DEF Defer, PutsOff, Move
  <2>9. CASE ResetFailures(w)
    BY <2>9, <2>p DEF ResetFailures, Clears, Move
  <2>10. CASE WriteBreaker(w)
    BY <2>10, <2>p DEF WriteBreaker, Trips, Move
  <2>11. ASSUME NEW o \in Outcomes, Post(w, o) PROVE Move(w)
    <3>1. Keeps(w) /\ Holds(w) /\ worker'[w].pc = Answered(o)
      BY <1>t, <2>t, <2>11 DEF Post, Keeps, Holds, WorkerState
    <3> QED
      BY <2>11, <3>1 DEF Calls, Move
  <2>12. CASE WriteDelivered(w)
    <3>1. CASE worker[w].failures > 0
      <4>1. Keeps(w) /\ Holds(w) /\ worker'[w].pc = "reset"
        BY <1>t, <2>t, <2>12, <3>1 DEF WriteDelivered, Keeps, Holds, WorkerState
      <4> QED
        BY <2>12, <3>1, <4>1 DEF Succeeds, Move
    <3>2. CASE ~(worker[w].failures > 0)
      BY <2>12, <2>p, <3>2 DEF WriteDelivered, Succeeds, Move
    <3> QED
      BY <3>1, <3>2
  <2>13. CASE WriteFailed(w)
    <3>1. Keeps(w) /\ Holds(w) /\ worker'[w].pc = "trip"
      BY <1>t, <2>t, <2>13 DEF WriteFailed, Keeps, Holds, WorkerState
    <3> QED
      BY <2>13, <3>1 DEF Counts, Move
  <2> QED
    BY <1>5, <2>1, <2>2, <2>3, <2>4, <2>5, <2>6, <2>7, <2>8, <2>9, <2>10, <2>11, <2>12, <2>13
       DEF WorkerStep
<1>e. ASSUME NEW w \in Processes, worker' = [worker EXCEPT ![w] = AfterError(w)], faults' = faults + 1
      PROVE  \/ worker[w].pc \in {"ok", "fail", "reset", "trip"} /\ GoesOn(w)
             \/ worker[w].pc \notin {"ok", "fail", "reset", "trip"} /\ worker'[w] = Idle
  <2>t. worker[w] \in WorkerState
    BY <1>t
  <2>1. worker'[w] = AfterError(w) /\ faults' = faults + 1
    BY <1>t, <1>e
  <2>2. CASE worker[w].pc = "ok"
    BY <2>t, <2>1, <2>2 DEF AfterError, GoesOn, Keeps, Holds, WorkerState
  <2>3. CASE worker[w].pc = "fail"
    BY <2>t, <2>1, <2>3 DEF AfterError, GoesOn, Keeps, Holds, WorkerState
  <2>4. CASE worker[w].pc \in {"reset", "trip"}
    BY <2>t, <2>1, <2>4 DEF AfterError, GoesOn, Keeps, WorkerState
  <2>5. CASE worker[w].pc \notin {"ok", "fail", "reset", "trip"}
    BY <2>1, <2>5 DEF AfterError
  <2> QED
    BY <2>2, <2>3, <2>4, <2>5
<1>6. ASSUME NEW w \in Processes, DbError(w) PROVE Move(w)
  <2>1. /\ worker' = [worker EXCEPT ![w] = AfterError(w)] /\ faults' = faults + 1
        /\ UNCHANGED <<tables, history>>
    BY <1>6 DEF DbError, Fault
  <2>2. Swallows(w) \/ Quits(w)
    BY <1>e, <2>1 DEF Swallows, Quits
  <2> QED
    BY <2>2 DEF Move
<1>8. ASSUME NEW w \in Processes, ReplyLost(w) PROVE Move(w)
  <2>1. worker' = [worker EXCEPT ![w] = AfterError(w)] /\ faults' = faults + 1
    BY <1>8 DEF ReplyLost, Fault
  <2>2. CASE /\ Write(w)
             /\ SetDelivered(w) => disputed' = disputed \cup {worker[w].row.id}
    <3>1. worker[w].pc \in Delivering /\ worker[w].pc /= "post"
      BY <2>2, WriteFrame
    <3>2. Doubts(w)
      BY <1>e, <2>1, <2>2, <3>1 DEF Doubts, Delivering
    <3> QED
      BY <3>2 DEF Move
  <2>3. CASE ~Write(w)
    <3>1. PICK e \in Events : IsFirst(e, worker[w].events) /\ FanOut(w, e)
      BY <1>8, <2>3 DEF ReplyLost, Write
    <3>2. worker[w].pc = "commit" /\ UNCHANGED <<endpoint, history>>
      BY <1>8, <2>3 DEF ReplyLost, Write
    <3>3. FansOutUnheard(w, e)
      BY <1>e, <2>1, <3>1, <3>2 DEF FansOutUnheard, IsFirst
    <3> QED
      BY <3>3 DEF Move
  <2>4. SetDelivered(w) /\ Write(w) => disputed' = disputed \cup {worker[w].row.id}
    <3>1. ASSUME SetDelivered(w)
          PROVE  /\ worker[w].pc /= "commit" /\ ~SetDead(w) /\ ~SetDeferred(w)
                 /\ ~ClearFailures(w) /\ ~SetFailed(w) /\ ~SetBreaker(w)
      BY <3>1 DEF SetDelivered, SetDead, SetDeferred, ClearFailures, SetFailed, SetBreaker
    <3> QED
      BY <1>8, <3>1 DEF ReplyLost
  <2> QED
    BY <2>2, <2>3, <2>4
<1>7. ASSUME NEW w \in Processes, Crash(w) PROVE Move(w)
  <2>1. Quits(w)
    BY <1>t, <1>7 DEF Crash, Fault, Quits
  <2> QED
    BY <2>1 DEF Move
<1> QED
  BY <1>1, <1>2, <1>3, <1>4, <1>5, <1>6, <1>7, <1>8 DEF Next

(* With one worker: a row exists once its event is dispatched, and is the  *)
(* first for its endpoint; the worker holds events no one else dispatches. *)
DispatchBooks ==
  /\ \A d \in Rows : /\ d.copy = 1 /\ event[d.event] = "dispatched"
                     /\ endpoint[d.endpoint].status /= "absent"
  /\ \A w \in Processes :
       /\ \A e \in worker[w].events : event[e] = "emitted"
       /\ \A t \in worker[w].targets : endpoint[t.endpoint].status /= "absent"

(* A write that leaves a row's existence alone. *)
LEMMA TableRows ==
  ASSUME \A d \in RowIds : delivery'[d].status = "absent" <=> delivery[d].status = "absent"
  PROVE  Rows' = Rows
BY DEF Rows

(* The writes of a delivery, to the row the worker holds. *)
LEMMA DeliveryWrite ==
  ASSUME TypeOK, HeldRows, NEW w \in Processes,
         SetDead(w) \/ SetDeferred(w) \/ SetDelivered(w) \/ SetFailed(w)
  PROVE  LET d == worker[w].row.id IN
         /\ d \in Rows
         /\ \A x \in RowIds : x /= d => delivery'[x] = delivery[x]
         /\ SetDead(w) => delivery'[d].status = "dead" /\ delivery'[d].attempt = delivery[d].attempt
         /\ SetDeferred(w) => delivery'[d].status = delivery[d].status /\ delivery'[d].attempt = delivery[d].attempt
         /\ SetDelivered(w) => delivery'[d].status = "delivered" /\ delivery'[d].attempt = worker[w].row.attempt + 1
         /\ SetFailed(w) =>
              LET n == worker[w].row.attempt + 1 IN
              delivery'[d].status = (IF Terminal(n) THEN "dead" ELSE "failed") /\ delivery'[d].attempt = n
<1> DEFINE d == worker[w].row.id
<1>1. worker[w].pc \in Delivering
  BY DEF SetDead, SetDeferred, SetDelivered, SetFailed, Delivering
<1>2. d \in RowIds /\ d \in Rows
  BY <1>1, HeldRowType DEF HeldRows
<1>3. delivery \in [RowIds -> DeliveryRow] /\ delivery[d] \in DeliveryRow
  BY <1>2 DEF TypeOK
<1> HIDE DEF d
<1>4. CASE SetDead(w)
  BY <1>2, <1>3, <1>4 DEF SetDead, DeliveryRow, d, SetDeferred, SetDelivered, SetFailed
<1>5. CASE SetDeferred(w)
  BY <1>2, <1>3, <1>5 DEF SetDead, DeliveryRow, d, SetDeferred, SetDelivered, SetFailed
<1>6. CASE SetDelivered(w)
  <2>1. delivery' = [delivery EXCEPT ![d] = [@ EXCEPT !.status = "delivered", !.attempt = worker[w].row.attempt + 1]]
    BY <1>6 DEF SetDelivered, d
  <2>2. delivery'[d].status = "delivered" /\ delivery'[d].attempt = worker[w].row.attempt + 1
    BY <1>2, <1>3, <2>1 DEF DeliveryRow
  <2>3. \A x \in RowIds : x /= d => delivery'[x] = delivery[x]
    BY <1>3, <2>1
  <2>4. ~SetDead(w) /\ ~SetDeferred(w) /\ ~SetFailed(w)
    BY <1>6 DEF SetDead, SetDeferred, SetDelivered, SetFailed
  <2> QED
    BY <1>2, <2>2, <2>3, <2>4 DEF d
<1>7. CASE SetFailed(w)
  <2> DEFINE n == worker[w].row.attempt + 1
  <2>1. delivery' = [delivery EXCEPT ![d] = [status |-> IF Terminal(n) THEN "dead" ELSE "failed", attempt |-> n, due |-> FALSE]]
    BY <1>7 DEF SetFailed, d
  <2>2. delivery'[d].status = (IF Terminal(n) THEN "dead" ELSE "failed") /\ delivery'[d].attempt = n
    BY <1>2, <1>3, <2>1
  <2>3. \A x \in RowIds : x /= d => delivery'[x] = delivery[x]
    BY <1>3, <2>1
  <2>4. ~SetDead(w) /\ ~SetDeferred(w) /\ ~SetDelivered(w)
    BY <1>7 DEF SetDead, SetDeferred, SetDelivered, SetFailed
  <2> QED
    BY <1>2, <2>2, <2>3, <2>4 DEF d
<1> QED
  BY <1>4, <1>5, <1>6, <1>7

(* A fan-out by the one worker inserts first rows only, where none was. *)
LEMMA FirstRows ==
  ASSUME TypeOK, DispatchBooks, NEW w \in Processes, NEW e \in worker[w].events, FanOut(w, e)
  PROVE  /\ event' = [event EXCEPT ![e] = "dispatched"]
         /\ \A d \in RowIds :
              \/ delivery'[d] = delivery[d]
              \/ /\ delivery[d].status = "absent" /\ d.copy = 1 /\ d.event = e
                 /\ endpoint[d.endpoint].status /= "absent"
                 /\ delivery'[d].status = "pending" /\ delivery'[d].attempt = 0
<1>1. PICK inserted, due :
        /\ inserted = {NewRow(e, t.endpoint) : t \in worker[w].targets}
        /\ delivery' = [d \in RowIds |->
             IF d \in inserted
               THEN [status |-> "pending", attempt |-> 0, due |-> d \in due]
               ELSE delivery[d]]
        /\ event' = [event EXCEPT ![e] = "dispatched"]
  BY DEF FanOut
<1>2. event[e] = "emitted"
  BY DEF DispatchBooks
<1>3. \A d \in Rows : d.event /= e
  BY <1>2 DEF DispatchBooks
<1>4. ASSUME NEW d \in RowIds, d \in inserted
      PROVE  /\ delivery[d].status = "absent" /\ d.copy = 1 /\ d.event = e
             /\ endpoint[d.endpoint].status /= "absent"
             /\ delivery'[d].status = "pending" /\ delivery'[d].attempt = 0
  <2>1. PICK t \in worker[w].targets : d = NewRow(e, t.endpoint)
    BY <1>1, <1>4
  <2>2. Copies(e, t.endpoint) = {}
    BY <1>3 DEF Copies
  <2>3. d.copy = 1 + 0 /\ d.event = e /\ d.endpoint = t.endpoint
    BY <2>1, <2>2, FS_EmptySet DEF NewRow
  <2>4. endpoint[d.endpoint].status /= "absent"
    BY <2>3 DEF DispatchBooks
  <2>5. delivery[d].status = "absent"
    BY <1>3, <2>3 DEF Rows
  <2> QED
    BY <1>1, <1>4, <2>3, <2>4, <2>5
<1>5. \A d \in RowIds : d \notin inserted => delivery'[d] = delivery[d]
  BY <1>1
<1> QED
  BY <1>1, <1>4, <1>5

(* A write inserts no row and removes none. *)
LEMMA WriteRows ==
  ASSUME TypeOK, HeldRows, NEW w \in Processes, Write(w)
  PROVE  Rows' = Rows
<1>1. CASE SetDead(w) \/ SetDeferred(w) \/ SetDelivered(w) \/ SetFailed(w)
  <2> DEFINE d == worker[w].row.id
  <2>1. /\ d \in Rows /\ delivery'[d].status /= "absent"
        /\ \A x \in RowIds : x /= d => delivery'[x] = delivery[x]
    BY <1>1, DeliveryWrite DEF Rows
  <2> QED
    BY <2>1 DEF Rows
<1>2. CASE ClearFailures(w) \/ SetBreaker(w)
  BY <1>2 DEF ClearFailures, SetBreaker, Rows
<1> QED
  BY <1>1, <1>2 DEF Write

LEMMA DispatchStep ==
  ASSUME OneWorker, TypeOK, HeldRows, DispatchBooks, [Next]_vars
  PROVE  DispatchBooks'
<1>p. \A p \in Endpoints : endpoint[p].status /= "absent" => endpoint'[p].status /= "absent"
  BY OneWay
<1>d. \A d \in RowIds : d.event \in Events /\ d.endpoint \in Endpoints
  BY DEF RowIds
<1>w. \A w \in Processes : /\ \A t \in worker[w].targets : t.endpoint \in Endpoints
                           /\ worker[w].events \subseteq Events
  BY DEF TypeOK, WorkerState
<1>1. CASE Around
  <2>1. Rows' = Rows
    BY <1>1, TableRows DEF Around, SameTable
  <2>2. \A e \in Events : event[e] /= "none" => event'[e] = event[e]
    BY <1>1 DEF Around
  <2>3. \A d \in Rows' : d \in RowIds
    BY DEF Rows
  <2> QED
    BY <1>1, <1>p, <1>d, <1>w, <2>1, <2>2, <2>3 DEF DispatchBooks, Around
<1>2. ASSUME NEW w \in Processes, Rows' = Rows, event' = event,
             worker'[w].events \subseteq worker[w].events \cup Undispatched,
             \A t \in worker'[w].targets : t \in worker[w].targets \/ endpoint'[t.endpoint].status = "active"
      PROVE  DispatchBooks'
  <2>1. \A v \in Processes : v = w
    BY DEF OneWorker
  <2>2. \A d \in Rows' : d.copy = 1 /\ event'[d.event] = "dispatched" /\ endpoint'[d.endpoint].status /= "absent"
    BY <1>2, <1>p, <1>d DEF DispatchBooks, Rows
  <2>3. \A e \in worker'[w].events : event'[e] = "emitted"
    BY <1>2 DEF DispatchBooks, Undispatched
  <2>4. \A t \in worker'[w].targets : endpoint'[t.endpoint].status /= "absent"
    BY <1>2, <1>p, <1>w DEF DispatchBooks
  <2> QED
    BY <2>1, <2>2, <2>3, <2>4 DEF DispatchBooks
<1>3. ASSUME NEW w \in Processes, NEW e \in Events, FansOut(w, e) \/ FansOutUnheard(w, e)
      PROVE  DispatchBooks'
  <2>0. e \in worker[w].events /\ FanOut(w, e)
    BY <1>3 DEF FansOut, FansOutUnheard
  <2>1. \A v \in Processes : v = w
    BY DEF OneWorker
  <2>2. event' = [event EXCEPT ![e] = "dispatched"] /\ event \in [Events -> {"none", "emitted", "dispatched"}]
    BY <2>0, FirstRows DEF TypeOK
  <2>3. ASSUME NEW d \in Rows'
        PROVE  d.copy = 1 /\ event'[d.event] = "dispatched" /\ endpoint'[d.endpoint].status /= "absent"
    <3>1. d \in RowIds /\ delivery'[d].status /= "absent"
      BY DEF Rows
    <3>2. \/ d \in Rows
          \/ d.copy = 1 /\ d.event = e /\ endpoint[d.endpoint].status /= "absent"
      BY <2>0, <3>1, FirstRows DEF Rows
    <3> QED
      BY <1>p, <1>d, <2>2, <3>1, <3>2 DEF DispatchBooks
  <2>4. \A f \in worker'[w].events : event'[f] = "emitted"
    <3>1. worker'[w].events \subseteq worker[w].events \ {e}
      BY <1>3 DEF FansOut, FansOutUnheard, Idle
    <3> QED
      BY <1>w, <2>2, <3>1 DEF DispatchBooks
  <2>5. worker'[w].targets = {}
    BY <1>3 DEF FansOut, FansOutUnheard, Idle
  <2> QED
    BY <2>1, <2>3, <2>4, <2>5 DEF DispatchBooks
<1>4. ASSUME NEW w \in Processes, Move(w) PROVE DispatchBooks'
  <2>1. CASE \E e \in Events : FansOut(w, e) \/ FansOutUnheard(w, e)
    BY <1>3, <2>1
  <2>2. CASE Collects(w)
    BY <1>2, <2>2, TableRows DEF Collects, tables
  <2>3. CASE Aims(w)
    BY <1>2, <2>3, TableRows DEF Aims, tables
  <2>4. CASE Quits(w)
    BY <1>2, <2>4, TableRows DEF Quits, tables, Idle
  <2>5. CASE (\E S : Selects(w, S)) \/ \E r \in DueRow : Turns(w, r)
    BY <1>2, <2>5, TableRows DEF Selects, Turns, tables
  <2>6. CASE Keeps(w) /\ UNCHANGED <<event, delivery>>
    BY <1>2, <2>6, TableRows DEF Keeps
  <2>7. CASE Write(w) /\ (Keeps(w) \/ worker'[w] = Idle)
    BY <1>2, <2>7, WriteRows, WriteFrame DEF Keeps, Idle
  <2>8. CASE GivesUp(w) \/ PutsOff(w) \/ Succeeds(w) \/ Counts(w) \/ Clears(w) \/ Trips(w)
    BY <2>7, <2>8
       DEF GivesUp, PutsOff, Succeeds, Counts, Clears, Trips, MarkDead, Defer, WriteDelivered,
           WriteFailed, ResetFailures, WriteBreaker, Write
  <2>9. CASE Doubts(w)
    BY <2>7, <2>9 DEF Doubts, GoesOn
  <2>10. CASE Swallows(w)
    BY <2>6, <2>10 DEF Swallows, GoesOn, tables
  <2>11. ASSUME NEW o \in Outcomes, Calls(w, o) PROVE DispatchBooks'
    BY <2>6, <2>11 DEF Calls, Post, tables
  <2> QED
    BY <1>4, <2>1, <2>2, <2>3, <2>4, <2>5, <2>8, <2>9, <2>10, <2>11 DEF Move
<1> QED
  BY <1>1, <1>4, Moves

(* What the one worker read of a row still stands when it comes to write   *)
(* it, and no row waits twice in a tick.                                   *)
Unsettled == {"dead", "defer", "post", "ok", "fail"}
InStep(r) == delivery[r.id].status \in {"pending", "failed"} /\ delivery[r.id].attempt = r.attempt

(* The row of a "delivered" that was committed and reported as failed. *)
Doubted(r) ==
  /\ r.id \in disputed
  /\ delivery[r.id].status = "delivered" /\ delivery[r.id].attempt = r.attempt + 1

RowBooks ==
  \A w \in Processes :
    /\ \A r \in worker[w].rows : InStep(r)
    /\ worker[w].pc \in Unsettled =>
         /\ InStep(worker[w].row) \/ (worker[w].pc = "fail" /\ Doubted(worker[w].row))
         /\ \A r \in worker[w].rows : r.id /= worker[w].row.id
    /\ worker[w].pc = "dead" => endpoint[worker[w].row.id.endpoint].status /= "active"

(* Rows that are not settled move by the hand of the one worker only. *)
LEMMA RowBooksStep ==
  ASSUME OneWorker, TypeOK, HeldRows, DispatchBooks, RowBooks, [Next]_vars
  PROVE  RowBooks'
<1>r. \A w \in Processes : \A r \in worker[w].rows : r \in DueRow /\ r.id \in RowIds
  BY DEF TypeOK, WorkerState, DueRow
<1>q. ASSUME NEW w \in Processes, worker[w].pc \in Delivering
      PROVE  /\ worker[w].row.id \in RowIds /\ worker[w].row.id \in Rows
             /\ worker[w].row.id.endpoint \in Endpoints
  BY <1>q, HeldRowType DEF HeldRows
<1>1. CASE Around
  <2>1. \A w \in Processes : \A r \in worker[w].rows : InStep(r)'
    BY <1>1, <1>r DEF Around, SameTable, RowBooks, InStep
  <2>2. ASSUME NEW w \in Processes, worker[w].pc \in Unsettled
        PROVE  InStep(worker[w].row)' \/ (worker[w].pc = "fail" /\ Doubted(worker[w].row)')
    BY <1>1, <1>q, <2>2 DEF Around, SameTable, RowBooks, InStep, Doubted, Unsettled, Delivering
  <2>3. ASSUME NEW w \in Processes, worker[w].pc = "dead"
        PROVE  endpoint'[worker[w].row.id.endpoint].status /= "active"
    <3>1. worker[w].row.id \in Rows /\ worker[w].row.id.endpoint \in Endpoints
      BY <1>q, <2>3 DEF Delivering
    <3>2. /\ endpoint[worker[w].row.id.endpoint].status /= "absent"
          /\ endpoint[worker[w].row.id.endpoint].status /= "active"
      BY <2>3, <3>1 DEF DispatchBooks, RowBooks
    <3> QED
      BY <3>1, <3>2, OneWay
  <2> QED
    BY <1>1, <2>1, <2>2, <2>3 DEF RowBooks, Around, InStep, Doubted
<1>2. ASSUME NEW w \in Processes, \A r \in worker'[w].rows : InStep(r)', worker'[w].pc \notin Unsettled
      PROVE  RowBooks'
  <2>1. \A v \in Processes : v = w
    BY DEF OneWorker
  <2> QED
    BY <1>2, <2>1 DEF RowBooks, Unsettled, InStep, Doubted
<1>3. ASSUME NEW w \in Processes, worker'[w].rows \subseteq worker[w].rows, delivery' = delivery,
             worker'[w].pc \notin Unsettled
      PROVE  RowBooks'
  BY <1>2, <1>3 DEF RowBooks, InStep
<1>4. ASSUME NEW w \in Processes, NEW e \in Events, FansOut(w, e) \/ FansOutUnheard(w, e)
      PROVE  RowBooks'
  <2>0. e \in worker[w].events /\ FanOut(w, e)
    BY <1>4 DEF FansOut, FansOutUnheard
  <2>1. \A r \in worker[w].rows : delivery'[r.id] = delivery[r.id]
    BY <2>0, <1>r, FirstRows DEF RowBooks, InStep
  <2>2. worker'[w].rows \subseteq worker[w].rows /\ worker'[w].pc \in {"events", "idle"}
    BY <1>4 DEF FansOut, FansOutUnheard, Idle
  <2>3. \A r \in worker'[w].rows : InStep(r)'
    BY <2>1, <2>2 DEF RowBooks, InStep
  <2> QED
    BY <1>2, <2>2, <2>3 DEF Unsettled
<1>5. ASSUME NEW w \in Processes, NEW S, Selects(w, S) PROVE RowBooks'
  <2>1. ASSUME NEW r \in worker'[w].rows PROVE InStep(r)'
    <3>1. PICK d \in S : r = [id |-> d, attempt |-> delivery[d].attempt]
      BY <1>5 DEF Selects
    <3>2. delivery' = delivery /\ delivery[d].status \in {"pending", "failed"}
      BY <1>5 DEF Selects, tables, DueRows
    <3> QED
      BY <3>1, <3>2 DEF InStep
  <2> QED
    BY <1>2, <1>5, <2>1 DEF Selects, Unsettled
<1>6. ASSUME NEW w \in Processes, NEW r \in DueRow, Turns(w, r) PROVE RowBooks'
  <2>1. \A v \in Processes : v = w
    BY DEF OneWorker
  <2>2. /\ delivery' = delivery /\ endpoint' = endpoint /\ r \in worker[w].rows
        /\ worker'[w].rows = worker[w].rows \ {r} /\ worker'[w].row = r
        /\ worker'[w].pc = Route(r.id.endpoint)
    BY <1>6 DEF Turns, tables
  <2>3. InStep(r)' /\ \A x \in worker'[w].rows : InStep(x)'
    BY <2>2 DEF RowBooks, InStep
  <2>4. ASSUME NEW x \in worker'[w].rows PROVE x.id /= r.id
    <3>1. x \in worker[w].rows /\ x /= r /\ x \in DueRow
      BY <1>r, <2>2
    <3>2. x.id = r.id => x.attempt = r.attempt
      BY <2>2, <3>1 DEF RowBooks, InStep
    <3> QED
      BY <3>1, <3>2 DEF DueRow
  <2>5. worker'[w].pc = "dead" => endpoint'[r.id.endpoint].status /= "active"
    BY <2>2 DEF Route
  <2> QED
    BY <2>1, <2>2, <2>3, <2>4, <2>5 DEF RowBooks, InStep, Doubted
<1>7. ASSUME NEW w \in Processes, Keeps(w), Holds(w), delivery' = delivery,
             worker[w].pc \in Unsettled, worker[w].pc /= "fail", worker'[w].pc /= "dead"
      PROVE  RowBooks'
  <2>1. \A v \in Processes : v = w
    BY DEF OneWorker
  <2> QED
    BY <1>7, <2>1 DEF RowBooks, InStep, Doubted, Keeps, Holds
<1>8. ASSUME NEW w \in Processes, SetDead(w) \/ SetDeferred(w) \/ SetDelivered(w) \/ SetFailed(w),
             worker'[w].rows \subseteq worker[w].rows
      PROVE  \A r \in worker'[w].rows : InStep(r)'
  <2>1. worker[w].pc \in Unsettled
    BY <1>8 DEF SetDead, SetDeferred, SetDelivered, SetFailed, Unsettled
  <2>2. \A r \in worker[w].rows : delivery'[r.id] = delivery[r.id]
    BY <1>8, <1>r, <2>1, DeliveryWrite DEF RowBooks
  <2> QED
    BY <1>8, <2>2 DEF RowBooks, InStep
<1>10. ASSUME NEW w \in Processes, SetDelivered(w), disputed' = disputed \cup {worker[w].row.id},
              Keeps(w), Holds(w), worker'[w].pc = "fail"
       PROVE  RowBooks'
  <2> DEFINE d == worker[w].row.id
  <2>1. \A v \in Processes : v = w
    BY DEF OneWorker
  <2>2. \A r \in worker'[w].rows : InStep(r)'
    BY <1>8, <1>10 DEF Keeps
  <2>3. delivery'[d].status = "delivered" /\ delivery'[d].attempt = worker[w].row.attempt + 1
    BY <1>10, DeliveryWrite
  <2>4. Doubted(worker[w].row)'
    BY <1>10, <2>3 DEF Doubted, Holds
  <2>5. \A r \in worker'[w].rows : r.id /= worker'[w].row.id
    BY <1>10 DEF RowBooks, Keeps, Holds, SetDelivered, Unsettled
  <2> QED
    BY <1>10, <2>1, <2>2, <2>4, <2>5 DEF RowBooks
<1>9. ASSUME NEW w \in Processes, Move(w) PROVE RowBooks'
  <2>1. CASE Collects(w) \/ Aims(w) \/ Quits(w)
    BY <1>3, <2>1 DEF Collects, Aims, Quits, tables, Idle, Unsettled
  <2>2. CASE Clears(w) \/ Trips(w)
    BY <1>3, <2>2
       DEF Clears, Trips, ResetFailures, WriteBreaker, ClearFailures, SetBreaker, Keeps, Unsettled
  <2>3. CASE Swallows(w)
    <3>1. CASE worker'[w].pc = "fail"
      BY <1>7, <2>3, <3>1 DEF Swallows, GoesOn, tables, Unsettled
    <3>2. CASE worker'[w].pc /= "fail"
      BY <1>3, <2>3, <3>2 DEF Swallows, GoesOn, tables, Unsettled, Keeps
    <3> QED
      BY <3>1, <3>2
  <2>4. ASSUME NEW o \in Outcomes, Calls(w, o) PROVE RowBooks'
    BY <1>7, <2>4 DEF Calls, Post, tables, Unsettled, Answered
  <2>5. CASE GivesUp(w) \/ PutsOff(w) \/ Succeeds(w) \/ Counts(w)
    <3>1. /\ SetDead(w) \/ SetDeferred(w) \/ SetDelivered(w) \/ SetFailed(w)
          /\ worker'[w].rows \subseteq worker[w].rows
          /\ worker'[w].pc \notin Unsettled
      BY <2>5 DEF GivesUp, PutsOff, Succeeds, Counts, MarkDead, Defer, WriteDelivered, WriteFailed,
                  Keeps, Unsettled
    <3> QED
      BY <1>2, <1>8, <3>1
  <2>6. CASE Doubts(w)
    <3>1. CASE SetDelivered(w)
      BY <1>10, <2>6, <3>1 DEF Doubts, GoesOn, SetDelivered
    <3>2. CASE SetDead(w) \/ SetDeferred(w) \/ SetFailed(w)
      <4>1. worker[w].pc \in {"dead", "defer", "fail"}
        BY <3>2 DEF SetDead, SetDeferred, SetFailed
      <4>2. worker'[w].rows \subseteq worker[w].rows /\ worker'[w].pc \notin Unsettled
        BY <2>6, <4>1 DEF Doubts, GoesOn, Keeps, Idle, Unsettled
      <4> QED
        BY <1>2, <1>8, <3>2, <4>2
    <3>3. CASE ClearFailures(w) \/ SetBreaker(w)
      <4>1. delivery' = delivery /\ worker[w].pc \in {"reset", "trip"}
        BY <3>3 DEF ClearFailures, SetBreaker
      <4> QED
        BY <1>3, <2>6, <4>1 DEF Doubts, GoesOn, Keeps, Unsettled
    <3> QED
      BY <2>6, <3>1, <3>2, <3>3 DEF Doubts, Write
  <2> QED
    BY <1>4, <1>5, <1>6, <1>9, <2>1, <2>2, <2>3, <2>4, <2>5, <2>6 DEF Move
<1> QED
  BY <1>1, <1>9, Moves

(* The attempts made for a row are the attempts it counts, the one whose   *)
(* outcome the worker is about to write and the row does not count yet,    *)
(* and at most one per fault.                                              *)
Flies(w, d) ==
  /\ worker[w].pc \in {"ok", "fail"} /\ worker[w].row.id = d
  /\ delivery[d].attempt = worker[w].row.attempt
InFlight(d) == IF \E w \in Processes : Flies(w, d) THEN 1 ELSE 0

AttemptsOf(d) ==
  /\ delivery[d].status \in {"pending", "failed"} => delivery[d].attempt < MaxAttempts
  /\ delivery[d].status = "absent" => delivery[d].attempt = 0
  /\ delivery[d].attempt <= MaxAttempts
  /\ delivery[d].attempt + InFlight(d) <= posts[d]
  /\ posts[d] <= delivery[d].attempt + InFlight(d) + faults
  /\ delivery[d].status = "dead" =>
       posts[d] >= MaxAttempts \/ endpoint[d.endpoint].status /= "active"

AttemptBooks == \A d \in RowIds : AttemptsOf(d)

(* A step that leaves the row, its attempts and its flight alone. *)
LEMMA AttemptsKept ==
  ASSUME TypeOK, TypeOK', HeldRows, DispatchBooks, [Next]_vars, NEW d \in RowIds, AttemptsOf(d),
         delivery'[d].status = delivery[d].status, delivery'[d].attempt = delivery[d].attempt,
         posts'[d] = posts[d], InFlight(d)' = InFlight(d), faults' = faults \/ faults' = faults + 1
  PROVE  AttemptsOf(d)'
<1>1. faults \in Nat /\ posts[d] \in Nat /\ delivery[d].attempt \in Nat /\ MaxAttempts \in Nat
  BY OutboxAssumption DEF TypeOK, DeliveryRow
<1>2. InFlight(d) \in {0, 1}
  BY DEF InFlight
<1>3. delivery[d].status = "dead" => endpoint[d.endpoint].status /= "absent" /\ d.endpoint \in Endpoints
  BY DEF DispatchBooks, Rows, RowIds
<1>4. delivery'[d].status = "dead" => posts'[d] >= MaxAttempts \/ endpoint'[d.endpoint].status /= "active"
  BY <1>3, OneWay DEF AttemptsOf
<1> DEFINE fly == InFlight(d)
           flies == InFlight(d)'
<1> HIDE DEF fly, flies
<1>5. fly \in Nat /\ flies = fly
  BY <1>2 DEF fly, flies
<1>6. delivery[d].attempt + fly <= posts[d] /\ posts[d] <= delivery[d].attempt + fly + faults
  BY DEF AttemptsOf, fly
<1>7. delivery'[d].attempt + flies <= posts'[d] /\ posts'[d] <= delivery'[d].attempt + flies + faults'
  BY <1>1, <1>5, <1>6
<1> QED
  BY <1>4, <1>7 DEF AttemptsOf, flies

(* A fault loses the record of at most the attempt in flight. *)
LEMMA FlightLost ==
  ASSUME TypeOK, TypeOK', HeldRows, DispatchBooks, [Next]_vars, NEW d \in RowIds, AttemptsOf(d),
         delivery'[d].status = delivery[d].status, delivery'[d].attempt = delivery[d].attempt,
         posts' = posts, InFlight(d)' = 0, faults' = faults + 1
  PROVE  AttemptsOf(d)'
<1>1. faults \in Nat /\ posts[d] \in Nat /\ delivery[d].attempt \in Nat /\ MaxAttempts \in Nat
  BY OutboxAssumption DEF TypeOK, DeliveryRow
<1>2. InFlight(d) \in {0, 1}
  BY DEF InFlight
<1>3. delivery[d].status = "dead" => endpoint[d.endpoint].status /= "absent" /\ d.endpoint \in Endpoints
  BY DEF DispatchBooks, Rows, RowIds
<1>4. delivery'[d].status = "dead" => posts'[d] >= MaxAttempts \/ endpoint'[d.endpoint].status /= "active"
  BY <1>3, OneWay DEF AttemptsOf
<1> DEFINE fly == InFlight(d)
           flies == InFlight(d)'
<1> HIDE DEF fly, flies
<1>5. fly \in {0, 1} /\ flies = 0
  BY <1>2 DEF fly, flies
<1>6. delivery[d].attempt + fly <= posts[d] /\ posts[d] <= delivery[d].attempt + fly + faults
  BY DEF AttemptsOf, fly
<1>7. delivery'[d].attempt + flies <= posts'[d] /\ posts'[d] <= delivery'[d].attempt + flies + faults'
  BY <1>1, <1>5, <1>6
<1> QED
  BY <1>4, <1>7 DEF AttemptsOf, flies

(* A new value of the row and its flight that adds up. *)
LEMMA AttemptsWritten ==
  ASSUME NEW d \in RowIds, NEW n \in Nat, NEW m \in Nat, NEW fly \in {0, 1},
         MaxAttempts \in Nat, faults' \in Nat,
         delivery'[d].attempt = n, posts'[d] = m, InFlight(d)' = fly,
         n <= MaxAttempts, n + fly <= m, m <= n + fly + faults',
         delivery'[d].status \in {"pending", "failed"} => n < MaxAttempts,
         delivery'[d].status /= "absent",
         delivery'[d].status = "dead" => m >= MaxAttempts \/ endpoint'[d.endpoint].status /= "active"
  PROVE  AttemptsOf(d)'
<1>1. delivery'[d].attempt + InFlight(d)' <= posts'[d]
  OBVIOUS
<1>2. posts'[d] <= delivery'[d].attempt + InFlight(d)' + faults'
  OBVIOUS
<1> QED
  BY <1>1, <1>2 DEF AttemptsOf

LEMMA AttemptsStep ==
  ASSUME OneWorker, TypeOK, TypeOK', HeldRows, DispatchBooks, RowBooks, AttemptBooks, [Next]_vars
  PROVE  AttemptBooks'
<1> SUFFICES ASSUME NEW d \in RowIds PROVE AttemptsOf(d)'
  BY DEF AttemptBooks
<1>n. /\ MaxAttempts \in Nat /\ MaxAttempts > 0 /\ faults \in Nat /\ faults' \in Nat
      /\ posts \in [RowIds -> Nat] /\ posts[d] \in Nat
      /\ delivery[d].attempt \in Nat
  BY OutboxAssumption DEF TypeOK, DeliveryRow
<1>a. AttemptsOf(d)
  BY DEF AttemptBooks
<1>1. CASE Around
  <2>1. InFlight(d)' = InFlight(d)
    BY <1>1 DEF Around, InFlight, Flies, SameTable
  <2> QED
    BY <1>a, <1>1, <2>1, AttemptsKept DEF Around, SameTable
<1>2. ASSUME NEW w \in Processes, Move(w) PROVE AttemptsOf(d)'
  <2>o. \A v \in Processes : v = w
    BY DEF OneWorker
  <2>f. /\ InFlight(d) = IF Flies(w, d) THEN 1 ELSE 0
        /\ InFlight(d)' = IF Flies(w, d)' THEN 1 ELSE 0
    BY <2>o DEF InFlight
  <2>k. ASSUME worker[w].pc \notin {"ok", "fail"}, worker'[w].pc \notin {"ok", "fail"},
               posts' = posts, delivery'[d].status = delivery[d].status,
               delivery'[d].attempt = delivery[d].attempt, faults' = faults \/ faults' = faults + 1
        PROVE  AttemptsOf(d)'
    BY <1>a, <2>f, <2>k, AttemptsKept DEF Flies
  <2>1. CASE Collects(w) \/ Aims(w)
    BY <2>k, <2>1 DEF Collects, Aims, tables, history
  <2>2. ASSUME NEW S, Selects(w, S) PROVE AttemptsOf(d)'
    BY <2>k, <2>2 DEF Selects, tables, history
  <2>3. ASSUME NEW r \in DueRow, Turns(w, r) PROVE AttemptsOf(d)'
    BY <2>k, <2>3 DEF Turns, tables, history, Route
  <2>4. ASSUME NEW e \in Events, FansOut(w, e) \/ FansOutUnheard(w, e) PROVE AttemptsOf(d)'
    <3>1. /\ posts' = posts
          /\ faults' = faults \/ faults' = faults + 1
          /\ worker[w].pc = "commit" /\ worker'[w].pc \in {"events", "idle"}
      BY <2>4 DEF FansOut, FansOutUnheard, history, Idle
    <3>2. CASE delivery'[d] = delivery[d]
      BY <2>k, <3>1, <3>2
    <3>3. CASE delivery[d].status = "absent" /\ delivery'[d].status = "pending" /\ delivery'[d].attempt = 0
      <4>1. InFlight(d) = 0 /\ InFlight(d)' = 0 /\ delivery[d].attempt = 0
        BY <1>a, <2>f, <3>1, <3>3 DEF AttemptsOf, Flies
      <4>2. posts[d] <= faults'
        BY <1>a, <1>n, <3>1, <4>1 DEF AttemptsOf
      <4> QED
        BY <1>n, <3>1, <3>3, <4>1, <4>2, AttemptsWritten
    <3>4. e \in worker[w].events /\ FanOut(w, e)
      BY <2>4 DEF FansOut, FansOutUnheard
    <3> QED
      BY <3>2, <3>3, <3>4, FirstRows
  <2>5. CASE Quits(w)
    <3>1. delivery' = delivery /\ posts' = posts /\ InFlight(d)' = 0 /\ worker'[w].pc = "idle"
      BY <2>5, <2>f DEF Quits, tables, history, Idle, Flies
    <3>2. CASE faults' = faults + 1
      BY <1>a, <3>1, <3>2, FlightLost
    <3>3. CASE faults' = faults /\ worker[w].pc = "deliver"
      BY <2>k, <3>1, <3>3
    <3> QED
      BY <2>5, <3>2, <3>3 DEF Quits
  <2>6. ASSUME SetDead(w), worker'[w].pc \in {"deliver", "idle"}, faults' = faults \/ faults' = faults + 1
        PROVE  AttemptsOf(d)'
    <3>1. worker[w].pc = "dead" /\ posts' = posts /\ endpoint' = endpoint
      BY <2>6 DEF SetDead, history
    <3>2. CASE d /= worker[w].row.id
      BY <2>k, <2>6, <3>1, <3>2, DeliveryWrite
    <3>3. CASE d = worker[w].row.id
      <4>1. delivery'[d].status = "dead" /\ delivery'[d].attempt = delivery[d].attempt
        BY <2>6, <3>3, DeliveryWrite
      <4>2. endpoint'[d.endpoint].status /= "active"
        BY <3>1, <3>3 DEF RowBooks
      <4>3. InFlight(d) = 0 /\ InFlight(d)' = 0
        BY <2>f, <2>6, <3>1 DEF Flies
      <4>4. /\ delivery[d].attempt <= posts[d] /\ posts[d] <= delivery[d].attempt + faults'
            /\ delivery[d].attempt <= MaxAttempts
        BY <1>a, <1>n, <2>6, <4>3 DEF AttemptsOf
      <4> QED
        BY <1>n, <3>1, <4>1, <4>2, <4>3, <4>4, AttemptsWritten
    <3> QED
      BY <3>2, <3>3
  <2>7. ASSUME SetDeferred(w), worker'[w].pc \in {"deliver", "idle"}, faults' = faults \/ faults' = faults + 1
        PROVE  AttemptsOf(d)'
    <3>1. worker[w].pc = "defer" /\ posts' = posts
      BY <2>7 DEF SetDeferred, history
    <3>2. delivery'[d].status = delivery[d].status /\ delivery'[d].attempt = delivery[d].attempt
      BY <2>7, DeliveryWrite
    <3> QED
      BY <2>k, <2>7, <3>1, <3>2
  <2>8. ASSUME NEW o \in Outcomes, Calls(w, o) PROVE AttemptsOf(d)'
    <3>1. /\ Post(w, o) /\ worker[w].pc = "post" /\ worker'[w].pc \in {"ok", "fail"}
          /\ worker'[w].row = worker[w].row /\ faults' = faults
          /\ delivery' = delivery /\ endpoint' = endpoint
          /\ posts' = [posts EXCEPT ![worker[w].row.id] = @ + 1]
      BY <2>8 DEF Calls, Holds, Post, tables, Answered
    <3>2. CASE d /= worker[w].row.id
      <4>1. posts'[d] = posts[d] /\ InFlight(d)' = InFlight(d)
        BY <1>n, <2>f, <3>1, <3>2 DEF Flies
      <4> QED
        BY <1>a, <3>1, <4>1, AttemptsKept
    <3>3. CASE d = worker[w].row.id
      <4>2. delivery[d].status \in {"pending", "failed"} /\ delivery[d].attempt = worker[w].row.attempt
        BY <3>1, <3>3 DEF RowBooks, InStep, Unsettled
      <4>1. posts'[d] = posts[d] + 1 /\ InFlight(d) = 0 /\ InFlight(d)' = 1
        BY <1>n, <2>f, <3>1, <3>3, <4>2 DEF Flies
      <4>3. /\ delivery[d].attempt < MaxAttempts /\ delivery[d].attempt <= posts[d]
            /\ posts[d] <= delivery[d].attempt + faults
        BY <1>a, <1>n, <4>1, <4>2 DEF AttemptsOf
      <4>4. PICK m \in Nat : m = posts[d] + 1
        BY <1>n
      <4>5. /\ delivery[d].attempt + 1 <= m /\ m <= delivery[d].attempt + 1 + faults
            /\ delivery[d].attempt <= MaxAttempts
        BY <1>n, <4>3, <4>4
      <4> QED
        BY <1>n, <3>1, <4>1, <4>2, <4>3, <4>4, <4>5, AttemptsWritten
    <3> QED
      BY <3>2, <3>3
  <2>9. ASSUME SetDelivered(w) \/ SetFailed(w), faults' = faults \/ faults' = faults + 1,
               \/ worker'[w].pc \notin {"ok", "fail"}
               \/ Holds(w)
        PROVE  AttemptsOf(d)'
    <3>1. worker[w].pc \in {"ok", "fail"} /\ posts' = posts
      BY <2>9 DEF SetDelivered, SetFailed
    <3>2. CASE d /= worker[w].row.id
      <4>1. InFlight(d)' = InFlight(d) /\ delivery'[d] = delivery[d]
        BY <2>f, <2>9, <3>2, DeliveryWrite DEF Holds, Flies
      <4> QED
        BY <1>a, <2>9, <3>1, <4>1, AttemptsKept
    <3>3. CASE d = worker[w].row.id
      <4>0. worker[w].row.attempt \in Nat
        BY <3>1, HeldRowType DEF Delivering
      <4>n. PICK n \in Nat : n = worker[w].row.attempt + 1
        BY <4>0
      <4>1. /\ delivery'[d].attempt = n
            /\ \/ delivery'[d].status = "delivered"
               \/ delivery'[d].status = (IF Terminal(n) THEN "dead" ELSE "failed")
        BY <2>9, <3>3, <4>n, DeliveryWrite
      <4>2. InFlight(d)' = 0
        BY <2>f, <2>9, <3>3, <4>0, <4>n, <4>1 DEF Holds, Flies
      <4>3. n <= MaxAttempts /\ n + 0 <= posts[d] /\ posts[d] <= n + 0 + faults'
        <5>1. CASE InStep(worker[w].row)
          <6>1. delivery[d].status \in {"pending", "failed"} /\ delivery[d].attempt = worker[w].row.attempt
            BY <3>3, <5>1 DEF InStep
          <6>2. InFlight(d) = 1
            BY <2>f, <3>1, <3>3, <6>1 DEF Flies
          <6>3. /\ delivery[d].attempt < MaxAttempts /\ delivery[d].attempt + 1 <= posts[d]
                /\ posts[d] <= delivery[d].attempt + 1 + faults
            BY <1>a, <1>n, <6>1, <6>2 DEF AttemptsOf
          <6> QED
            BY <1>n, <2>9, <4>0, <4>n, <6>1, <6>3
        <5>2. CASE Doubted(worker[w].row)
          <6>1. delivery[d].attempt = n
            BY <3>3, <4>n, <5>2 DEF Doubted
          <6>2. InFlight(d) = 0
            BY <2>f, <3>3, <4>0, <4>n, <6>1 DEF Flies
          <6>3. n <= MaxAttempts /\ n <= posts[d] /\ posts[d] <= n + faults
            BY <1>a, <1>n, <6>1, <6>2 DEF AttemptsOf
          <6> QED
            BY <1>n, <2>9, <6>3
        <5> QED
          BY <3>1, <5>1, <5>2 DEF RowBooks, Unsettled
      <4>7. /\ delivery'[d].status /= "absent"
            /\ delivery'[d].status \in {"pending", "failed"} => n < MaxAttempts
            /\ delivery'[d].status = "dead" => posts[d] >= MaxAttempts
        BY <1>n, <4>1, <4>3 DEF Terminal
      <4> QED
        BY <1>n, <3>1, <4>1, <4>2, <4>3, <4>7, AttemptsWritten
    <3> QED
      BY <3>2, <3>3
  <2>10. ASSUME ClearFailures(w) \/ SetBreaker(w), worker'[w].pc = "deliver",
                faults' = faults \/ faults' = faults + 1
         PROVE  AttemptsOf(d)'
    <3>1. worker[w].pc \in {"reset", "trip"} /\ UNCHANGED <<delivery, posts>>
      BY <2>10 DEF ClearFailures, SetBreaker, history
    <3> QED
      BY <2>k, <2>10, <3>1
  <2>11. CASE Swallows(w)
    <3>1. delivery' = delivery /\ posts' = posts /\ faults' = faults + 1
      BY <2>11 DEF Swallows, GoesOn, tables, history
    <3>2. CASE worker[w].pc = "ok"
      <4>1. InFlight(d)' = InFlight(d)
        BY <2>f, <2>11, <3>1, <3>2 DEF Swallows, GoesOn, Holds, Flies
      <4> QED
        BY <1>a, <3>1, <4>1, AttemptsKept
    <3>3. CASE worker[w].pc /= "ok"
      <4>1. InFlight(d)' = 0
        BY <2>f, <2>11, <3>3 DEF Swallows, GoesOn, Flies
      <4> QED
        BY <1>a, <3>1, <4>1, FlightLost
    <3> QED
      BY <3>2, <3>3
  <2>12. CASE GivesUp(w) \/ PutsOff(w) \/ Succeeds(w) \/ Counts(w) \/ Clears(w) \/ Trips(w)
    <3>1. CASE GivesUp(w) \/ PutsOff(w)
      BY <2>6, <2>7, <3>1 DEF GivesUp, PutsOff, MarkDead, Defer
    <3>2. CASE Succeeds(w) \/ Counts(w)
      BY <2>9, <3>2 DEF Succeeds, Counts, WriteDelivered, WriteFailed
    <3>3. CASE Clears(w) \/ Trips(w)
      BY <2>10, <3>3 DEF Clears, Trips, ResetFailures, WriteBreaker
    <3> QED
      BY <2>12, <3>1, <3>2, <3>3
  <2>13. CASE Doubts(w)
    <3>0. faults' = faults + 1
      BY <2>13 DEF Doubts, GoesOn
    <3>1. CASE SetDead(w) \/ SetDeferred(w)
      <4>1. worker'[w].pc = "idle"
        BY <2>13, <3>1 DEF Doubts, GoesOn, SetDead, SetDeferred, Idle
      <4> QED
        BY <2>6, <2>7, <3>0, <3>1, <4>1
    <3>2. CASE SetDelivered(w) \/ SetFailed(w)
      <4>1. Holds(w)
        BY <2>13, <3>2 DEF Doubts, GoesOn, SetDelivered, SetFailed
      <4> QED
        BY <2>9, <3>0, <3>2, <4>1
    <3>3. CASE ClearFailures(w) \/ SetBreaker(w)
      <4>1. worker'[w].pc = "deliver"
        BY <2>13, <3>3 DEF Doubts, GoesOn, ClearFailures, SetBreaker
      <4> QED
        BY <2>10, <3>0, <3>3, <4>1
    <3> QED
      BY <2>13, <3>1, <3>2, <3>3 DEF Doubts, Write
  <2> QED
    BY <1>2, <2>1, <2>2, <2>3, <2>4, <2>5, <2>8, <2>11, <2>12, <2>13 DEF Move
<1> QED
  BY <1>1, <1>2, Moves

(* Until a fault, the breaker's count is the streak, but for the endpoint  *)
(* whose attempt the one worker has not written yet.                       *)
Accounting == {"ok", "reset", "fail", "trip"}

BreakerOf(w) ==
  LET v == worker[w] p == worker[w].row.id.endpoint IN
  /\ v.pc \in {"post", "ok", "fail", "trip"} => v.failures = endpoint[p].failures
  /\ v.pc \in {"fail", "trip"} => streak[p] = v.failures + 1
  /\ v.pc \in {"ok", "reset"} => streak[p] = 0
  /\ \A q \in Endpoints :
       (v.pc \in Accounting /\ q = p) \/ endpoint[q].failures = streak[q]

BreakerBooks == faults = 0 => \A w \in Processes : BreakerOf(w)

LEMMA BreakerStep ==
  ASSUME OneWorker, TypeOK, HeldRows, BreakerBooks, [Next]_vars
  PROVE  BreakerBooks'
<1> SUFFICES ASSUME faults' = 0, NEW w \in Processes PROVE BreakerOf(w)'
  BY DEF BreakerBooks
<1>n. faults \in Nat /\ Threshold \in Nat \ {0} /\ streak \in [Endpoints -> Nat] /\ endpoint \in [Endpoints -> EndpointRow]
  BY OutboxAssumption DEF TypeOK
<1>q. worker[w].pc \in Delivering => worker[w].row.id.endpoint \in Endpoints /\ worker[w].failures \in 0..(Threshold - 1)
  BY HeldRowType
<1>1. CASE Around
  <2>1. BreakerOf(w)
    BY <1>1 DEF Around, BreakerBooks
  <2>2. /\ worker' = worker /\ streak' = streak
        /\ \A p \in Endpoints : endpoint'[p].failures = endpoint[p].failures
    BY <1>1 DEF Around, SameCounts
  <2>3. worker[w].pc \in {"post", "ok", "fail", "trip"} => worker[w].row.id.endpoint \in Endpoints
    BY <1>q DEF Delivering
  <2> QED
    BY <2>1, <2>2, <2>3 DEF BreakerOf
<1>2. CASE Move(w)
  <2>0. faults = 0
    <3>1. faults' = faults \/ faults' = faults + 1
      <4>1. CASE Doubts(w) \/ Swallows(w) \/ \E e \in Events : FansOutUnheard(w, e)
        BY <4>1 DEF Doubts, Swallows, GoesOn, FansOutUnheard
      <4>2. CASE Succeeds(w) \/ Counts(w) \/ Trips(w) \/ Clears(w) \/ GivesUp(w) \/ PutsOff(w)
        BY <4>2 DEF Succeeds, Counts, Trips, Clears, GivesUp, PutsOff, MarkDead, Defer,
                    WriteDelivered, ResetFailures, WriteFailed, WriteBreaker
      <4> QED
        BY <1>2, <4>1, <4>2 DEF Move, Collects, Aims, Quits, FansOut, Selects, Turns, Calls, Post
    <3> QED
      BY <1>n, <3>1
  <2>b. BreakerOf(w)
    BY <2>0 DEF BreakerBooks
  <2>f. faults' /= faults + 1
    BY <2>0
  <2>r. ASSUME worker[w].pc \notin Accounting, worker'[w].pc \notin Accounting, worker'[w].pc /= "post",
               endpoint' = endpoint, streak' = streak
        PROVE  BreakerOf(w)'
    BY <2>b, <2>r DEF BreakerOf, Accounting
  <2>1. CASE Collects(w) \/ Aims(w)
    BY <2>r, <2>1 DEF Collects, Aims, tables, history, Accounting
  <2>2. ASSUME NEW S, Selects(w, S) PROVE BreakerOf(w)'
    BY <2>r, <2>2 DEF Selects, tables, history, Accounting
  <2>3. ASSUME NEW e \in Events, FansOut(w, e) PROVE BreakerOf(w)'
    BY <2>r, <2>3 DEF FansOut, history, Accounting
  <2>4. CASE Quits(w)
    BY <2>f, <2>r, <2>4 DEF Quits, tables, history, Accounting, Idle
  <2>5. CASE GivesUp(w) \/ PutsOff(w)
    BY <2>r, <2>5 DEF GivesUp, PutsOff, MarkDead, Defer, SetDead, SetDeferred, history, Accounting
  <2>6. ASSUME NEW r \in DueRow, Turns(w, r) PROVE BreakerOf(w)'
    <3>1. /\ endpoint' = endpoint /\ streak' = streak /\ worker[w].pc = "deliver"
          /\ worker'[w].pc \in {"dead", "defer", "post"} /\ worker'[w].row = r
          /\ worker'[w].failures = endpoint[r.id.endpoint].failures
      BY <2>6 DEF Turns, tables, history, Route
    <3>2. \A q \in Endpoints : endpoint[q].failures = streak[q]
      BY <2>b, <3>1 DEF BreakerOf, Accounting
    <3> QED
      BY <3>1, <3>2 DEF BreakerOf, Accounting
  <2>7. ASSUME NEW o \in Outcomes, Calls(w, o) PROVE BreakerOf(w)'
    <3> DEFINE p == worker[w].row.id.endpoint
    <3>1. /\ worker[w].pc = "post" /\ worker'[w].pc = Answered(o)
          /\ worker'[w].row = worker[w].row /\ worker'[w].failures = worker[w].failures
          /\ endpoint' = endpoint
          /\ streak' = [streak EXCEPT ![p] = IF o = "ok" THEN 0 ELSE @ + 1]
      BY <2>7 DEF Calls, Holds, Post, tables
    <3>2. p \in Endpoints
      BY <1>q, <3>1 DEF Delivering
    <3>3. /\ worker[w].failures = endpoint[p].failures
          /\ \A q \in Endpoints : endpoint[q].failures = streak[q]
      BY <2>b, <3>1 DEF BreakerOf, Accounting
    <3>4. /\ streak'[p] = IF o = "ok" THEN 0 ELSE streak[p] + 1
          /\ \A q \in Endpoints : q /= p => streak'[q] = streak[q]
      BY <1>n, <3>1, <3>2
    <3>5. /\ worker'[w].row.id.endpoint = p
          /\ worker'[w].pc = (IF o = "ok" THEN "ok" ELSE "fail")
      BY <3>1 DEF Answered
    <3> HIDE DEF p
    <3> QED
      BY <3>1, <3>2, <3>3, <3>4, <3>5 DEF BreakerOf, Accounting
  <2>8. CASE Succeeds(w)
    <3> DEFINE p == worker[w].row.id.endpoint
    <3>1. worker[w].pc = "ok" /\ endpoint' = endpoint /\ streak' = streak
      BY <2>8 DEF Succeeds, WriteDelivered, SetDelivered
    <3>2. /\ p \in Endpoints /\ worker[w].failures \in 0..(Threshold - 1)
          /\ worker[w].failures = endpoint[p].failures /\ streak[p] = 0
          /\ \A q \in Endpoints : q /= p => endpoint[q].failures = streak[q]
      BY <1>q, <2>b, <3>1 DEF BreakerOf, Accounting, Delivering
    <3>3. CASE worker[w].failures > 0
      BY <2>8, <3>1, <3>2, <3>3 DEF Succeeds, Holds, BreakerOf, Accounting
    <3>4. CASE ~(worker[w].failures > 0)
      <4>1. worker[w].failures = 0
        BY <3>2, <3>4
      <4>2. \A q \in Endpoints : endpoint'[q].failures = streak'[q]
        BY <3>1, <3>2, <4>1
      <4>3. worker'[w].pc = "deliver"
        BY <2>8, <3>4 DEF Succeeds
      <4> QED
        BY <4>2, <4>3 DEF BreakerOf, Accounting
    <3> QED
      BY <3>3, <3>4
  <2>9. CASE Clears(w)
    <3> DEFINE p == worker[w].row.id.endpoint
    <3>1. /\ worker[w].pc = "reset" /\ worker'[w].pc = "deliver" /\ streak' = streak
          /\ endpoint' = [endpoint EXCEPT ![p].failures = 0]
      BY <2>9 DEF Clears, ResetFailures, ClearFailures, history
    <3>2. /\ p \in Endpoints /\ streak[p] = 0
          /\ \A q \in Endpoints : q /= p => endpoint[q].failures = streak[q]
      BY <1>q, <2>b, <3>1 DEF BreakerOf, Accounting, Delivering
    <3>3. \A q \in Endpoints : endpoint'[q].failures = streak'[q]
      BY <1>n, <3>1, <3>2 DEF EndpointRow
    <3> QED
      BY <3>1, <3>3 DEF BreakerOf, Accounting
  <2>10. CASE Counts(w)
    <3>1. /\ worker[w].pc = "fail" /\ worker'[w].pc = "trip" /\ streak' = streak /\ endpoint' = endpoint
          /\ worker'[w].row = worker[w].row /\ worker'[w].failures = worker[w].failures
      BY <2>10 DEF Counts, WriteFailed, SetFailed, Holds
    <3> QED
      BY <2>b, <3>1 DEF BreakerOf, Accounting
  <2>11. CASE Trips(w)
    <3> DEFINE p == worker[w].row.id.endpoint
               n == worker[w].failures + 1
    <3>1. /\ worker[w].pc = "trip" /\ worker'[w].pc = "deliver"
          /\ IF n >= Threshold
               THEN /\ endpoint' = [endpoint EXCEPT ![p].failures = 0, ![p].open = TRUE]
                    /\ streak' = [streak EXCEPT ![p] = 0]
               ELSE /\ endpoint' = [endpoint EXCEPT ![p].failures = n]
                    /\ UNCHANGED streak
      BY <2>11 DEF Trips, WriteBreaker, SetBreaker
    <3>2. /\ p \in Endpoints /\ streak[p] = n
          /\ \A q \in Endpoints : q /= p => endpoint[q].failures = streak[q]
      BY <1>q, <2>b, <3>1 DEF BreakerOf, Accounting, Delivering
    <3> HIDE DEF p, n
    <3>3. CASE n >= Threshold
      <4>1. \A q \in Endpoints : endpoint'[q].failures = streak'[q]
        BY <1>n, <3>1, <3>2, <3>3 DEF EndpointRow
      <4> QED
        BY <3>1, <4>1 DEF BreakerOf, Accounting
    <3>4. CASE ~(n >= Threshold)
      <4>1. \A q \in Endpoints : endpoint'[q].failures = streak'[q]
        BY <1>n, <3>1, <3>2, <3>4 DEF EndpointRow
      <4> QED
        BY <3>1, <4>1 DEF BreakerOf, Accounting
    <3> QED
      BY <3>3, <3>4
  <2>12. CASE Swallows(w) \/ Doubts(w) \/ \E e \in Events : FansOutUnheard(w, e)
    BY <2>f, <2>12 DEF Swallows, Doubts, GoesOn, FansOutUnheard
  <2> QED
    BY <1>2, <2>1, <2>2, <2>3, <2>4, <2>5, <2>6, <2>7, <2>8, <2>9, <2>10, <2>11, <2>12 DEF Move
<1>3. ASSUME NEW v \in Processes, Move(v) PROVE Move(w)
  <2>1. v = w
    BY DEF OneWorker
  <2> QED
    BY <1>3, <2>1
<1> QED
  BY <1>1, <1>2, <1>3, Moves

-----------------------------------------------------------------------------
(* The inductive invariant of one worker. *)
SoleInv == TypeOK /\ HeldRows /\ DispatchBooks /\ RowBooks /\ AttemptBooks /\ BreakerBooks

LEMMA SoleStart == Init => SoleInv
<1> SUFFICES ASSUME Init PROVE SoleInv
  OBVIOUS
<1>1. TypeOK /\ HeldRows
  BY InitTypes DEF OutboxInv
<1>2. DispatchBooks
  BY DEF Init, DispatchBooks, Rows, Idle
<1>3. RowBooks
  BY DEF Init, RowBooks, Idle, Unsettled
<1>4. AttemptBooks
  <2> SUFFICES ASSUME NEW d \in RowIds PROVE AttemptsOf(d)
    BY DEF AttemptBooks
  <2>1. InFlight(d) = 0
    BY DEF Init, InFlight, Flies, Idle
  <2>2. /\ delivery[d].status = "absent" /\ delivery[d].attempt = 0 /\ posts[d] = 0 /\ faults = 0
        /\ MaxAttempts \in Nat
    BY OutboxAssumption DEF Init
  <2> QED
    BY <2>1, <2>2 DEF AttemptsOf
<1>5. BreakerBooks
  BY DEF Init, BreakerBooks, BreakerOf, Accounting, Idle
<1> QED
  BY <1>1, <1>2, <1>3, <1>4, <1>5 DEF SoleInv

LEMMA SoleStep ==
  ASSUME OneWorker
  PROVE  SoleInv /\ [Next]_vars => SoleInv'
BY TypeStep, HeldRowsStep, DispatchStep, RowBooksStep, AttemptsStep, BreakerStep DEF SoleInv

(* One worker keeps its books: what it read of a row still stands when it   *)
(* writes it, and every attempt is written, in its hands, or lost to a      *)
(* fault.                                                                   *)
THEOREM SoleInvariant == OneWorker => (Spec => []SoleInv)
<1> SUFFICES ASSUME OneWorker PROVE Spec => []SoleInv
  OBVIOUS
<1>1. SoleInv /\ [Next]_vars => SoleInv'
  BY SoleStep
<1> QED
  BY <1>1, SoleStart, PTL DEF Spec

(* With one worker, fanOutPending gives an endpoint one row per event,      *)
(* wherever a tick fails and however often it runs again.                   *)
THEOREM OneRowPerEndpoint == OneWorker => (Spec => []OneDeliveryPerEndpoint)
<1> SUFFICES ASSUME OneWorker PROVE Spec => []OneDeliveryPerEndpoint
  OBVIOUS
<1>1. SoleInv => OneDeliveryPerEndpoint
  <2> SUFFICES ASSUME SoleInv, NEW e \in Events, NEW p \in Endpoints
               PROVE  Cardinality(Copies(e, p)) <= 1
    BY DEF OneDeliveryPerEndpoint
  <2> DEFINE d == [event |-> e, endpoint |-> p, copy |-> 1]
  <2>1. Copies(e, p) \subseteq {d}
    BY DEF SoleInv, DispatchBooks, Copies, Rows, RowIds
  <2>2. IsFiniteSet({d}) /\ Cardinality({d}) = 1
    BY FS_Singleton
  <2> QED
    BY <2>1, <2>2, FS_Subset
<1> QED
  BY <1>1, SoleInvariant, PTL

(* With one worker, deliver and onFailure call an endpoint no more often    *)
(* than webhookMaxAttempts and the faults allow, give a row up no earlier,  *)
(* and count exactly the consecutive failures while nothing was lost.       *)
THEOREM RetriesAddUp == OneWorker => (Spec => []RetriesAccounted)
<1> SUFFICES ASSUME OneWorker PROVE Spec => []RetriesAccounted
  OBVIOUS
<1>1. SoleInv => RetriesAccounted
  <2> SUFFICES ASSUME SoleInv PROVE RetriesAccounted
    OBVIOUS
  <2>n. MaxAttempts \in Nat /\ faults \in Nat
    BY OutboxAssumption DEF SoleInv, TypeOK
  <2>1. ASSUME NEW d \in RowIds PROVE posts[d] <= MaxAttempts + faults
    <3>1. AttemptsOf(d) /\ posts[d] \in Nat /\ delivery[d].attempt \in Nat
      BY DEF SoleInv, AttemptBooks, TypeOK, DeliveryRow
    <3>2. CASE InFlight(d) = 0
      BY <2>n, <3>1, <3>2 DEF AttemptsOf
    <3>3. CASE InFlight(d) = 1
      <4>1. PICK w \in Processes : Flies(w, d)
        BY <3>3 DEF InFlight
      <4>3. worker[w].row.attempt \in Nat
        BY <4>1, HeldRowType DEF SoleInv, Flies, Delivering
      <4>2. delivery[d].status \in {"pending", "failed"}
        BY <4>1, <4>3 DEF SoleInv, RowBooks, Unsettled, InStep, Doubted, Flies
      <4> QED
        BY <2>n, <3>1, <3>3, <4>2 DEF AttemptsOf
    <3> QED
      BY <3>2, <3>3 DEF InFlight
  <2>2. GivenUpOnlyWhenExhausted
    BY DEF GivenUpOnlyWhenExhausted, SoleInv, AttemptBooks, AttemptsOf
  <2>3. ASSUME faults = 0, \A w \in Processes : worker[w].pc \in {"idle", "deliver"}, NEW p \in Endpoints,
               NEW w \in Processes
        PROVE  endpoint[p].failures = streak[p]
    BY <2>3 DEF SoleInv, BreakerBooks, BreakerOf, Accounting
  <2>4. Processes /= {}
    BY DEF OneWorker
  <2> QED
    BY <2>1, <2>2, <2>3, <2>4 DEF RetriesAccounted, AttemptsBounded, BreakerCountsConsecutive
<1> QED
  BY <1>1, SoleInvariant, PTL

(* With one worker, a row that was given up is never written again, and a   *)
(* delivered row only by onFailure, for the attempt whose write of          *)
(* "delivered" was committed and reported as failed: not by a late answer,  *)
(* a retry or a second fan-out.                                             *)
THEOREM SettledStays == OneWorker => (Spec => SettledIsFinal)
<1> SUFFICES ASSUME OneWorker PROVE Spec => SettledIsFinal
  OBVIOUS
<1> DEFINE Overwritten(d) ==
      /\ d \in disputed /\ delivery[d].status = "delivered"
      /\ delivery'[d].status \in {"failed", "dead"} /\ delivery'[d].attempt = delivery[d].attempt
    Stay == \A d \in RowIds : delivery[d].status \in {"delivered", "dead"} =>
              \/ delivery'[d] = delivery[d]
              \/ /\ d \in disputed
                 /\ delivery[d].status = "delivered"
                 /\ delivery'[d].status \in {"failed", "dead"}
                 /\ delivery'[d].attempt = delivery[d].attempt
<1>1. SoleInv /\ [Next]_vars => Stay
  <2> SUFFICES ASSUME SoleInv, [Next]_vars, NEW d \in RowIds, delivery[d].status \in {"delivered", "dead"}
               PROVE  delivery'[d] = delivery[d] \/ Overwritten(d)
    OBVIOUS
  <2>0. TypeOK /\ HeldRows /\ DispatchBooks /\ RowBooks
    BY DEF SoleInv
  <2>1. ASSUME NEW w \in Processes, NEW e \in worker[w].events, FanOut(w, e)
        PROVE  delivery'[d] = delivery[d]
    <3>1. e \in Events
      BY <2>0 DEF TypeOK, WorkerState
    <3> QED
      BY <2>0, <2>1, <3>1, FirstRows
  <2>2. ASSUME NEW w \in Processes, SetDead(w) \/ SetDeferred(w) \/ SetDelivered(w)
        PROVE  delivery'[d] = delivery[d]
    <3>1. worker[w].pc \in Unsettled /\ worker[w].pc /= "fail"
      BY <2>2 DEF SetDead, SetDeferred, SetDelivered, Unsettled
    <3>2. worker[w].row.id /= d
      BY <2>0, <3>1 DEF RowBooks, InStep
    <3> QED
      BY <2>0, <2>2, <3>2, DeliveryWrite
  <2>3. ASSUME NEW w \in Processes, SetFailed(w)
        PROVE  delivery'[d] = delivery[d] \/ Overwritten(d)
    <3>1. worker[w].pc = "fail"
      BY <2>3 DEF SetFailed
    <3>2. CASE worker[w].row.id /= d
      BY <2>0, <2>3, <3>2, DeliveryWrite
    <3>3. CASE worker[w].row.id = d
      <4>1. Doubted(worker[w].row)
        BY <2>0, <3>1, <3>3 DEF RowBooks, InStep, Unsettled
      <4>2. /\ delivery'[d].attempt = worker[w].row.attempt + 1
            /\ delivery'[d].status \in {"failed", "dead"}
        BY <2>0, <2>3, <3>3, DeliveryWrite
      <4> QED
        BY <3>3, <4>1, <4>2 DEF Doubted
    <3> QED
      BY <3>2, <3>3
  <2>4. ASSUME NEW w \in Processes, Write(w) PROVE delivery'[d] = delivery[d] \/ Overwritten(d)
    BY <2>2, <2>3, <2>4 DEF Write, ClearFailures, SetBreaker
  <2> HIDE DEF Overwritten
  <2>5. ASSUME NEW w \in Processes, Move(w) PROVE delivery'[d] = delivery[d] \/ Overwritten(d)
    <3>1. CASE \E e \in Events : FansOut(w, e) \/ FansOutUnheard(w, e)
      BY <2>1, <3>1 DEF FansOut, FansOutUnheard
    <3>2. CASE GivesUp(w) \/ PutsOff(w) \/ Succeeds(w) \/ Counts(w) \/ Clears(w) \/ Trips(w)
      BY <2>4, <3>2
         DEF GivesUp, PutsOff, Succeeds, Counts, Clears, Trips, MarkDead, Defer, WriteDelivered,
             WriteFailed, ResetFailures, WriteBreaker, Write
    <3>3. CASE Doubts(w)
      BY <2>4, <3>3 DEF Doubts
    <3> QED
      BY <2>5, <3>1, <3>2, <3>3
         DEF Move, Collects, Aims, Quits, Swallows, Selects, Turns, Calls, Post, tables
  <2>6. CASE Around
    BY <2>6 DEF Around
  <2> QED
    BY <2>0, <2>5, <2>6, Moves
<1> QED
  BY <1>1, SoleInvariant, PTL DEF Spec, SettledIsFinal

=============================================================================
