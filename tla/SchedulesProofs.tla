-------------------------- MODULE SchedulesProofs --------------------------
(***************************************************************************)
(* Proofs about the scheduler: types, one run per window, windows that     *)
(* fire when their columns say, and briefings without a gap, for any       *)
(* number of processes, schedules, PUTs, approvals, faults and instants;   *)
(* and about the arithmetic it calls, for any zone whose transitions are   *)
(* regular.                                                                *)
(***************************************************************************)
EXTENDS DueTimes, TLAPS

-----------------------------------------------------------------------------
(* What the loops and the PUTs hold between two database calls *)

PutState == [open : BOOLEAN, id : Nat, from : 0..(MaxTime + MaxAhead), body : Bodies]

(* An instant at which a readable window v is due. *)
DueAt(v, t) ==
  /\ v \in Windows \ Unreadable
  /\ t \in Nat \ {0}
  /\ t = NextRun(v, t - 1)

(* A loop about to arm a row holds an instant of the window it read. *)
HeldInstants == \A w \in Processes : worker[w].pc = "armed" => DueAt(worker[w].window, worker[w].next)

(* TypeOK with the range of the clock, the whole of a PUT's record and     *)
(* what an arming loop holds.                                              *)
Shapes ==
  /\ clock \in 1..MaxTime
  /\ row \in [Kinds -> RowState]
  /\ worker \in [Processes -> WorkerState]
  /\ put \in [Clients -> PutState]
  /\ review \in [Approvals -> [status : {"pending", "open", "approved"}, at : Nat]]
  /\ puts \in Nat
  /\ faults \in Nat
  /\ claimed \in [Kinds -> SUBSET Nat]
  /\ repeated \subseteq Kinds
  /\ late \subseteq Kinds
  /\ displaced \subseteq Kinds
  /\ origin \in Nat
  /\ told \subseteq Approvals
  /\ missed \subseteq Approvals

(* What computeNextRun returns for a clock any process can read. *)
LEMMA NextRunIsDue ==
  ASSUME NEW v \in Windows \ Unreadable, NEW t \in 0..(MaxTime + MaxAhead)
  PROVE  DueAt(v, NextRun(v, t)) /\ NextRun(v, t) \in Nat /\ NextRun(v, t) > t
  BY SchedulesAssumption DEF DueAt

(* The clock a process reads is within the bounds, and never behind. *)
LEMMA NowBounded ==
  ASSUME Shapes, NEW w \in Processes
  PROVE  Now(w) \in 0..(MaxTime + MaxAhead) /\ Now(w) >= clock
  <1>1. Ahead[w] \in 0..MaxAhead
    BY SchedulesAssumption
  <1> QED
    BY <1>1, SchedulesAssumption DEF Now, Shapes

LEMMA IdleLoops ==
  /\ AnyWindow \in Windows
  /\ Down \in WorkerState /\ Up \in WorkerState
  /\ Down.pc = "down" /\ Up.pc = "poll"
  /\ NoRow \in RowState
  /\ NoPut \in PutState
  <1>1. AnyWindow \in Windows
    BY SchedulesAssumption DEF AnyWindow
  <1>2. Briefing \in Kinds
    BY SchedulesAssumption
  <1>3. Down \in WorkerState /\ Down.pc = "down"
    BY <1>1, <1>2 DEF Down, WorkerState, Places
  <1>4. Up \in WorkerState /\ Up.pc = "poll"
    BY <1>3 DEF Up, WorkerState, Places
  <1>5. NoRow \in RowState
    BY <1>1 DEF NoRow, RowState
  <1>6. NoPut \in PutState
    <2>1. [k \in {} |-> 0] \in [{} -> Entry]
      OBVIOUS
    <2>2. [k \in {} |-> 0] \in Bodies
      BY <2>1 DEF Bodies
    <2>3. 0 \in 0..(MaxTime + MaxAhead)
      BY SchedulesAssumption
    <2> QED
      BY <2>2, <2>3 DEF NoPut, PutState
  <1> QED
    BY <1>1, <1>3, <1>4, <1>5, <1>6

(* A loop that goes on to its next row or to its next iteration. *)
LEMMA NextLoops ==
  ASSUME Shapes, NEW w \in Processes, NEW todo \in SUBSET Unarmed
  PROVE  /\ ArmNext(w, todo) \in WorkerState
         /\ ArmNext(w, todo).pc \in {"claim", "arm"}
         /\ \A p \in BOOLEAN : /\ NextIteration(w, p) \in WorkerState
                               /\ NextIteration(w, p).pc \in {"down", "poll", "sleep"}
  <1>1. worker[w] \in WorkerState
    BY DEF Shapes
  <1>2. worker[w].running \in BOOLEAN
    BY <1>1 DEF WorkerState
  <1>3. ArmNext(w, todo) \in WorkerState /\ ArmNext(w, todo).pc \in {"claim", "arm"}
    BY <1>2, IdleLoops DEF ArmNext, WorkerState, Places
  <1>4. ASSUME NEW p \in BOOLEAN
        PROVE  NextIteration(w, p) \in WorkerState /\ NextIteration(w, p).pc \in {"down", "poll", "sleep"}
    BY <1>2, IdleLoops DEF NextIteration, WorkerState, Places
  <1> QED
    BY <1>3, <1>4

LEMMA EntryOfBody ==
  ASSUME Shapes, NEW c \in Clients, NEW k \in Kinds, k \in DOMAIN put[c].body
  PROVE  put[c].body[k] \in Entry
  <1>1. put[c].body \in Bodies
    BY DEF Shapes, PutState
  <1>2. PICK S \in SUBSET Kinds : put[c].body \in [S -> Entry]
    BY <1>1 DEF Bodies
  <1> QED
    BY <1>2

-----------------------------------------------------------------------------
(* Types *)

LEMMA ShapesInit == Init => Shapes /\ HeldInstants
  <1> SUFFICES ASSUME Init PROVE Shapes /\ HeldInstants
    OBVIOUS
  <1>1. Seeded \in [Kinds -> RowState] /\ [Seeded EXCEPT ![Briefing].next = 0] \in [Kinds -> RowState]
    <2>1. 1 \in 0..(MaxTime + MaxAhead)
      BY SchedulesAssumption
    <2>2. NextRun(Default, 1) \in Nat /\ Default \in Windows
      BY <2>1, SchedulesAssumption
    <2>3. Seeded \in [Kinds -> RowState]
      BY <2>2, IdleLoops DEF Seeded, RowState
    <2>4. Briefing \in Kinds /\ Seeded[Briefing] \in RowState
      BY <2>3, SchedulesAssumption
    <2>5. [Seeded[Briefing] EXCEPT !.next = 0] \in RowState
      BY <2>4 DEF RowState
    <2> QED
      BY <2>3, <2>4, <2>5
  <1>2. row \in [Kinds -> RowState]
    BY <1>1, IdleLoops DEF Init
  <1>3. worker \in [Processes -> WorkerState] /\ HeldInstants
    BY IdleLoops DEF Init, HeldInstants
  <1>4. put \in [Clients -> PutState]
    BY IdleLoops DEF Init
  <1>5. clock \in 1..MaxTime
    BY SchedulesAssumption DEF Init
  <1>6. review \in [Approvals -> [status : {"pending", "open", "approved"}, at : Nat]]
    BY DEF Init
  <1>7. /\ puts \in Nat /\ faults \in Nat /\ claimed \in [Kinds -> SUBSET Nat]
        /\ repeated \subseteq Kinds /\ late \subseteq Kinds /\ displaced \subseteq Kinds
        /\ origin \in Nat /\ told \subseteq Approvals /\ missed \subseteq Approvals
    BY DEF Init
  <1> QED
    BY <1>2, <1>3, <1>4, <1>5, <1>6, <1>7 DEF Shapes
(* One loop moves on to k. *)
LEMMA LoopMoves ==
  ASSUME Shapes, HeldInstants, NEW w \in Processes, NEW k \in WorkerState,
         k.pc = "armed" => DueAt(k.window, k.next),
         worker' = [worker EXCEPT ![w] = k]
  PROVE  worker' \in [Processes -> WorkerState] /\ HeldInstants'
  <1>1. worker' \in [Processes -> WorkerState]
    BY DEF Shapes
  <1>2. \A v \in Processes : worker'[v] = IF v = w THEN k ELSE worker[v]
    BY DEF Shapes
  <1>3. ASSUME NEW v \in Processes, worker'[v].pc = "armed"
        PROVE  DueAt(worker'[v].window, worker'[v].next)
    BY <1>2, <1>3 DEF HeldInstants
  <1> QED
    BY <1>1, <1>3 DEF HeldInstants

(* Steps of the surroundings that write no schedule. *)
LEMMA SurroundingTypes ==
  ASSUME Shapes, HeldInstants,
         \/ Tick
         \/ \E a \in Approvals : BeginApproval(a) \/ CommitApproval(a)
         \/ \E c \in Clients, w \in Processes, body \in Bodies : BeginPut(c, w, body)
  PROVE  Shapes' /\ HeldInstants'
  <1>1. CASE Tick
    <2>1. clock' \in 1..MaxTime
      BY <1>1, SchedulesAssumption DEF Tick, Shapes
    <2> QED
      BY <1>1, <2>1 DEF Tick, Shapes, HeldInstants, history
  <1>2. ASSUME NEW a \in Approvals, BeginApproval(a) PROVE Shapes' /\ HeldInstants'
    <2>1. clock \in Nat
      BY SchedulesAssumption DEF Shapes
    <2>2. [status |-> "open", at |-> clock] \in [status : {"pending", "open", "approved"}, at : Nat]
      BY <2>1
    <2> QED
      BY <1>2, <2>2 DEF BeginApproval, Shapes, HeldInstants, history
  <1>3. ASSUME NEW a \in Approvals, CommitApproval(a) PROVE Shapes' /\ HeldInstants'
    <2>1. review[a] \in [status : {"pending", "open", "approved"}, at : Nat]
      BY DEF Shapes
    <2>2. [review[a] EXCEPT !.status = "approved"] \in [status : {"pending", "open", "approved"}, at : Nat]
      BY <2>1
    <2>3. review' = [review EXCEPT ![a] = [review[a] EXCEPT !.status = "approved"]]
      BY <1>3 DEF CommitApproval
    <2> QED
      BY <1>3, <2>2, <2>3 DEF CommitApproval, Shapes, HeldInstants, history
  <1>4. ASSUME NEW c \in Clients, NEW w \in Processes, NEW body \in Bodies, BeginPut(c, w, body)
        PROVE  Shapes' /\ HeldInstants'
    <2>1. Now(w) \in 0..(MaxTime + MaxAhead)
      BY NowBounded
    <2>2. puts' \in Nat /\ 1 + puts' \in Nat
      BY <1>4 DEF BeginPut, Shapes
    <2>3. [open |-> TRUE, id |-> 1 + puts', from |-> Now(w), body |-> body] \in PutState
      BY <2>1, <2>2 DEF PutState
    <2> QED
      BY <1>4, <2>2, <2>3 DEF BeginPut, Shapes, HeldInstants, history
  <1> QED
    BY <1>1, <1>2, <1>3, <1>4

(* The row an upsert leaves. *)
LEMMA UpsertedTypes ==
  ASSUME Shapes, NEW c \in Clients, NEW k \in Kinds, k \in DOMAIN put[c].body
  PROVE  LET u == Upserted(k, put[c].id, put[c].body[k], put[c].from)
         IN /\ u \in RowState
            /\ u.last = row[k].last
            /\ u.next /= 0 => DueAt(u.window, u.next)
  <1> DEFINE entry == put[c].body[k]
             u == Upserted(k, put[c].id, entry, put[c].from)
  <1>1. entry \in Entry
    BY EntryOfBody
  <1>2. entry.window \in Windows \ Unreadable /\ entry.enabled \in BOOLEAN
    BY <1>1 DEF Entry
  <1>3. put[c].id \in Nat /\ put[c].from \in 0..(MaxTime + MaxAhead)
    BY DEF Shapes, PutState
  <1>4. NextRun(entry.window, put[c].from) \in Nat /\ DueAt(entry.window, NextRun(entry.window, put[c].from))
    BY <1>2, <1>3, NextRunIsDue
  <1>5. row[k].id \in Nat /\ row[k].last \in Nat
    BY DEF Shapes, RowState
  <1> HIDE DEF entry
  <1>6. u \in RowState
    BY <1>2, <1>3, <1>4, <1>5 DEF Upserted, RowState
  <1>7. u.last = row[k].last
    BY DEF Upserted
  <1>8. u.next /= 0 => DueAt(u.window, u.next)
    BY <1>4 DEF Upserted
  <1> QED
    BY <1>6, <1>7, <1>8 DEF entry

LEMMA CommitPutTypes ==
  ASSUME Shapes, HeldInstants, NEW c \in Clients, CommitPut(c)
  PROVE  Shapes' /\ HeldInstants'
  <1>1. row' \in [Kinds -> RowState]
    BY UpsertedTypes, IdleLoops DEF CommitPut
  <1>2. put' \in [Clients -> PutState]
    BY IdleLoops DEF CommitPut, Shapes
  <1>3. DOMAIN put[c].body \subseteq Kinds
    <2>1. put[c].body \in Bodies
      BY DEF Shapes, PutState
    <2>2. PICK S \in SUBSET Kinds : put[c].body \in [S -> Entry]
      BY <2>1 DEF Bodies
    <2> QED
      BY <2>2
  <1>4. late' \subseteq Kinds /\ origin' \in Nat
    BY <1>3 DEF CommitPut, Shapes
  <1> QED
    BY <1>1, <1>2, <1>4 DEF CommitPut, Shapes, HeldInstants

LEMMA LoseZoneTypes ==
  ASSUME Shapes, HeldInstants, NEW k \in Kinds, NEW v \in Windows, LoseZone(k, v)
  PROVE  Shapes' /\ HeldInstants'
  <1>1. [row[k] EXCEPT !.window = v] \in RowState
    BY DEF Shapes, RowState
  <1>2. row' = [row EXCEPT ![k] = [row[k] EXCEPT !.window = v]]
    BY DEF LoseZone
  <1> QED
    BY <1>1, <1>2 DEF LoseZone, Shapes, HeldInstants, history

(* Steps of a loop that write nothing but the loop's own record. *)
LoopOnly(w) ==
  \/ Start(w)
  \/ Stop(w)
  \/ Wake(w)
  \/ ReadUnarmed(w)
  \/ \E u \in worker[w].todo : ComputeArm(w, u)
  \/ NothingDue(w)
  \/ ArmFails(w)
  \/ IterationFails(w)

(* Such a step leaves the loop at some k, off a job unless it was on one. *)
LEMMA LoopOnlyMoves ==
  ASSUME Shapes, HeldInstants, NEW w \in Processes, LoopOnly(w)
  PROVE  /\ UNCHANGED <<clock, row, put, review, puts, history>>
         /\ faults' \in Nat
         /\ \E k \in WorkerState :
              /\ worker' = [worker EXCEPT ![w] = k]
              /\ k.pc = "armed" => DueAt(k.window, k.next)
              /\ \/ worker[w].pc \notin {"collect", "record"}
                 \/ k = [worker[w] EXCEPT !.running = FALSE]
  <1> DEFINE Goal == /\ UNCHANGED <<clock, row, put, review, puts, history>>
                     /\ faults' \in Nat
                     /\ \E k \in WorkerState :
                          /\ worker' = [worker EXCEPT ![w] = k]
                          /\ k.pc = "armed" => DueAt(k.window, k.next)
                          /\ \/ worker[w].pc \notin {"collect", "record"}
                             \/ k = [worker[w] EXCEPT !.running = FALSE]
  <1>0. worker[w] \in WorkerState /\ worker[w].todo \in SUBSET Unarmed
    BY DEF Shapes, WorkerState
  <1>1. CASE Start(w)
    BY <1>1, IdleLoops DEF Start, Shapes
  <1>2. CASE Stop(w)
    <2> DEFINE k == [worker[w] EXCEPT !.running = FALSE]
    <2>1. k \in WorkerState /\ k.pc = worker[w].pc /\ k.window = worker[w].window /\ k.next = worker[w].next
      BY <1>0 DEF WorkerState
    <2>2. worker' = [worker EXCEPT ![w] = k]
      BY <1>2 DEF Stop
    <2>3. k.pc = "armed" => DueAt(k.window, k.next)
      BY <2>1 DEF HeldInstants
    <2>4. UNCHANGED <<clock, row, put, review, puts, history>> /\ faults' \in Nat
      BY <1>2 DEF Stop, Shapes
    <2> QED
      BY <2>1, <2>2, <2>3, <2>4
  <1>3. CASE Wake(w)
    <2> DEFINE k == IF worker[w].running THEN Up ELSE Down
    <2>1. k \in WorkerState /\ k.pc \in {"poll", "down"}
      BY IdleLoops
    <2>2. worker' = [worker EXCEPT ![w] = k]
      BY <1>3 DEF Wake
    <2> QED
      BY <1>3, <2>1, <2>2 DEF Wake, Shapes
  <1>4. CASE ReadUnarmed(w)
    <2> DEFINE unarmed == {k \in Kinds : Exists(k) /\ row[k].enabled /\ row[k].next = 0}
               todo == {[kind |-> k, id |-> row[k].id, window |-> row[k].window] : k \in unarmed}
    <2>1. todo \in SUBSET Unarmed
      BY DEF Shapes, RowState, Unarmed
    <2>2. ArmNext(w, todo) \in WorkerState /\ ArmNext(w, todo).pc \in {"claim", "arm"}
      BY <2>1, NextLoops
    <2>3. worker' = [worker EXCEPT ![w] = ArmNext(w, todo)]
      BY <1>4 DEF ReadUnarmed
    <2>4. worker[w].pc \notin {"collect", "record"}
      BY <1>4 DEF ReadUnarmed
    <2>5. UNCHANGED <<clock, row, put, review, puts, history>> /\ faults' \in Nat
      BY <1>4 DEF ReadUnarmed, Shapes
    <2> HIDE DEF todo
    <2> QED
      BY <2>2, <2>3, <2>4, <2>5
  <1>5. ASSUME NEW u \in worker[w].todo, ComputeArm(w, u)
        PROVE  Goal
    <2>1. u \in Unarmed
      BY <1>0
    <2>2. u.kind \in Kinds /\ u.id \in Nat /\ u.window \in Windows
      BY <2>1 DEF Unarmed
    <2>3. worker[w].pc \notin {"collect", "record"}
      BY <1>5 DEF ComputeArm
    <2>4. UNCHANGED <<clock, row, put, review, puts, history>> /\ faults' \in Nat
      BY <1>5 DEF ComputeArm, Shapes
    <2>5. CASE u.window \in Unreadable
      <3> DEFINE k == ArmNext(w, worker[w].todo \ {u})
      <3>1. worker[w].todo \ {u} \in SUBSET Unarmed
        BY <1>0
      <3>2. k \in WorkerState /\ k.pc \in {"claim", "arm"}
        BY <3>1, NextLoops
      <3>3. worker' = [worker EXCEPT ![w] = k]
        BY <1>5, <2>5 DEF ComputeArm
      <3> HIDE DEF k
      <3> QED
        BY <2>3, <2>4, <3>2, <3>3
    <2>6. CASE u.window \notin Unreadable
      <3> DEFINE n == NextRun(u.window, Now(w))
                 k == [worker[w] EXCEPT !.pc = "armed", !.todo = @ \ {u}, !.kind = u.kind, !.id = u.id,
                                        !.window = u.window, !.next = n]
      <3>1. n \in Nat /\ DueAt(u.window, n)
        BY <2>2, <2>6, NowBounded, NextRunIsDue
      <3>2. worker' = [worker EXCEPT ![w] = k]
        BY <1>5, <2>6 DEF ComputeArm
      <3> HIDE DEF n
      <3>3. k \in WorkerState
        BY <1>0, <2>2, <3>1 DEF WorkerState, Places
      <3>4. k.window = u.window /\ k.next = n
        BY <1>0 DEF WorkerState
      <3> HIDE DEF k
      <3> QED
        BY <2>3, <2>4, <3>1, <3>2, <3>3, <3>4
    <2> QED
      BY <2>5, <2>6
  <1>6. CASE NothingDue(w)
    <2>1. NextIteration(w, FALSE) \in WorkerState /\ NextIteration(w, FALSE).pc \in {"down", "poll", "sleep"}
      BY NextLoops, <1>0
    <2> QED
      BY <1>6, <2>1 DEF NothingDue, Shapes
  <1>7. CASE ArmFails(w)
    <2>1. ArmNext(w, worker[w].todo) \in WorkerState /\ ArmNext(w, worker[w].todo).pc \in {"claim", "arm"}
      BY NextLoops, <1>0
    <2>2. UNCHANGED <<clock, row, put, review, puts, history>> /\ faults' \in Nat
      BY <1>7 DEF ArmFails, Shapes
    <2>3. worker' = [worker EXCEPT ![w] = ArmNext(w, worker[w].todo)] /\ worker[w].pc \notin {"collect", "record"}
      BY <1>7 DEF ArmFails
    <2> QED
      BY <2>1, <2>2, <2>3
  <1>8. CASE IterationFails(w)
    <2>1. NextIteration(w, FALSE) \in WorkerState /\ NextIteration(w, FALSE).pc \in {"down", "poll", "sleep"}
      BY NextLoops, <1>0
    <2>2. UNCHANGED <<clock, row, put, review, puts, history>> /\ faults' \in Nat
      BY <1>8 DEF IterationFails, Shapes
    <2>3. worker' = [worker EXCEPT ![w] = NextIteration(w, FALSE)] /\ worker[w].pc \notin {"collect", "record"}
      BY <1>8 DEF IterationFails
    <2> QED
      BY <2>1, <2>2, <2>3
  <1> QED
    BY <1>1, <1>2, <1>3, <1>4, <1>5, <1>6, <1>7, <1>8 DEF LoopOnly

LEMMA LoopOnlyTypes ==
  ASSUME Shapes, HeldInstants, NEW w \in Processes, LoopOnly(w)
  PROVE  Shapes' /\ HeldInstants'
  <1>1. PICK k \in WorkerState : /\ worker' = [worker EXCEPT ![w] = k]
                                 /\ k.pc = "armed" => DueAt(k.window, k.next)
    BY LoopOnlyMoves
  <1>2. worker' \in [Processes -> WorkerState] /\ HeldInstants'
    BY <1>1, LoopMoves
  <1>3. UNCHANGED <<clock, row, put, review, puts, history>> /\ faults' \in Nat
    BY LoopOnlyMoves
  <1> QED
    BY <1>2, <1>3 DEF Shapes, history

(* WriteArm: the update hits the row with the id that was read, or none. *)
LEMMA WriteArmTypes ==
  ASSUME Shapes, HeldInstants, NEW w \in Processes, WriteArm(w)
  PROVE  Shapes' /\ HeldInstants'
  <1> DEFINE k == worker[w].kind
             r == [row[k] EXCEPT !.next = worker[w].next]
  <1>0. worker[w] \in WorkerState
    BY DEF Shapes
  <1>1. k \in Kinds /\ worker[w].next \in Nat /\ worker[w].todo \in SUBSET Unarmed
    BY <1>0 DEF WorkerState
  <1>r. row[k] \in RowState
    BY <1>1 DEF Shapes
  <1>2. r \in RowState
    BY <1>1, <1>r DEF RowState
  <1>3. row' = [row EXCEPT ![k] = r] \/ row' = row
    BY DEF WriteArm
  <1> HIDE DEF r
  <1>4. row' \in [Kinds -> RowState]
    BY <1>1, <1>2, <1>3 DEF Shapes
  <1>5. late' \subseteq Kinds /\ displaced' \subseteq Kinds
    BY <1>1 DEF WriteArm, Shapes
  <1>6. ArmNext(w, worker[w].todo) \in WorkerState /\ ArmNext(w, worker[w].todo).pc \in {"claim", "arm"}
    BY <1>1, NextLoops
  <1>7. worker' = [worker EXCEPT ![w] = ArmNext(w, worker[w].todo)]
    BY DEF WriteArm
  <1>8. worker' \in [Processes -> WorkerState] /\ HeldInstants'
    BY <1>6, <1>7, LoopMoves
  <1> QED
    BY <1>4, <1>5, <1>8 DEF WriteArm, Shapes

LEMMA ParkTypes ==
  ASSUME Shapes, HeldInstants, NEW w \in Processes, NEW k \in Kinds, Park(w, k)
  PROVE  Shapes' /\ HeldInstants'
  <1> DEFINE r == [row[k] EXCEPT !.next = clock + Day]
  <1>1. clock + Day \in Nat
    BY SchedulesAssumption DEF Shapes
  <1>2. r \in RowState
    BY <1>1 DEF Shapes, RowState
  <1>3. row' = [row EXCEPT ![k] = r]
    BY DEF Park
  <1>4. row' \in [Kinds -> RowState]
    BY <1>2, <1>3 DEF Shapes
  <1>5. NextIteration(w, FALSE) \in WorkerState /\ NextIteration(w, FALSE).pc \in {"down", "poll", "sleep"}
    BY NextLoops
  <1>6. worker' = [worker EXCEPT ![w] = NextIteration(w, FALSE)]
    BY DEF Park
  <1>7. worker' \in [Processes -> WorkerState] /\ HeldInstants'
    BY <1>5, <1>6, LoopMoves
  <1> QED
    BY <1>4, <1>7 DEF Park, Shapes, history

(* A claim: the row as it leaves it, and the loop with the briefing's      *)
(* window.                                                                 *)
ClaimedRow(w, k) == [row[k] EXCEPT !.last = clock, !.next = Advanced(w, k)]
ClaimedLoop(w, k) == [worker[w] EXCEPT !.pc = "collect", !.kind = k, !.since = Since(w, k), !.at = clock]

LEMMA ClaimShapes ==
  ASSUME Shapes, NEW w \in Processes, NEW k \in Kinds, ClaimDue(w, k)
  PROVE  /\ row' = [row EXCEPT ![k] = ClaimedRow(w, k)]
         /\ ClaimedRow(w, k) \in RowState
         /\ ClaimedRow(w, k).last = clock
         /\ ClaimedRow(w, k).window = row[k].window
         /\ ClaimedRow(w, k).next = Advanced(w, k)
         /\ Advanced(w, k) > clock
         /\ DueAt(row[k].window, Advanced(w, k))
         /\ worker' = [worker EXCEPT ![w] = ClaimedLoop(w, k)]
         /\ ClaimedLoop(w, k) \in WorkerState
         /\ ClaimedLoop(w, k).pc = "collect"
         /\ ClaimedLoop(w, k).kind = k
         /\ ClaimedLoop(w, k).since = Since(w, k)
         /\ ClaimedLoop(w, k).at = clock
         /\ Since(w, k) \in Nat
  <1>1. row[k] \in RowState /\ worker[w] \in WorkerState
    BY DEF Shapes
  <1>2. Now(w) \in 0..(MaxTime + MaxAhead) /\ Now(w) >= clock /\ clock \in Nat
    BY NowBounded, SchedulesAssumption DEF Shapes
  <1>3. row[k].window \in Windows /\ row[k].window \notin Unreadable /\ row[k].last \in Nat
    BY <1>1 DEF ClaimDue, RowState
  <1>4. /\ Advanced(w, k) \in Nat
        /\ Advanced(w, k) > clock
        /\ DueAt(row[k].window, Advanced(w, k))
    <2>1. /\ DueAt(row[k].window, NextRun(row[k].window, Now(w)))
          /\ NextRun(row[k].window, Now(w)) \in Nat
          /\ NextRun(row[k].window, Now(w)) > Now(w)
      BY <1>2, <1>3, NextRunIsDue
    <2>2. Now(w) \in Nat
      BY <1>2, SchedulesAssumption
    <2> QED
      BY <1>2, <2>1, <2>2 DEF Advanced
  <1>5. Since(w, k) \in Nat
    <2>1. Period(row[k].window) \in Nat /\ Now(w) \in Nat
      BY <1>2, <1>3, SchedulesAssumption
    <2> QED
      BY <1>3, <2>1 DEF Since
  <1>6. row' = [row EXCEPT ![k] = ClaimedRow(w, k)]
    BY DEF ClaimDue, ClaimedRow
  <1>7. worker' = [worker EXCEPT ![w] = ClaimedLoop(w, k)]
    BY DEF ClaimDue, ClaimedLoop
  <1>8. /\ ClaimedRow(w, k) \in RowState
        /\ ClaimedRow(w, k).last = clock
        /\ ClaimedRow(w, k).window = row[k].window
        /\ ClaimedRow(w, k).next = Advanced(w, k)
    BY <1>1, <1>2, <1>4 DEF ClaimedRow, RowState
  <1>9. /\ ClaimedLoop(w, k) \in WorkerState
        /\ ClaimedLoop(w, k).pc = "collect"
        /\ ClaimedLoop(w, k).kind = k
        /\ ClaimedLoop(w, k).since = Since(w, k)
        /\ ClaimedLoop(w, k).at = clock
    BY <1>1, <1>2, <1>5 DEF ClaimedLoop, WorkerState, Places
  <1> QED
    BY <1>4, <1>5, <1>6, <1>7, <1>8, <1>9

LEMMA ClaimDueTypes ==
  ASSUME Shapes, HeldInstants, NEW w \in Processes, NEW k \in Kinds, ClaimDue(w, k)
  PROVE  Shapes' /\ HeldInstants'
  <1>1. row' \in [Kinds -> RowState]
    BY ClaimShapes DEF Shapes
  <1>2. worker' \in [Processes -> WorkerState] /\ HeldInstants'
    BY ClaimShapes, LoopMoves
  <1>3. row[k].next \in Nat
    BY DEF Shapes, RowState
  <1>4. claimed' \in [Kinds -> SUBSET Nat] /\ repeated' \subseteq Kinds
    BY <1>3 DEF ClaimDue, Shapes
  <1>5. origin' \in Nat
    <2>1. Since(w, k) \in Nat
      BY ClaimShapes
    <2>2. origin' = origin \/ origin' = Since(w, k) + 1
      BY DEF ClaimDue
    <2> QED
      BY <2>1, <2>2 DEF Shapes
  <1> QED
    BY <1>1, <1>2, <1>4, <1>5 DEF ClaimDue, Shapes

(* The steps of a job: its facts are read, it is written, or it is lost. *)
JobStep(w) == Collect(w) \/ Record(w) \/ JobFails(w) \/ Crash(w)

LEMMA JobTypes ==
  ASSUME Shapes, HeldInstants, NEW w \in Processes, JobStep(w)
  PROVE  Shapes' /\ HeldInstants'
  <1>0. worker[w] \in WorkerState
    BY DEF Shapes
  <1>a. NextIteration(w, TRUE) \in WorkerState /\ NextIteration(w, TRUE).pc \in {"down", "poll", "sleep"}
    BY NextLoops
  <1>b. Forgone(w) \subseteq Approvals
    BY DEF Forgone, Within
  <1>1. CASE Collect(w)
    <2> DEFINE k == [worker[w] EXCEPT !.pc = "record", !.facts = Visible(worker[w].since)]
    <2>1. Visible(worker[w].since) \subseteq Approvals
      BY DEF Visible
    <2>2. k \in WorkerState /\ k.pc = "record"
      BY <1>0, <2>1 DEF WorkerState, Places
    <2>3. worker' = [worker EXCEPT ![w] = k]
      BY <1>1 DEF Collect
    <2> HIDE DEF k
    <2>4. worker' \in [Processes -> WorkerState] /\ HeldInstants'
      BY <2>2, <2>3, LoopMoves
    <2>5. missed' \subseteq Approvals
      BY <1>1 DEF Collect, Shapes, Within
    <2> QED
      BY <1>1, <2>4, <2>5 DEF Collect, Shapes
  <1>2. CASE Record(w)
    <2>1. worker' = [worker EXCEPT ![w] = NextIteration(w, TRUE)]
      BY <1>2 DEF Record
    <2>2. worker' \in [Processes -> WorkerState] /\ HeldInstants'
      BY <1>a, <2>1, LoopMoves
    <2>3. told' \subseteq Approvals
      BY <1>0, <1>2 DEF Record, Shapes, WorkerState
    <2> QED
      BY <1>2, <2>2, <2>3 DEF Record, Shapes
  <1>3. CASE JobFails(w)
    <2>1. worker' = [worker EXCEPT ![w] = NextIteration(w, TRUE)]
      BY <1>3 DEF JobFails
    <2>2. worker' \in [Processes -> WorkerState] /\ HeldInstants'
      BY <1>a, <2>1, LoopMoves
    <2>3. missed' \subseteq Approvals /\ faults' \in Nat
      BY <1>b, <1>3 DEF JobFails, Shapes
    <2> QED
      BY <1>3, <2>2, <2>3 DEF JobFails, Shapes
  <1>4. CASE Crash(w)
    <2>1. worker' = [worker EXCEPT ![w] = Down]
      BY <1>4 DEF Crash
    <2>2. worker' \in [Processes -> WorkerState] /\ HeldInstants'
      BY <2>1, IdleLoops, LoopMoves
    <2>3. missed' \subseteq Approvals /\ faults' \in Nat
      BY <1>b, <1>4 DEF Crash, Shapes
    <2> QED
      BY <1>4, <2>2, <2>3 DEF Crash, Shapes
  <1> QED
    BY <1>1, <1>2, <1>3, <1>4 DEF JobStep

(* Every step, sorted by what it writes. *)
LEMMA StepsSorted ==
  ASSUME Next
  PROVE  \/ Tick
         \/ \E a \in Approvals : BeginApproval(a) \/ CommitApproval(a)
         \/ \E c \in Clients, w \in Processes, body \in Bodies : BeginPut(c, w, body)
         \/ \E c \in Clients : CommitPut(c)
         \/ \E k \in Kinds, v \in Windows : LoseZone(k, v)
         \/ \E w \in Processes : LoopOnly(w) \/ WriteArm(w) \/ JobStep(w)
         \/ \E w \in Processes, k \in Kinds : Park(w, k) \/ ClaimDue(w, k)
  BY DEF Next, Poll, Fault, LoopOnly, JobStep

LEMMA ShapesStep ==
  Shapes /\ HeldInstants /\ [Next]_vars => Shapes' /\ HeldInstants'
  <1> SUFFICES ASSUME Shapes, HeldInstants, [Next]_vars PROVE Shapes' /\ HeldInstants'
    OBVIOUS
  <1>1. CASE UNCHANGED vars
    BY <1>1 DEF vars, Shapes, HeldInstants
  <1>2. CASE Next
    BY <1>2, StepsSorted, SurroundingTypes, CommitPutTypes, LoseZoneTypes, LoopOnlyTypes,
       WriteArmTypes, JobTypes, ParkTypes, ClaimDueTypes
  <1> QED
    BY <1>1, <1>2

LEMMA ShapesAlways == Spec => [](Shapes /\ HeldInstants)
  BY ShapesInit, ShapesStep, PTL DEF Spec

LEMMA ShapesImplyTypes == Shapes => TypeOK
  <1> SUFFICES ASSUME Shapes PROVE TypeOK
    OBVIOUS
  <1>1. clock \in Nat \ {0}
    BY SchedulesAssumption DEF Shapes
  <1>2. ASSUME NEW c \in Clients
        PROVE  /\ put[c].open \in BOOLEAN
               /\ put[c].id \in Nat
               /\ put[c].from \in Nat
               /\ DOMAIN put[c].body \subseteq Kinds
               /\ \A k \in DOMAIN put[c].body : put[c].body[k] \in Entry
    <2>1. put[c] \in PutState
      BY DEF Shapes
    <2>2. PICK S \in SUBSET Kinds : put[c].body \in [S -> Entry]
      BY <2>1 DEF PutState, Bodies
    <2> QED
      BY <2>1, <2>2, SchedulesAssumption DEF PutState
  <1> QED
    BY <1>1, <1>2 DEF Shapes, TypeOK

-----------------------------------------------------------------------------
(* Windows: run once, at the time the columns say *)

(* Neither promise is inductive.  A row that would repeat a window holds   *)
(* an instant already claimed, which only an instant in the past can be;   *)
(* a row that will fire at the wrong time was armed with the wrong one.    *)
ClaimsPast == \A k \in Kinds : claimed[k] \subseteq 1..clock
NextIsFresh == \A k \in Kinds \ late : row[k].next \notin claimed[k]
InstantsDue ==
  \A k \in Kinds \ displaced :
    (row[k].next /= 0 /\ row[k].window \notin Unreadable) => DueAt(row[k].window, row[k].next)

WindowInv == ClaimsPast /\ NextIsFresh /\ InstantsDue /\ OncePerWindow

(* What a step may do to the row of kind k: leave its instant, arm it with *)
(* an instant ahead (or note that it was late), or claim it and move on.   *)
LeftAlone(k) ==
  /\ row'[k].next = row[k].next
  /\ row'[k].window \in {row[k].window} \cup Unreadable
  /\ claimed'[k] = claimed[k]
  /\ k \in repeated' => k \in repeated

ArmedAnew(k) ==
  /\ \/ row'[k].next = 0
     \/ row'[k].next > clock
     \/ k \in late'
  /\ \/ row'[k].next = 0
     \/ row'[k].window \in Unreadable
     \/ DueAt(row'[k].window, row'[k].next)
     \/ k \in displaced'
  /\ claimed'[k] = claimed[k]
  /\ k \in repeated' => k \in repeated

Taken(k) ==
  /\ row[k].next \in 1..clock
  /\ row'[k].next > clock
  /\ DueAt(row'[k].window, row'[k].next)
  /\ claimed'[k] = claimed[k] \cup {row[k].next}
  /\ k \in repeated' => (k \in repeated \/ row[k].next \in claimed[k])

WindowStep ==
  /\ clock <= clock'
  /\ late \subseteq late'
  /\ displaced \subseteq displaced'
  /\ \A k \in Kinds : LeftAlone(k) \/ ArmedAnew(k) \/ Taken(k)

(* A step that writes no row and claims nothing. *)
LEMMA RowsUntouched ==
  ASSUME Shapes, UNCHANGED <<row, claimed, repeated, late, displaced>>, clock <= clock'
  PROVE  WindowStep
  BY DEF WindowStep, LeftAlone

LEMMA CommitPutWindows ==
  ASSUME Shapes, NEW c \in Clients, CommitPut(c)
  PROVE  WindowStep
  <1>1. ASSUME NEW k \in Kinds PROVE ArmedAnew(k)
    <2>1. claimed'[k] = claimed[k] /\ (k \in repeated' => k \in repeated)
      BY DEF CommitPut
    <2>2. CASE k \notin DOMAIN put[c].body
      <3>1. row'[k] = NoRow
        BY <2>2 DEF CommitPut
      <3> QED
        BY <2>1, <3>1 DEF NoRow, ArmedAnew
    <2>3. CASE k \in DOMAIN put[c].body
      <3> DEFINE u == Upserted(k, put[c].id, put[c].body[k], put[c].from)
      <3>1. row'[k] = u /\ (Past(u.next) => k \in late')
        BY <2>3 DEF CommitPut
      <3>2. u \in RowState /\ (u.next /= 0 => DueAt(u.window, u.next))
        BY <2>3, UpsertedTypes
      <3> HIDE DEF u
      <3>3. u.next \in Nat
        BY <3>2 DEF RowState
      <3>4. clock \in Nat
        BY SchedulesAssumption DEF Shapes
      <3>5. u.next = 0 \/ u.next > clock \/ k \in late'
        BY <3>1, <3>3, <3>4 DEF Past
      <3> QED
        BY <2>1, <3>1, <3>2, <3>5 DEF ArmedAnew
    <2> QED
      BY <2>2, <2>3
  <1>2. clock <= clock' /\ late \subseteq late' /\ displaced \subseteq displaced'
    BY SchedulesAssumption DEF CommitPut, Shapes
  <1> QED
    BY <1>1, <1>2 DEF WindowStep

LEMMA LoseZoneWindows ==
  ASSUME Shapes, NEW j \in Kinds, NEW v \in Windows, LoseZone(j, v)
  PROVE  WindowStep
  <1>1. ASSUME NEW k \in Kinds PROVE LeftAlone(k)
    BY DEF LoseZone, LeftAlone, Shapes, RowState, history
  <1>2. clock <= clock' /\ late \subseteq late' /\ displaced \subseteq displaced'
    BY SchedulesAssumption DEF LoseZone, Shapes, history
  <1> QED
    BY <1>1, <1>2 DEF WindowStep

LEMMA WriteArmWindows ==
  ASSUME Shapes, HeldInstants, NEW w \in Processes, WriteArm(w)
  PROVE  WindowStep
  <1> DEFINE j == worker[w].kind
             hit == row[j].id = worker[w].id
  <1>0. worker[w] \in WorkerState
    BY DEF Shapes
  <1>1. j \in Kinds /\ worker[w].next \in Nat
    BY <1>0 DEF WorkerState
  <1>2. DueAt(worker[w].window, worker[w].next)
    BY DEF WriteArm, HeldInstants
  <1>3. clock \in Nat /\ clock <= clock' /\ late \subseteq late' /\ displaced \subseteq displaced'
    BY SchedulesAssumption DEF WriteArm, Shapes
  <1>4. ASSUME NEW k \in Kinds, ~(k = j /\ hit) PROVE LeftAlone(k)
    BY <1>1, <1>4 DEF WriteArm, LeftAlone, Shapes
  <1>5. ASSUME hit PROVE ArmedAnew(j)
    <2>1. row' = [row EXCEPT ![j].next = worker[w].next]
      BY <1>5 DEF WriteArm
    <2>2. row'[j].next = worker[w].next /\ row'[j].window = row[j].window
      BY <1>1, <2>1 DEF Shapes, RowState
    <2>3. worker[w].next > clock \/ worker[w].next = 0 \/ j \in late'
      <3>1. Past(worker[w].next) => j \in late'
        BY <1>5 DEF WriteArm
      <3> QED
        BY <1>1, <1>3, <3>1 DEF Past
    <2>4. row[j].window = worker[w].window \/ j \in displaced'
      BY <1>5 DEF WriteArm
    <2>5. claimed'[j] = claimed[j] /\ (j \in repeated' => j \in repeated)
      BY DEF WriteArm
    <2> HIDE DEF j
    <2> QED
      BY <1>2, <2>2, <2>3, <2>4, <2>5 DEF ArmedAnew
  <1> QED
    BY <1>3, <1>4, <1>5 DEF WindowStep

LEMMA ParkWindows ==
  ASSUME Shapes, NEW w \in Processes, NEW j \in Kinds, Park(w, j)
  PROVE  WindowStep
  <1>1. clock \in Nat /\ clock + Day > clock /\ clock <= clock' /\ late \subseteq late' /\ displaced \subseteq displaced'
    BY SchedulesAssumption DEF Park, Shapes, history
  <1>2. ASSUME NEW k \in Kinds, k /= j PROVE LeftAlone(k)
    BY <1>2 DEF Park, LeftAlone, Shapes, history
  <1>3. row'[j].next = clock + Day /\ row'[j].window = row[j].window /\ row[j].window \in Unreadable
    BY DEF Park, Shapes, RowState
  <1>4. ArmedAnew(j)
    BY <1>1, <1>3 DEF ArmedAnew, Park, history
  <1> QED
    BY <1>1, <1>2, <1>4 DEF WindowStep

LEMMA ClaimDueWindows ==
  ASSUME Shapes, NEW w \in Processes, NEW j \in Kinds, ClaimDue(w, j)
  PROVE  WindowStep
  <1>1. clock <= clock' /\ late \subseteq late' /\ displaced \subseteq displaced'
    BY SchedulesAssumption DEF ClaimDue, Shapes
  <1>2. ASSUME NEW k \in Kinds, k /= j PROVE LeftAlone(k)
    <2>1. row'[k] = row[k]
      BY <1>2, ClaimShapes DEF Shapes
    <2>2. claimed'[k] = claimed[k] /\ (k \in repeated' => k \in repeated)
      BY <1>2 DEF ClaimDue, Shapes
    <2> QED
      BY <2>1, <2>2 DEF LeftAlone
  <1>3. Taken(j)
    <2>1. row'[j] = ClaimedRow(w, j)
      BY ClaimShapes DEF Shapes
    <2>2. row'[j].next > clock /\ DueAt(row'[j].window, row'[j].next)
      BY <2>1, ClaimShapes
    <2>3. row[j].next \in 1..clock
      <3>1. row[j].next \in Nat /\ clock \in Nat
        BY SchedulesAssumption DEF Shapes, RowState
      <3> QED
        BY <3>1 DEF ClaimDue, Oldest, Due
    <2>4. claimed'[j] = claimed[j] \cup {row[j].next}
      BY DEF ClaimDue, Shapes
    <2>5. j \in repeated' => (j \in repeated \/ row[j].next \in claimed[j])
      BY DEF ClaimDue
    <2> QED
      BY <2>2, <2>3, <2>4, <2>5 DEF Taken
  <1> QED
    BY <1>1, <1>2, <1>3 DEF WindowStep

LEMMA EveryStepWindows ==
  ASSUME Shapes, HeldInstants, Next
  PROVE  WindowStep
  <1>1. CASE Tick
    <2>1. clock <= clock'
      BY <1>1, SchedulesAssumption DEF Tick, Shapes
    <2> QED
      BY <1>1, <2>1, RowsUntouched DEF Tick, history
  <1>a. clock <= clock
    BY SchedulesAssumption DEF Shapes
  <1>2. ASSUME NEW a \in Approvals, BeginApproval(a) \/ CommitApproval(a) PROVE WindowStep
    BY <1>a, <1>2, RowsUntouched DEF BeginApproval, CommitApproval, history
  <1>3. ASSUME NEW c \in Clients, NEW w \in Processes, NEW body \in Bodies, BeginPut(c, w, body) PROVE WindowStep
    BY <1>a, <1>3, RowsUntouched DEF BeginPut, history
  <1>4. ASSUME NEW w \in Processes, LoopOnly(w) PROVE WindowStep
    <2>1. UNCHANGED <<clock, row, put, review, puts, history>>
      BY <1>4, LoopOnlyMoves
    <2> QED
      BY <1>a, <2>1, RowsUntouched DEF history
  <1>5. ASSUME NEW w \in Processes, JobStep(w) PROVE WindowStep
    BY <1>a, <1>5, RowsUntouched DEF JobStep, Collect, Record, JobFails, Crash
  <1> QED
    BY <1>1, <1>2, <1>3, <1>4, <1>5, StepsSorted, CommitPutWindows, LoseZoneWindows, WriteArmWindows,
       ParkWindows, ClaimDueWindows

LEMMA WindowInvInit == Init => WindowInv
  <1> SUFFICES ASSUME Init PROVE WindowInv
    OBVIOUS
  <1>1. ClaimsPast /\ NextIsFresh /\ OncePerWindow
    BY DEF Init, ClaimsPast, NextIsFresh, OncePerWindow
  <1>2. ASSUME NEW k \in Kinds, row[k].next /= 0
        PROVE  DueAt(row[k].window, row[k].next)
    <2>1. 1 \in 0..(MaxTime + MaxAhead) /\ Default \in Windows \ Unreadable /\ Briefing \in Kinds
      BY SchedulesAssumption
    <2>2. DueAt(Default, NextRun(Default, 1))
      BY <2>1, NextRunIsDue
    <2>3. NoRow.next = 0
      BY DEF NoRow
    <2>4. CASE row = [j \in Kinds |-> NoRow]
      BY <1>2, <2>3, <2>4
    <2>5. CASE row = Seeded
      <3>1. row[k] = IF k = Briefing
                     THEN [id |-> 1, window |-> Default, enabled |-> TRUE, last |-> 0, next |-> NextRun(Default, 1)]
                     ELSE NoRow
        BY <2>5 DEF Seeded
      <3>2. k = Briefing
        BY <1>2, <2>3, <3>1
      <3>3. row[k].window = Default /\ row[k].next = NextRun(Default, 1)
        BY <3>1, <3>2
      <3> QED
        BY <2>2, <3>3
    <2>6. CASE row = [Seeded EXCEPT ![Briefing].next = 0]
      <3>1. row[k].next = 0
        BY <2>1, <2>3, <2>6 DEF Seeded
      <3> QED
        BY <1>2, <3>1
    <2> QED
      BY <2>4, <2>5, <2>6 DEF Init
  <1> QED
    BY <1>1, <1>2 DEF WindowInv, InstantsDue

LEMMA WindowInvStep ==
  ASSUME Shapes, Shapes', WindowInv, WindowStep
  PROVE  WindowInv'
  <1>0. clock \in Nat /\ clock' \in Nat /\ clock <= clock'
    BY SchedulesAssumption DEF Shapes, WindowStep
  <1>1. ASSUME NEW k \in Kinds
        PROVE  /\ claimed'[k] \subseteq 1..clock'
               /\ k \notin late' => row'[k].next \notin claimed'[k]
               /\ (k \notin displaced' /\ row'[k].next /= 0 /\ row'[k].window \notin Unreadable)
                    => DueAt(row'[k].window, row'[k].next)
               /\ k \in repeated' => k \in late'
    <2>0. /\ claimed[k] \subseteq 1..clock
          /\ k \notin late => row[k].next \notin claimed[k]
          /\ (k \notin displaced /\ row[k].next /= 0 /\ row[k].window \notin Unreadable)
               => DueAt(row[k].window, row[k].next)
          /\ k \in repeated => k \in late
      BY DEF WindowInv, ClaimsPast, NextIsFresh, InstantsDue, OncePerWindow
    <2>a. (k \in late => k \in late') /\ (k \in displaced => k \in displaced')
      BY DEF WindowStep
    <2>b. row'[k].next \in Nat
      BY DEF Shapes, RowState
    <2>c. claimed[k] \subseteq 1..clock'
      BY <1>0, <2>0
    <2>1. CASE LeftAlone(k)
      BY <2>0, <2>a, <2>c, <2>1 DEF LeftAlone
    <2>2. CASE ArmedAnew(k)
      <3>1. k \notin late' => row'[k].next \notin claimed'[k]
        BY <1>0, <2>0, <2>b, <2>2 DEF ArmedAnew
      <3> QED
        BY <2>0, <2>a, <2>c, <2>2, <3>1 DEF ArmedAnew
    <2>3. CASE Taken(k)
      <3>1. row'[k].next \notin claimed'[k] /\ claimed'[k] \subseteq 1..clock'
        BY <1>0, <2>0, <2>b, <2>c, <2>3 DEF Taken
      <3>2. k \in repeated' => k \in late'
        BY <2>0, <2>a, <2>3 DEF Taken
      <3> QED
        BY <2>3, <3>1, <3>2 DEF Taken
    <2> QED
      BY <2>1, <2>2, <2>3 DEF WindowStep
  <1>2. repeated' \subseteq Kinds
    BY DEF Shapes
  <1> QED
    BY <1>1, <1>2 DEF WindowInv, ClaimsPast, NextIsFresh, InstantsDue, OncePerWindow

LEMMA WindowInvNext ==
  Shapes /\ HeldInstants /\ WindowInv /\ [Next]_vars => WindowInv'
  <1> SUFFICES ASSUME Shapes, HeldInstants, WindowInv, [Next]_vars PROVE WindowInv'
    OBVIOUS
  <1>1. CASE UNCHANGED vars
    BY <1>1 DEF vars, WindowInv, ClaimsPast, NextIsFresh, InstantsDue, OncePerWindow
  <1>2. CASE Next
    BY <1>2, ShapesStep, EveryStepWindows, WindowInvStep
  <1> QED
    BY <1>1, <1>2

LEMMA WindowInvSuffices == Shapes /\ WindowInv => ScheduleInv
  <1> SUFFICES ASSUME Shapes, WindowInv PROVE ScheduleInv
    OBVIOUS
  <1>1. FiresAtItsTime
    BY DEF WindowInv, InstantsDue, DueAt, FiresAtItsTime
  <1> QED
    BY <1>1, ShapesImplyTypes DEF WindowInv, ScheduleInv

(* However many processes poll, arm and claim one schedule beside however  *)
(* many PUTs, stops and crashes: a window is claimed twice only for a kind *)
(* that was armed late, and an armed row fires at the wall-clock time its  *)
(* columns say unless it was armed from columns since replaced             *)
(* (claimDue, armUnscheduled, replaceSchedules).                           *)
THEOREM WindowsHold == Spec => []ScheduleInv
  <1>1. Spec => [](Shapes /\ HeldInstants)
    BY ShapesAlways
  <1>2. Spec => []WindowInv
    BY <1>1, WindowInvInit, WindowInvNext, PTL DEF Spec
  <1> QED
    BY <1>1, <1>2, WindowInvSuffices, PTL

-----------------------------------------------------------------------------
(* Briefings leave no gap *)

(* A loop with the record r will yet name a in its briefing, or has a      *)
(* among the facts it read.                                                *)
Owes(r, a) ==
  /\ r.kind = Briefing
  /\ review[a].at > r.since
  /\ review[a].at <= r.at
  /\ r.pc = "collect" \/ (r.pc = "record" /\ a \in r.facts)

Accounted(a) == a \in told \cup missed \/ \E w \in Processes : Owes(worker[w], a)

(* The first briefing of a row opens the period its briefings cover.  The  *)
(* second part is asked of approvals that are not visible yet, too: they   *)
(* will be when nothing can be done about them any more.                   *)
FirstOpens == origin = 0 <=> row[Briefing].last = 0
StampedAccounted ==
  \A a \in Approvals :
    (/\ review[a].status /= "pending"
     /\ origin \in 1..review[a].at
     /\ review[a].at <= row[Briefing].last)
      => Accounted(a)

ReportInv == FirstOpens /\ StampedAccounted

(* What a step may do: approvals are stamped after the last claim, and a   *)
(* loop that owes an approval keeps owing it, tells it or misses it.       *)
ReviewsMove ==
  \A a \in Approvals :
    review'[a].status /= "pending" =>
      \/ review[a].status /= "pending" /\ review'[a].at = review[a].at
      \/ review'[a].at > row'[Briefing].last

DebtsKept ==
  /\ told \subseteq told'
  /\ missed \subseteq missed'
  /\ \A a \in Approvals, w \in Processes :
       (review[a].status /= "pending" /\ Owes(worker[w], a)) =>
         Owes(worker[w], a)' \/ a \in told' \cup missed'

PeriodKept == row'[Briefing].last = row[Briefing].last /\ origin' = origin
PeriodEnds == row'[Briefing].last = 0 /\ origin' = 0

(* A briefing is claimed: its window starts where the last one ended, or   *)
(* opens the period.                                                       *)
PeriodGrows ==
  \E w \in Processes :
    /\ row'[Briefing].last = clock
    /\ review' = review
    /\ worker'[w].pc = "collect"
    /\ worker'[w].kind = Briefing
    /\ worker'[w].since \in Nat
    /\ worker'[w].at = clock
    /\ IF origin = 0 THEN origin' = worker'[w].since + 1
       ELSE origin' = origin /\ (row[Briefing].last /= 0 => worker'[w].since = row[Briefing].last)

ReportStep ==
  /\ ReviewsMove
  /\ DebtsKept
  /\ PeriodKept \/ PeriodEnds \/ PeriodGrows

LEMMA ReviewsStill ==
  ASSUME review' = review
  PROVE  ReviewsMove
  BY DEF ReviewsMove

(* One loop moves on to k while no approval is stamped or committed. *)
LEMMA DebtsOfOneLoop ==
  ASSUME Shapes, NEW w \in Processes, NEW k, worker' = [worker EXCEPT ![w] = k], review' = review,
         told \subseteq told', missed \subseteq missed',
         \A a \in Approvals : (review[a].status /= "pending" /\ Owes(worker[w], a)) =>
                                Owes(k, a) \/ a \in told' \cup missed'
  PROVE  DebtsKept
  <1>1. ASSUME NEW a \in Approvals, NEW v \in Processes, review[a].status /= "pending", Owes(worker[v], a)
        PROVE  Owes(worker[v], a)' \/ a \in told' \cup missed'
    <2>1. worker'[v] = IF v = w THEN k ELSE worker[v]
      BY DEF Shapes
    <2>2. CASE v = w
      <3>1. Owes(k, a) \/ a \in told' \cup missed'
        BY <1>1, <2>2
      <3> QED
        BY <2>1, <2>2, <3>1 DEF Owes
    <2>3. CASE v /= w
      BY <1>1, <2>1, <2>3 DEF Owes
    <2> QED
      BY <2>2, <2>3
  <1> QED
    BY <1>1 DEF DebtsKept

(* A loop that is not at a job owes nothing. *)
LEMMA IdleOwesNothing ==
  ASSUME NEW r, r.pc \notin {"collect", "record"}, NEW a
  PROVE  ~Owes(r, a)
  BY DEF Owes

LEMMA SurroundingReports ==
  ASSUME Shapes,
         \/ Tick
         \/ \E a \in Approvals : BeginApproval(a) \/ CommitApproval(a)
         \/ \E c \in Clients, w \in Processes, body \in Bodies : BeginPut(c, w, body)
  PROVE  ReportStep
  <1>1. CASE Tick
    BY <1>1 DEF Tick, history, ReportStep, ReviewsMove, DebtsKept, PeriodKept, Owes
  <1>2. ASSUME NEW b \in Approvals, BeginApproval(b) PROVE ReportStep
    <2>1. \A a \in Approvals : a /= b => review'[a] = review[a]
      BY <1>2 DEF BeginApproval, Shapes
    <2>2. review'[b].at = clock /\ clock > row'[Briefing].last
      BY <1>2 DEF BeginApproval, Shapes
    <2>3. UNCHANGED <<row, worker, origin, told, missed>> /\ review[b].status = "pending"
      BY <1>2 DEF BeginApproval, history
    <2>4. ReviewsMove
      BY <2>1, <2>2 DEF ReviewsMove
    <2>5. DebtsKept
      BY <2>1, <2>3 DEF DebtsKept, Owes
    <2> QED
      BY <2>3, <2>4, <2>5 DEF ReportStep, PeriodKept
  <1>3. ASSUME NEW b \in Approvals, CommitApproval(b) PROVE ReportStep
    <2>1. \A a \in Approvals : review'[a].at = review[a].at /\ (review[a].status = "pending" => review'[a].status = "pending")
      BY <1>3 DEF CommitApproval, Shapes
    <2>2. UNCHANGED <<row, worker, origin, told, missed>>
      BY <1>3 DEF CommitApproval, history
    <2>3. ReviewsMove
      BY <2>1 DEF ReviewsMove
    <2>4. DebtsKept
      BY <2>1, <2>2 DEF DebtsKept, Owes
    <2> QED
      BY <2>2, <2>3, <2>4 DEF ReportStep, PeriodKept
  <1>4. ASSUME NEW c \in Clients, NEW w \in Processes, NEW body \in Bodies, BeginPut(c, w, body) PROVE ReportStep
    BY <1>4 DEF BeginPut, history, ReportStep, ReviewsMove, DebtsKept, PeriodKept, Owes
  <1> QED
    BY <1>1, <1>2, <1>3, <1>4

LEMMA CommitPutReports ==
  ASSUME Shapes, NEW c \in Clients, CommitPut(c)
  PROVE  ReportStep
  <1>0. Briefing \in Kinds
    BY SchedulesAssumption
  <1>1. UNCHANGED <<worker, review, told, missed>>
    BY DEF CommitPut
  <1>2. ReviewsMove /\ DebtsKept
    BY <1>1 DEF ReviewsMove, DebtsKept, Owes
  <1>3. CASE Briefing \in DOMAIN put[c].body
    <2> DEFINE u == Upserted(Briefing, put[c].id, put[c].body[Briefing], put[c].from)
    <2>1. row'[Briefing] = u /\ origin' = origin
      BY <1>0, <1>3 DEF CommitPut
    <2>2. u.last = row[Briefing].last
      BY DEF Upserted
    <2> QED
      BY <1>2, <2>1, <2>2 DEF ReportStep, PeriodKept
  <1>4. CASE Briefing \notin DOMAIN put[c].body
    <2>1. row'[Briefing] = NoRow /\ origin' = 0
      BY <1>0, <1>4 DEF CommitPut
    <2> QED
      BY <1>2, <2>1 DEF ReportStep, PeriodEnds, NoRow
  <1> QED
    BY <1>3, <1>4

LEMMA LoseZoneReports ==
  ASSUME Shapes, NEW k \in Kinds, NEW v \in Windows, LoseZone(k, v)
  PROVE  ReportStep
  <1>1. row'[Briefing].last = row[Briefing].last
    BY SchedulesAssumption DEF LoseZone, Shapes, RowState
  <1>2. UNCHANGED <<worker, review, origin, told, missed>>
    BY DEF LoseZone, history
  <1> QED
    BY <1>1, <1>2 DEF ReportStep, ReviewsMove, DebtsKept, PeriodKept, Owes

LEMMA LoopOnlyReports ==
  ASSUME Shapes, HeldInstants, NEW w \in Processes, LoopOnly(w)
  PROVE  ReportStep
  <1>1. UNCHANGED <<row, review, origin, told, missed>>
    BY LoopOnlyMoves DEF history
  <1>2. PICK k \in WorkerState :
              /\ worker' = [worker EXCEPT ![w] = k]
              /\ \/ worker[w].pc \notin {"collect", "record"}
                 \/ k = [worker[w] EXCEPT !.running = FALSE]
    BY LoopOnlyMoves
  <1>3. ASSUME NEW a \in Approvals, Owes(worker[w], a) PROVE Owes(k, a)
    <2>1. k = [worker[w] EXCEPT !.running = FALSE]
      BY <1>2, <1>3, IdleOwesNothing
    <2>2. worker[w] \in WorkerState
      BY DEF Shapes
    <2>3. k.pc = worker[w].pc /\ k.kind = worker[w].kind /\ k.since = worker[w].since /\ k.at = worker[w].at /\ k.facts = worker[w].facts
      BY <2>1, <2>2 DEF WorkerState
    <2> QED
      BY <1>3, <2>3 DEF Owes
  <1>4. DebtsKept
    BY <1>1, <1>2, <1>3, DebtsOfOneLoop
  <1> QED
    BY <1>1, <1>4, ReviewsStill DEF ReportStep, PeriodKept

LEMMA WriteArmReports ==
  ASSUME Shapes, NEW w \in Processes, WriteArm(w)
  PROVE  ReportStep
  <1>1. row'[Briefing].last = row[Briefing].last
    BY SchedulesAssumption DEF WriteArm, Shapes, RowState
  <1>2. UNCHANGED <<review, origin, told, missed>>
    BY DEF WriteArm
  <1>3. worker' = [worker EXCEPT ![w] = ArmNext(w, worker[w].todo)]
    BY DEF WriteArm
  <1>4. \A a \in Approvals : ~Owes(worker[w], a)
    BY IdleOwesNothing DEF WriteArm
  <1>5. DebtsKept
    BY <1>2, <1>3, <1>4, DebtsOfOneLoop
  <1> QED
    BY <1>1, <1>2, <1>5, ReviewsStill DEF ReportStep, PeriodKept

LEMMA ParkReports ==
  ASSUME Shapes, NEW w \in Processes, NEW k \in Kinds, Park(w, k)
  PROVE  ReportStep
  <1>1. row'[Briefing].last = row[Briefing].last
    BY SchedulesAssumption DEF Park, Shapes, RowState
  <1>2. UNCHANGED <<review, origin, told, missed>>
    BY DEF Park, history
  <1>3. worker' = [worker EXCEPT ![w] = NextIteration(w, FALSE)]
    BY DEF Park
  <1>4. \A a \in Approvals : ~Owes(worker[w], a)
    BY IdleOwesNothing DEF Park
  <1>5. DebtsKept
    BY <1>2, <1>3, <1>4, DebtsOfOneLoop
  <1> QED
    BY <1>1, <1>2, <1>5, ReviewsStill DEF ReportStep, PeriodKept

LEMMA ClaimDueReports ==
  ASSUME Shapes, NEW w \in Processes, NEW k \in Kinds, ClaimDue(w, k)
  PROVE  ReportStep
  <1>1. UNCHANGED <<review, told, missed>> /\ worker[w].pc = "claim"
    BY DEF ClaimDue
  <1>2. worker' = [worker EXCEPT ![w] = ClaimedLoop(w, k)] /\ row' = [row EXCEPT ![k] = ClaimedRow(w, k)]
    BY ClaimShapes
  <1>3. \A a \in Approvals : ~Owes(worker[w], a)
    BY <1>1, IdleOwesNothing
  <1>4. DebtsKept
    BY <1>1, <1>2, <1>3, DebtsOfOneLoop
  <1>5. CASE k /= Briefing
    <2>1. row'[Briefing] = row[Briefing] /\ origin' = origin
      BY <1>2, <1>5, SchedulesAssumption DEF ClaimDue, Shapes
    <2> QED
      BY <1>1, <1>4, <2>1, ReviewsStill DEF ReportStep, PeriodKept
  <1>6. CASE k = Briefing
    <2>1. row'[Briefing] = ClaimedRow(w, k) /\ worker'[w] = ClaimedLoop(w, k)
      BY <1>2, <1>6 DEF Shapes
    <2>2. /\ row'[Briefing].last = clock
          /\ worker'[w].pc = "collect"
          /\ worker'[w].kind = Briefing
          /\ worker'[w].since = Since(w, k)
          /\ worker'[w].at = clock
          /\ Since(w, k) \in Nat
      BY <1>6, <2>1, ClaimShapes
    <2>3. origin' = IF origin = 0 THEN Since(w, k) + 1 ELSE origin
      BY <1>6 DEF ClaimDue
    <2>4. row[Briefing].last /= 0 => Since(w, k) = row[Briefing].last
      BY <1>6 DEF Since
    <2>5. PeriodGrows
      BY <1>1, <2>2, <2>3, <2>4 DEF PeriodGrows
    <2> QED
      BY <1>1, <1>4, <2>5, ReviewsStill DEF ReportStep
  <1> QED
    BY <1>5, <1>6

LEMMA JobReports ==
  ASSUME Shapes, NEW w \in Processes, JobStep(w)
  PROVE  ReportStep
  <1>0. worker[w] \in WorkerState
    BY DEF Shapes
  <1>a. UNCHANGED <<row, review, origin>> /\ told \subseteq told' /\ missed \subseteq missed'
    BY DEF JobStep, Collect, Record, JobFails, Crash
  <1>b. SUFFICES DebtsKept
    BY <1>a, ReviewsStill DEF ReportStep, PeriodKept
  <1>1. CASE Collect(w)
    <2> DEFINE k == [worker[w] EXCEPT !.pc = "record", !.facts = Visible(worker[w].since)]
    <2>1. /\ k.pc = "record" /\ k.facts = Visible(worker[w].since) /\ k.kind = worker[w].kind
          /\ k.since = worker[w].since /\ k.at = worker[w].at
      BY <1>0 DEF WorkerState
    <2>2. worker' = [worker EXCEPT ![w] = k]
      BY <1>1 DEF Collect
    <2> HIDE DEF k
    <2>3. ASSUME NEW a \in Approvals, review[a].status /= "pending", Owes(worker[w], a)
          PROVE  Owes(k, a) \/ a \in told' \cup missed'
      <3>1. review[a].status \in {"open", "approved"}
        BY <2>3 DEF Shapes
      <3>2. CASE review[a].status = "approved"
        <4>1. a \in Visible(worker[w].since)
          BY <2>3, <3>2 DEF Owes, Visible
        <4> QED
          BY <2>1, <2>3, <4>1 DEF Owes
      <3>3. CASE review[a].status = "open"
        BY <1>1, <2>3, <3>3 DEF Owes, Within, Collect
      <3> QED
        BY <3>1, <3>2, <3>3
    <2> QED
      BY <1>a, <2>2, <2>3, DebtsOfOneLoop
  <1>2. CASE Record(w)
    <2>1. worker' = [worker EXCEPT ![w] = NextIteration(w, TRUE)]
      BY <1>2 DEF Record
    <2>2. ASSUME NEW a \in Approvals, Owes(worker[w], a) PROVE a \in told'
      BY <1>2, <2>2 DEF Owes, Record
    <2> QED
      BY <1>a, <2>1, <2>2, DebtsOfOneLoop
  <1>3. \A a \in Approvals : Owes(worker[w], a) => a \in Forgone(w)
    BY DEF Owes, Forgone, Within
  <1>4. CASE JobFails(w)
    <2>1. worker' = [worker EXCEPT ![w] = NextIteration(w, TRUE)] /\ Forgone(w) \subseteq missed'
      BY <1>4 DEF JobFails
    <2> QED
      BY <1>a, <1>3, <2>1, DebtsOfOneLoop
  <1>5. CASE Crash(w)
    <2>1. worker' = [worker EXCEPT ![w] = Down] /\ Forgone(w) \subseteq missed'
      BY <1>5 DEF Crash
    <2> QED
      BY <1>a, <1>3, <2>1, DebtsOfOneLoop
  <1> QED
    BY <1>1, <1>2, <1>4, <1>5 DEF JobStep

LEMMA EveryStepReports ==
  ASSUME Shapes, HeldInstants, Next
  PROVE  ReportStep
  BY StepsSorted, SurroundingReports, CommitPutReports, LoseZoneReports, LoopOnlyReports, WriteArmReports,
     ParkReports, ClaimDueReports, JobReports

LEMMA AccountedStays ==
  ASSUME Shapes, DebtsKept, NEW a \in Approvals, review[a].status /= "pending", Accounted(a)
  PROVE  Accounted(a)'
  <1>1. CASE a \in told \cup missed
    BY <1>1 DEF DebtsKept, Accounted
  <1>2. ASSUME NEW w \in Processes, Owes(worker[w], a) PROVE Accounted(a)'
    BY <1>2 DEF DebtsKept, Accounted
  <1> QED
    BY <1>1, <1>2 DEF Accounted

LEMMA ReportInvStep ==
  ASSUME Shapes, Shapes', ReportInv, ReportStep
  PROVE  ReportInv'
  <1>0. /\ clock \in Nat \ {0} /\ origin \in Nat /\ origin' \in Nat
        /\ row[Briefing].last \in Nat /\ row'[Briefing].last \in Nat
        /\ \A a \in Approvals : review[a].at \in Nat /\ review'[a].at \in Nat
    BY SchedulesAssumption DEF Shapes, RowState
  <1>1. FirstOpens'
    BY <1>0 DEF ReportInv, FirstOpens, ReportStep, PeriodKept, PeriodEnds, PeriodGrows
  <1>2. ASSUME NEW a \in Approvals,
               review'[a].status /= "pending",
               origin' \in 1..review'[a].at,
               review'[a].at <= row'[Briefing].last
        PROVE  Accounted(a)'
    <2>1. review[a].status /= "pending" /\ review'[a].at = review[a].at
      BY <1>0, <1>2 DEF ReportStep, ReviewsMove
    <2>2. (origin \in 1..review[a].at /\ review[a].at <= row[Briefing].last) => Accounted(a)'
      BY <2>1, AccountedStays DEF ReportInv, StampedAccounted, ReportStep
    <2>3. CASE PeriodKept
      BY <1>2, <2>1, <2>2, <2>3 DEF PeriodKept
    <2>4. CASE PeriodEnds
      BY <1>2, <2>4 DEF PeriodEnds
    <2>5. CASE PeriodGrows
      <3>1. PICK w \in Processes :
              /\ row'[Briefing].last = clock
              /\ worker'[w].pc = "collect"
              /\ worker'[w].kind = Briefing
              /\ worker'[w].since \in Nat
              /\ worker'[w].at = clock
              /\ IF origin = 0 THEN origin' = worker'[w].since + 1
                 ELSE origin' = origin /\ (row[Briefing].last /= 0 => worker'[w].since = row[Briefing].last)
        BY <2>5 DEF PeriodGrows
      <3>2. CASE review'[a].at > worker'[w].since
        <4>1. Owes(worker[w], a)'
          BY <1>2, <3>1, <3>2 DEF Owes
        <4> QED
          BY <4>1 DEF Accounted
      <3>3. CASE review'[a].at <= worker'[w].since
        <4>1. origin /= 0
          BY <1>0, <1>2, <3>1, <3>3
        <4>2. row[Briefing].last /= 0
          BY <4>1 DEF ReportInv, FirstOpens
        <4>3. worker'[w].since = row[Briefing].last /\ origin' = origin
          BY <3>1, <4>1, <4>2
        <4> QED
          BY <1>2, <2>1, <2>2, <3>3, <4>3
      <3> QED
        BY <1>0, <3>1, <3>2, <3>3
    <2> QED
      BY <2>3, <2>4, <2>5 DEF ReportStep
  <1> QED
    BY <1>1, <1>2 DEF ReportInv, StampedAccounted

LEMMA ReportInvInit == Init => ReportInv
  <1> SUFFICES ASSUME Init PROVE ReportInv
    OBVIOUS
  <1>0. Briefing \in Kinds
    BY SchedulesAssumption
  <1>1. row[Briefing].last = 0
    BY <1>0 DEF Init, Seeded, NoRow
  <1> QED
    BY <1>1 DEF Init, ReportInv, FirstOpens, StampedAccounted

LEMMA ReportInvNext ==
  Shapes /\ HeldInstants /\ ReportInv /\ [Next]_vars => ReportInv'
  <1> SUFFICES ASSUME Shapes, HeldInstants, ReportInv, [Next]_vars PROVE ReportInv'
    OBVIOUS
  <1>1. CASE UNCHANGED vars
    BY <1>1 DEF vars, ReportInv, FirstOpens, StampedAccounted, Accounted, Owes
  <1>2. CASE Next
    BY <1>2, ShapesStep, EveryStepReports, ReportInvStep
  <1> QED
    BY <1>1, <1>2

LEMMA ReportInvSuffices == ReportInv => EveryApprovalReported
  <1> SUFFICES ASSUME ReportInv,
                      NEW a \in Approvals,
                      review[a].status = "approved",
                      origin \in 1..review[a].at,
                      review[a].at <= row[Briefing].last
               PROVE  a \in told \cup missed \/ \E w \in Processes : Reporting(w, a)
    BY DEF EveryApprovalReported
  <1>1. Accounted(a)
    BY DEF ReportInv, StampedAccounted
  <1> QED
    BY <1>1 DEF Accounted, Owes, Reporting, Within

(* The briefings of a schedule leave no gap, whichever processes claim     *)
(* them, whatever PUTs, crashes and late commits come between: what was    *)
(* approved since the first one's start and before the last claim is       *)
(* named, about to be named, or was missed by a briefing that was lost or  *)
(* read too early (claimDue, collectBriefingFacts).                        *)
THEOREM NoGapInBriefings == Spec => []EveryApprovalReported
  <1>1. Spec => [](Shapes /\ HeldInstants)
    BY ShapesAlways
  <1>2. Spec => []ReportInv
    BY <1>1, ReportInvInit, ReportInvNext, PTL DEF Spec
  <1> QED
    BY <1>2, ReportInvSuffices, PTL

-----------------------------------------------------------------------------
(* The arithmetic of computeNextRun *)

(* A quotient is the number of whole days that fit.                        *)
LEMMA Quotient ==
  ASSUME NEW x \in Int, NEW q \in Int, NEW n \in Nat \ {0}, q * n <= x, x < q * n + n
  PROVE  x \div n = q /\ x % n = x - q * n
<1> DEFINE d == x \div n
           r == x % n
<1>1. d \in Int /\ r \in 0..(n - 1) /\ x = n * d + r
  OBVIOUS
<1> HIDE DEF d, r
<1>2. n * d - q * n < n /\ q * n - n * d < n
  BY <1>1
<1>3. ~(d >= q + 1)
  <2> SUFFICES ASSUME d >= q + 1 PROVE FALSE
    OBVIOUS
  <2>1. n * (d - q) >= n
    BY <1>1
  <2>2. n * (d - q) = n * d - q * n
    BY <1>1
  <2> QED BY <1>1, <1>2, <2>1, <2>2
<1>4. ~(q >= d + 1)
  <2> SUFFICES ASSUME q >= d + 1 PROVE FALSE
    OBVIOUS
  <2>1. n * (q - d) >= n
    BY <1>1
  <2>2. n * (q - d) = q * n - n * d
    BY <1>1
  <2> QED BY <1>1, <1>2, <2>1, <2>2
<1>5. d = q
  BY <1>1, <1>3, <1>4
<1>6. r = x - q * n
  BY <1>1, <1>5
<1> QED BY <1>5, <1>6 DEF d, r

(* What lies between two times of one date is of that date. *)
LEMMA BetweenSameDay ==
  ASSUME NEW x \in Int, NEW y \in Int, NEW w \in Int, NEW n \in Nat \ {0},
         x <= y, y <= w, x \div n = w \div n
  PROVE  y \div n = x \div n
<1> DEFINE q == x \div n
<1>1. q \in Int /\ q * n <= x
  OBVIOUS
<1>2. w < q * n + n
  <2>1. (w \div n) \in Int /\ w < (w \div n) * n + n
    OBVIOUS
  <2> QED BY <2>1
<1> HIDE DEF q
<1>3. q * n <= y /\ y < q * n + n
  BY <1>1, <1>2
<1> QED BY <1>1, <1>3, Quotient DEF q

(* Among any WeekLen days in a row is the first one of a weekday.          *)
LEMMA WeekdayAhead ==
  ASSUME NEW today \in Int, NEW wd \in 0..(WeekLen - 1)
  PROVE  \E r \in (today + 1)..(today + WeekLen) :
           /\ Weekday(r) = wd
           /\ \A e \in (today + 1)..(today + WeekLen) : Weekday(e) = wd => e = r
<1> DEFINE W == WeekLen
           m == (wd - (today + 1)) % W
           q == (wd - (today + 1)) \div W
           r == today + 1 + m
<1>0. W \in Nat \ {0}
  BY WallClockAssumption
<1> HIDE DEF W
<1>1. m \in 0..(W - 1) /\ q \in Int /\ wd - (today + 1) = W * q + m
  BY <1>0
<1> HIDE DEF m, q
<1>2. r \in (today + 1)..(today + W) /\ r = wd - W * q
  BY <1>0, <1>1
<1>3. wd \in 0..(W - 1)
  BY DEF W
<1>4. Weekday(r) = wd
  <2>1. (-q) * W = - (W * q)
    BY <1>0, <1>1
  <2>2. (-q) * W <= r /\ r < (-q) * W + W /\ r - (-q) * W = wd
    BY <1>0, <1>1, <1>2, <1>3, <2>1
  <2>3. r \in Int /\ -q \in Int
    BY <1>0, <1>1, <1>2
  <2> HIDE DEF r
  <2>4. r % W = r - (-q) * W
    BY <1>0, <2>2, <2>3, Quotient
  <2>5. r % W = wd
    BY <2>2, <2>4
  <2> QED BY <2>5 DEF Weekday, W
<1>5. ASSUME NEW e \in (today + 1)..(today + W), Weekday(e) = wd PROVE e = r
  <2> DEFINE k == e \div W
  <2>1. k \in Int /\ e = W * k + wd
    BY <1>0, <1>5 DEF Weekday, W
  <2> HIDE DEF k
  <2>2. e - r = W * k + W * q
    BY <1>0, <1>1, <1>2, <1>3, <2>1
  <2>3. W * k + W * q = W * (k + q)
    BY <1>0, <1>1, <2>1
  <2>4. -W < e - r /\ e - r < W
    BY <1>0, <1>2
  <2>5. k + q = 0
    <3>1. ~(k + q >= 1)
      <4> SUFFICES ASSUME k + q >= 1 PROVE FALSE
        OBVIOUS
      <4>1. W * (k + q) >= W
        BY <1>0, <1>1, <2>1
      <4> QED BY <1>0, <1>1, <1>2, <2>1, <2>2, <2>3, <2>4, <4>1
    <3>2. ~(k + q <= -1)
      <4> SUFFICES ASSUME k + q <= -1 PROVE FALSE
        OBVIOUS
      <4>1. W * (k + q) <= -W
        BY <1>0, <1>1, <2>1
      <4> QED BY <1>0, <1>1, <1>2, <2>1, <2>2, <2>3, <2>4, <4>1
    <3> QED BY <1>1, <2>1, <3>1, <3>2
  <2>6. W * (k + q) = 0
    BY <1>0, <2>5
  <2> QED BY <1>2, <2>2, <2>3, <2>6
<1> QED BY <1>2, <1>4, <1>5 DEF W

-----------------------------------------------------------------------------
(* The two candidates of a wall clock: the offset before and the one after *)
(* the only transition near it.                                            *)
NearTransition(z, naive, before, after, change) ==
  /\ before = Offset(z, naive - DayLen)
  /\ after = Offset(z, naive + DayLen)
  /\ before \in (1 - DayLen)..(DayLen - 1)
  /\ after \in (1 - DayLen)..(DayLen - 1)
  /\ change \in (naive - DayLen)..(naive + DayLen)
  /\ \A u \in (naive - DayLen)..(naive + DayLen) : Offset(z, u) = IF u < change THEN before ELSE after

LEMMA TransitionNear ==
  ASSUME NEW z, Regular(z, Int), NEW naive \in Int
  PROVE  \E before, after, change \in Int : NearTransition(z, naive, before, after, change)
<1>1. DayLen \in Nat \ {0}
  BY WallClockAssumption
<1>2. PICK change \in (naive - DayLen)..(naive + DayLen) :
        \A u \in (naive - DayLen)..(naive + DayLen) :
          Offset(z, u) = IF u < change THEN Offset(z, naive - DayLen) ELSE Offset(z, naive + DayLen)
  BY DEF Regular
<1>3. naive - DayLen \in Int /\ naive + DayLen \in Int /\ change \in Int
  BY <1>1
<1>4. /\ Offset(z, naive - DayLen) \in (1 - DayLen)..(DayLen - 1)
      /\ Offset(z, naive + DayLen) \in (1 - DayLen)..(DayLen - 1)
  BY <1>3 DEF Regular
<1>5. NearTransition(z, naive, Offset(z, naive - DayLen), Offset(z, naive + DayLen), change)
  BY <1>2, <1>4 DEF NearTransition
<1> QED BY <1>1, <1>3, <1>4, <1>5

(* Whatever shows a wall clock is one of its two candidates.               *)
LEMMA ShownByCandidate ==
  ASSUME NEW z, Regular(z, Int), NEW naive \in Int,
         NEW before \in Int, NEW after \in Int, NEW change \in Int,
         NearTransition(z, naive, before, after, change),
         NEW t \in Int, ZoneParts(z, t) = naive
  PROVE  t \in {naive - before, naive - after}
<1>1. DayLen \in Nat \ {0}
  BY WallClockAssumption
<1>2. Offset(z, t) \in (1 - DayLen)..(DayLen - 1)
  BY DEF Regular
<1>3. t = naive - Offset(z, t)
  BY <1>2 DEF ZoneParts
<1>4. t \in (naive - DayLen)..(naive + DayLen)
  BY <1>1, <1>2, <1>3
<1> QED BY <1>3, <1>4 DEF NearTransition

(* What the first of a set of instants is.                                 *)
LEMMA FirstOf ==
  ASSUME NEW S \in SUBSET Int, NEW t \in S, \A u \in S : t <= u
  PROVE  (CHOOSE v \in S : \A u \in S : v <= u) = t
<1>1. \A v \in S : (\A u \in S : v <= u) => v = t
  <2> TAKE v \in S
  <2> HAVE \A u \in S : v <= u
  <2>1. v <= t /\ t <= v
    OBVIOUS
  <2>2. v \in Int /\ t \in Int
    OBVIOUS
  <2> QED BY <2>1, <2>2
<1> QED BY <1>1

(* The instant of a wall clock shown at least once: the first showing,     *)
(* before which the zone shows earlier ones.                               *)
LEMMA ShownInstant ==
  ASSUME NEW z, Regular(z, Int), NEW day \in Int, NEW at \in 0..(DayLen - 1), NEW t \in Int,
         ZoneParts(z, t) = day * DayLen + at
  PROVE  /\ InstantForWallClock(z, day, at) \in Int
         /\ InstantForWallClock(z, day, at) = DueInstant(z, day, at)
         /\ ZoneParts(z, InstantForWallClock(z, day, at)) = day * DayLen + at
         /\ \A u \in Int : u < InstantForWallClock(z, day, at) => ZoneParts(z, u) < day * DayLen + at
<1> DEFINE naive == day * DayLen + at
           inst == InstantForWallClock(z, day, at)
           near == (naive - 2 * DayLen)..(naive + 2 * DayLen)
           showing == {u \in near : ZoneParts(z, u) = naive}
<1>1. DayLen \in Nat \ {0} /\ naive \in Int
  BY WallClockAssumption
<1>2. PICK before, after, change \in Int : NearTransition(z, naive, before, after, change)
  BY <1>1, TransitionNear
<1>3. inst = IF ZoneParts(z, naive - before) = naive THEN naive - before
             ELSE IF ZoneParts(z, naive - after) = naive THEN naive - after
             ELSE naive - before
  BY <1>2 DEF InstantForWallClock, NearTransition
<1>4. DueInstant(z, day, at) = IF showing # {} THEN CHOOSE v \in showing : \A u \in showing : v <= u
                               ELSE naive - Offset(z, (CHOOSE v \in {u \in near : ZoneParts(z, u) > naive} :
                                      \A u \in {u \in near : ZoneParts(z, u) > naive} : v <= u) - 1)
  BY DEF DueInstant
<1>5. ZoneParts(z, t) = naive
  OBVIOUS
<1> HIDE DEF naive, inst
<1>6. t \in {naive - before, naive - after}
  BY <1>1, <1>2, <1>5, ShownByCandidate
<1>7. inst \in {naive - before, naive - after} /\ ZoneParts(z, inst) = naive
  BY <1>3, <1>5, <1>6
<1>8. inst \in Int
  BY <1>1, <1>7
<1>9. inst \in showing
  BY <1>1, <1>2, <1>7 DEF NearTransition
<1>10. ASSUME NEW u \in showing PROVE inst <= u
  <2>1. u \in Int /\ ZoneParts(z, u) = naive
    BY <1>1
  <2>2. u \in {naive - before, naive - after}
    BY <1>1, <1>2, <2>1, ShownByCandidate
  <2>3. CASE inst = naive - before
    <3>1. SUFFICES ASSUME u = naive - after, naive - after < naive - before PROVE FALSE
      BY <1>1, <2>2, <2>3
    <3>2. u \in (naive - DayLen)..(naive + DayLen) /\ inst \in (naive - DayLen)..(naive + DayLen)
      BY <1>1, <1>2, <2>3, <3>1 DEF NearTransition
    <3>3. Offset(z, u) = after /\ Offset(z, inst) = before
      <4>1. Offset(z, u) \in Int /\ Offset(z, inst) \in Int
        BY <1>1, <1>8, <2>1 DEF Regular
      <4> QED BY <1>1, <1>7, <2>1, <2>3, <3>1, <4>1 DEF ZoneParts
    <3>4. before < after
      BY <1>1, <3>1
    <3>5. ~(u < change) /\ inst < change
      BY <1>2, <3>2, <3>3, <3>4 DEF NearTransition
    <3> QED BY <1>8, <2>1, <2>3, <3>1, <3>5
  <2>4. CASE inst = naive - after /\ inst # naive - before
    <3>1. ZoneParts(z, naive - before) # naive
      BY <1>3, <2>4
    <3>2. u = inst
      BY <2>1, <2>2, <2>4, <3>1
    <3> QED BY <1>8, <3>2
  <2> QED BY <1>7, <2>3, <2>4
<1>11. (CHOOSE v \in showing : \A u \in showing : v <= u) = inst
  <2>1. showing \in SUBSET Int
    BY <1>1
  <2> HIDE DEF showing
  <2> QED BY <1>9, <1>10, <2>1, FirstOf
<1>12. DueInstant(z, day, at) = inst
  BY <1>4, <1>9, <1>11
<1>13. ASSUME NEW u \in Int, u < inst PROVE ZoneParts(z, u) < naive
  <2>1. Offset(z, u) \in (1 - DayLen)..(DayLen - 1)
    BY DEF Regular
  <2>2. CASE u < naive - DayLen
    BY <1>1, <2>1, <2>2 DEF ZoneParts
  <2>3. CASE u >= naive - DayLen
    <3>1. inst <= naive + DayLen
      BY <1>1, <1>2, <1>7 DEF NearTransition
    <3>2. /\ Offset(z, u) = IF u < change THEN before ELSE after
          /\ Offset(z, inst) = IF inst < change THEN before ELSE after
      BY <1>1, <1>8, <1>13, <2>3, <3>1, <1>2 DEF NearTransition
    <3>3. inst = naive - Offset(z, inst)
      <4>1. Offset(z, inst) \in Int
        BY <1>8 DEF Regular
      <4> QED BY <1>1, <1>7, <1>8, <4>1 DEF ZoneParts
    <3>4. CASE ~(u < change) \/ inst < change
      BY <1>1, <1>8, <1>13, <3>2, <3>3, <3>4 DEF ZoneParts
    <3>5. CASE u < change /\ ~(inst < change)
      <4>1. inst = naive - after
        BY <3>2, <3>3, <3>5
      <4>2. naive - before < change => inst = naive - before
        <5> SUFFICES ASSUME naive - before < change PROVE inst = naive - before
          OBVIOUS
        <5>1. Offset(z, naive - before) = before
          BY <1>1, <1>2 DEF NearTransition
        <5>2. ZoneParts(z, naive - before) = naive
          BY <1>1, <5>1 DEF ZoneParts
        <5> QED BY <1>3, <5>2
      <4>3. change <= naive - before
        BY <1>1, <1>8, <3>5, <4>2
      <4>4. u + before < naive
        BY <1>1, <3>5, <4>3
      <4> QED BY <3>2, <3>5, <4>4 DEF ZoneParts
    <3> QED BY <3>4, <3>5
  <2> QED BY <1>1, <2>2, <2>3
<1> QED BY <1>7, <1>8, <1>12, <1>13 DEF inst, naive

(* The instant of a wall clock never shown: read with the offset before    *)
(* the gap, it is on the same date.                                        *)
LEMMA SkippedInstant ==
  ASSUME NEW z, Regular(z, Int), NEW day \in Int, NEW at \in 0..(DayLen - 1),
         \A t \in Int : ZoneParts(z, t) # day * DayLen + at
  PROVE  /\ InstantForWallClock(z, day, at) \in Int
         /\ InstantForWallClock(z, day, at) = DueInstant(z, day, at)
         /\ LocalDate(z, InstantForWallClock(z, day, at)) = (day * DayLen + at) \div DayLen
         /\ \A u \in Int : u < InstantForWallClock(z, day, at)
              => ZoneParts(z, u) < day * DayLen + at \/ LocalDate(z, u) = (day * DayLen + at) \div DayLen
<1> DEFINE naive == day * DayLen + at
           inst == InstantForWallClock(z, day, at)
           near == (naive - 2 * DayLen)..(naive + 2 * DayLen)
           showing == {u \in near : ZoneParts(z, u) = naive}
           past == {u \in near : ZoneParts(z, u) > naive}
<1>1. DayLen \in Nat \ {0} /\ naive \in Int
  BY WallClockAssumption
<1>2. PICK before, after, change \in Int : NearTransition(z, naive, before, after, change)
  BY <1>1, TransitionNear
<1>3. inst = IF ZoneParts(z, naive - before) = naive THEN naive - before
             ELSE IF ZoneParts(z, naive - after) = naive THEN naive - after
             ELSE naive - before
  BY <1>2 DEF InstantForWallClock, NearTransition
<1>4. DueInstant(z, day, at) = IF showing # {} THEN CHOOSE v \in showing : \A u \in showing : v <= u
                               ELSE naive - Offset(z, (CHOOSE v \in past : \A u \in past : v <= u) - 1)
  BY DEF DueInstant
<1>5. \A t \in Int : ZoneParts(z, t) # naive
  OBVIOUS
<1> HIDE DEF naive, inst
<1>6. inst = naive - before /\ naive - before \in Int /\ naive - after \in Int
  BY <1>1, <1>3, <1>5
<1>7. /\ naive - before \in (naive - DayLen + 1)..(naive + DayLen - 1)
      /\ naive - after \in (naive - DayLen + 1)..(naive + DayLen - 1)
  BY <1>1, <1>2 DEF NearTransition
<1>8. Offset(z, naive - before) # before /\ Offset(z, naive - after) # after
  BY <1>1, <1>5, <1>6 DEF ZoneParts
<1>9. change <= naive - before /\ naive - after < change
  BY <1>1, <1>2, <1>7, <1>8 DEF NearTransition
<1>10. Offset(z, change) = after /\ Offset(z, change - 1) = before /\ Offset(z, naive - before) = after
  <2>1. change - 1 \in (naive - DayLen)..(naive + DayLen) /\ change \in (naive - DayLen)..(naive + DayLen)
    BY <1>1, <1>2, <1>7, <1>9
  <2> QED BY <1>1, <1>2, <1>7, <1>9, <2>1 DEF NearTransition
<1>11. change + before <= naive /\ naive <= change + after - 1
  BY <1>1, <1>9
<1>12. showing = {}
  BY <1>1, <1>5
<1>13. change \in past
  BY <1>1, <1>2, <1>10, <1>11 DEF NearTransition, ZoneParts
<1>14. ASSUME NEW u \in past PROVE change <= u
  <2>1. u \in Int /\ u + Offset(z, u) > naive
    BY <1>1 DEF ZoneParts
  <2>2. Offset(z, u) \in (1 - DayLen)..(DayLen - 1)
    BY <2>1 DEF Regular
  <2>3. u > naive - DayLen
    BY <1>1, <2>1, <2>2
  <2> SUFFICES ASSUME u < change PROVE FALSE
    BY <2>1
  <2>4. Offset(z, u) = before
    BY <1>1, <1>2, <2>1, <2>3 DEF NearTransition
  <2> QED BY <1>1, <1>11, <2>1, <2>4
<1>15. (CHOOSE v \in past : \A u \in past : v <= u) = change
  <2>1. past \in SUBSET Int
    BY <1>1
  <2> HIDE DEF past
  <2> QED BY <1>13, <1>14, <2>1, FirstOf
<1>16. DueInstant(z, day, at) = inst
  BY <1>4, <1>6, <1>10, <1>12, <1>15
<1>17. naive \div DayLen = (naive + after - before) \div DayLen
  <2>1. \A local \in (change + Offset(z, change - 1))..(change + Offset(z, change) - 1) :
          local \div DayLen = (local + Offset(z, change) - Offset(z, change - 1)) \div DayLen
    BY DEF Regular
  <2>2. naive \in (change + before)..(change + after - 1)
    BY <1>1, <1>11
  <2> QED BY <1>10, <2>1, <2>2
<1>18. ZoneParts(z, inst) = naive + after - before
  BY <1>1, <1>6, <1>10 DEF ZoneParts
<1>19. LocalDate(z, inst) = naive \div DayLen
  BY <1>17, <1>18 DEF LocalDate
<1>20. ASSUME NEW u \in Int, u < inst, ~(ZoneParts(z, u) < naive)
       PROVE  LocalDate(z, u) = naive \div DayLen
  <2>1. Offset(z, u) \in (1 - DayLen)..(DayLen - 1)
    BY DEF Regular
  <2>2. u >= naive - DayLen
    BY <1>1, <1>20, <2>1 DEF ZoneParts
  <2>3. Offset(z, u) = IF u < change THEN before ELSE after
    BY <1>1, <1>2, <1>6, <1>7, <1>20, <2>2 DEF NearTransition
  <2>4. u >= change
    <3> SUFFICES ASSUME u < change PROVE FALSE
      BY <1>2
    <3>1. u + before < naive
      BY <1>1, <1>11
    <3> QED BY <1>20, <2>3, <3>1 DEF ZoneParts
  <2>5. ZoneParts(z, u) = u + after
    BY <2>3, <2>4 DEF ZoneParts
  <2>6. change + after <= ZoneParts(z, u) /\ ZoneParts(z, u) < naive + after - before
    BY <1>1, <1>6, <1>20, <2>4, <2>5
  <2>7. naive < ZoneParts(z, u)
    BY <1>1, <1>11, <2>5, <2>6
  <2> QED BY <1>1, <1>17, <2>5, <2>6, <2>7, BetweenSameDay DEF LocalDate
<1> QED BY <1>6, <1>16, <1>19, <1>20 DEF inst, naive

(* The instant of a day's wall clock is on that day, it is the one the run *)
(* of that day belongs to, and no later date is shown before it.           *)
LEMMA InstantOfDay ==
  ASSUME NEW z, Regular(z, Int), NEW day \in Int, NEW at \in 0..(DayLen - 1)
  PROVE  /\ InstantForWallClock(z, day, at) \in Int
         /\ InstantForWallClock(z, day, at) = DueInstant(z, day, at)
         /\ LocalDate(z, InstantForWallClock(z, day, at)) = day
         /\ \A u \in Int : u < InstantForWallClock(z, day, at) => LocalDate(z, u) <= day
<1>1. (day * DayLen + at) \div DayLen = day
  <2>1. DayLen \in Nat \ {0} /\ day * DayLen \in Int
    BY WallClockAssumption
  <2>2. day * DayLen + at \in Int /\ day * DayLen <= day * DayLen + at /\ day * DayLen + at < day * DayLen + DayLen
    BY <2>1
  <2> QED BY <2>1, <2>2, Quotient
<1>4. ASSUME NEW u \in Int, ZoneParts(z, u) < day * DayLen + at PROVE LocalDate(z, u) <= day
  <2>1. DayLen \in Nat \ {0} /\ ZoneParts(z, u) \in Int
    BY WallClockAssumption DEF Regular, ZoneParts
  <2> DEFINE p == ZoneParts(z, u)
             q == p \div DayLen
  <2>2. q \in Int /\ q * DayLen <= p
    BY <2>1
  <2> HIDE DEF p, q
  <2>3. q * DayLen < day * DayLen + DayLen
    BY <1>4, <2>1, <2>2 DEF p
  <2>4. ~(q >= day + 1)
    <3> SUFFICES ASSUME q >= day + 1 PROVE FALSE
      OBVIOUS
    <3>1. (q - (day + 1)) * DayLen >= 0
      BY <2>1, <2>2
    <3>2. (q - (day + 1)) * DayLen = q * DayLen - (day * DayLen + DayLen)
      BY <2>1, <2>2
    <3> QED BY <2>1, <2>2, <2>3, <3>1, <3>2
  <2> QED BY <2>2, <2>4 DEF LocalDate, p, q
<1>2. CASE \E t \in Int : ZoneParts(z, t) = day * DayLen + at
  <2>1. PICK t \in Int : ZoneParts(z, t) = day * DayLen + at
    BY <1>2
  <2>2. ASSUME NEW u \in Int, u < InstantForWallClock(z, day, at) PROVE LocalDate(z, u) <= day
    BY <1>4, <2>1, <2>2, ShownInstant
  <2> QED BY <1>1, <2>1, <2>2, ShownInstant DEF LocalDate
<1>3. CASE ~\E t \in Int : ZoneParts(z, t) = day * DayLen + at
  <2>1. ASSUME NEW u \in Int, u < InstantForWallClock(z, day, at) PROVE LocalDate(z, u) <= day
    BY <1>1, <1>3, <1>4, <2>1, SkippedInstant
  <2> QED BY <1>1, <1>3, <2>1, SkippedInstant
<1> QED BY <1>2, <1>3

(* Later days have later instants.                                         *)
LEMMA DaysInOrder ==
  ASSUME NEW z, Regular(z, Int), NEW at \in 0..(DayLen - 1), NEW d \in Int, NEW e \in Int, d < e
  PROVE  InstantForWallClock(z, d, at) < InstantForWallClock(z, e, at)
<1> DEFINE t == InstantForWallClock(z, d, at)
           u == InstantForWallClock(z, e, at)
<1>1. /\ t \in Int /\ LocalDate(z, t) = d /\ \A v \in Int : v < t => LocalDate(z, v) <= d
      /\ u \in Int /\ LocalDate(z, u) = e
  BY InstantOfDay
<1> HIDE DEF t, u
<1>2. t # u /\ ~(u < t)
  BY <1>1
<1> QED BY <1>1, <1>2 DEF t, u

(* The local date may go back by one, no further.                          *)
LEMMA DatesNearlyInOrder ==
  ASSUME NEW z, Regular(z, Int), NEW t \in Int, NEW u \in Int, t <= u
  PROVE  LocalDate(z, t) <= LocalDate(z, u) + 1
BY DEF Regular

-----------------------------------------------------------------------------
(* The runs of a window, over all days *)

Matches(window, day) == window.weekday \in {EveryDay, Weekday(day)}

Instant(window, day) == InstantForWallClock(window.zone, day, window.at)

InColumns(window) ==
  /\ Regular(window.zone, Int)
  /\ window.weekday \in 0..(WeekLen - 1) \cup {EveryDay}
  /\ window.at \in 0..(DayLen - 1)

(* The first of a window's runs after an instant, over all days. *)
FirstRun(window, from, next) ==
  /\ \E day \in Int : Matches(window, day) /\ next = Instant(window, day)
  /\ next \in Int /\ next > from
  /\ \A day \in Int : Matches(window, day) /\ Instant(window, day) > from => next <= Instant(window, day)

LEMMA DateOf ==
  ASSUME NEW z, Regular(z, Int), NEW t \in Int
  PROVE  LocalDate(z, t) \in Int
<1>1. Offset(z, t) \in Int /\ DayLen \in Nat \ {0}
  BY WallClockAssumption DEF Regular
<1> QED BY <1>1 DEF LocalDate, ZoneParts

(* The days the walk finds ahead have a first one, and no matching day     *)
(* outside of the walk is both ahead and earlier.  Tomorrow's instant may  *)
(* be past when an hour is repeated across midnight; that of the day after *)
(* is not, and a week from there the walk ends.                            *)
LEMMA FirstDayAhead ==
  ASSUME NEW window, InColumns(window), NEW from \in Int
  PROVE  \E first \in StillAhead(window, from) :
           /\ first \in Int
           /\ \A e \in StillAhead(window, from) : first <= e
           /\ \A e \in Int : Matches(window, e) /\ Instant(window, e) > from => first <= e
<1> DEFINE today == LocalDate(window.zone, from)
           ahead == StillAhead(window, from)
<1>1. WeekLen \in Nat \ {0} /\ EveryDay \notin 0..(WeekLen - 1)
  BY WallClockAssumption
<1>2. today \in Int
  BY DateOf DEF InColumns
<1>3. ASSUME NEW e \in Int
      PROVE  e \in ahead <=> e \in today..(today + WeekLen + 1) /\ Matches(window, e) /\ Instant(window, e) > from
  BY <1>1, <1>2 DEF StillAhead, Walk, Matches, Instant
<1>4. ahead \subseteq Int
  BY <1>1, <1>2 DEF StillAhead, Walk
<1>5. ASSUME NEW e \in Int
      PROVE  /\ Instant(window, e) \in Int
             /\ e >= today + 2 => Instant(window, e) > from
             /\ Instant(window, e) > from => e >= today
  <2>1. /\ Instant(window, e) \in Int
        /\ LocalDate(window.zone, Instant(window, e)) = e
        /\ from < Instant(window, e) => today <= e
    BY InstantOfDay DEF InColumns, Instant
  <2>2. Instant(window, e) <= from => e <= today + 1
    BY <2>1, DatesNearlyInOrder DEF InColumns
  <2> HIDE DEF today
  <2> QED BY <1>2, <2>1, <2>2
<1> HIDE DEF today, ahead
<1>6. SUFFICES \E first \in ahead :
                 \A e \in Int : Matches(window, e) /\ Instant(window, e) > from => first <= e
  BY <1>3, <1>4 DEF ahead
<1>7. CASE today \in ahead
  BY <1>2, <1>5, <1>7
<1>8. CASE today \notin ahead /\ today + 1 \in ahead
  <2>1. ASSUME NEW e \in Int, Matches(window, e), Instant(window, e) > from PROVE e >= today + 1
    <3>1. e # today
      BY <1>1, <1>2, <1>3, <1>8, <2>1
    <3> QED BY <1>2, <1>5, <2>1, <3>1
  <2> QED BY <1>2, <1>8, <2>1
<1>9. CASE today \notin ahead /\ today + 1 \notin ahead
  <2>1. ASSUME NEW e \in Int, Matches(window, e), Instant(window, e) > from PROVE e >= today + 2
    <3>1. e # today /\ e # today + 1
      BY <1>1, <1>2, <1>3, <1>9, <2>1
    <3> QED BY <1>2, <1>5, <2>1, <3>1
  <2>2. CASE window.weekday = EveryDay
    <3>1. today + 2 \in ahead
      BY <1>1, <1>2, <1>3, <1>5, <2>2 DEF Matches
    <3> QED BY <2>1, <3>1
  <2>3. CASE window.weekday \in 0..(WeekLen - 1)
    <3>1. today + 1 \in Int
      BY <1>2
    <3>2. PICK r \in (today + 1 + 1)..(today + 1 + WeekLen) :
            /\ Weekday(r) = window.weekday
            /\ \A e \in (today + 1 + 1)..(today + 1 + WeekLen) : Weekday(e) = window.weekday => e = r
      BY <2>3, <3>1, WeekdayAhead
    <3>3. r \in ahead
      BY <1>1, <1>2, <1>3, <1>5, <3>2 DEF Matches
    <3>4. ASSUME NEW e \in Int, Matches(window, e), Instant(window, e) > from PROVE r <= e
      <4>1. e >= today + 2
        BY <2>1, <3>4
      <4>2. Weekday(e) = window.weekday
        BY <1>1, <2>3, <3>4 DEF Matches
      <4>3. e > today + 1 + WeekLen => r <= e
        BY <1>1, <1>2, <3>2
      <4>4. e <= today + 1 + WeekLen => e = r
        BY <1>1, <1>2, <3>2, <4>1, <4>2
      <4> QED BY <1>1, <1>2, <3>2, <4>3, <4>4
    <3> QED BY <3>3, <3>4
  <2> QED BY <2>2, <2>3 DEF InColumns
<1> QED BY <1>7, <1>8, <1>9

(* The walk always finds a day, and what it returns is the first run of    *)
(* the window after from.                                                  *)
LEMMA WalkFindsFirstRun ==
  ASSUME NEW window, InColumns(window), NEW from \in Int
  PROVE  ~Throws(window, from) /\ FirstRun(window, from, ComputeNextRun(window, from))
<1>1. PICK first \in StillAhead(window, from) :
        /\ first \in Int
        /\ \A e \in StillAhead(window, from) : first <= e
        /\ \A e \in Int : Matches(window, e) /\ Instant(window, e) > from => first <= e
  BY FirstDayAhead
<1>2. StillAhead(window, from) \in SUBSET Int
  <2>1. LocalDate(window.zone, from) \in Int /\ WeekLen \in Nat
    BY DateOf, WallClockAssumption DEF InColumns
  <2> QED BY <2>1 DEF StillAhead, Walk
<1>3. (CHOOSE d \in StillAhead(window, from) : \A e \in StillAhead(window, from) : d <= e) = first
  BY <1>1, <1>2, FirstOf
<1>4. ComputeNextRun(window, from) = Instant(window, first)
  BY <1>3 DEF ComputeNextRun, Instant
<1>5. Matches(window, first) /\ Instant(window, first) > from
  BY <1>1 DEF StillAhead, Walk, Matches, Instant
<1>6. ASSUME NEW e \in Int
      PROVE  Instant(window, e) \in Int /\ LocalDate(window.zone, Instant(window, e)) = e
  BY InstantOfDay DEF InColumns, Instant
<1>7. ASSUME NEW e \in Int, Matches(window, e), Instant(window, e) > from
      PROVE  Instant(window, first) <= Instant(window, e)
  <2>1. first <= e
    BY <1>1, <1>7
  <2>2. CASE first = e
    BY <1>6, <2>2
  <2>3. CASE first < e
    <3>1. Instant(window, first) < Instant(window, e)
      BY <1>1, <2>3, DaysInOrder DEF InColumns, Instant
    <3> QED BY <1>1, <1>6, <3>1
  <2> QED BY <1>1, <2>1, <2>2, <2>3
<1> QED BY <1>1, <1>4, <1>5, <1>6, <1>7 DEF Throws, FirstRun

(* FirstRun is IsNextDue: over all days or over those around the walk, and *)
(* with the instants said without the two candidates.                      *)
LEMMA FirstRunIsNextDue ==
  ASSUME NEW window, InColumns(window), NEW from \in Int, NEW next, FirstRun(window, from, next)
  PROVE  IsNextDue(window, from, next)
<1> DEFINE today == LocalDate(window.zone, from)
           days == {d \in (today - 2)..(today + WeekLen + 2) : window.weekday \in {EveryDay, Weekday(d)}}
           due == {DueInstant(window.zone, day, window.at) : day \in days}
<1>1. WeekLen \in Nat \ {0} /\ today \in Int
  BY WallClockAssumption, DateOf DEF InColumns
<1>2. days \subseteq Int
  BY <1>1
<1>3. ASSUME NEW e \in Int
      PROVE  /\ DueInstant(window.zone, e, window.at) = Instant(window, e)
             /\ LocalDate(window.zone, Instant(window, e)) = e
             /\ Instant(window, e) \in Int
  BY InstantOfDay DEF InColumns, Instant
<1>4. PICK first \in StillAhead(window, from) :
        /\ first \in Int
        /\ \A e \in Int : Matches(window, e) /\ Instant(window, e) > from => first <= e
  BY FirstDayAhead
<1>5. first \in days /\ Matches(window, first) /\ Instant(window, first) > from
  BY <1>1, <1>4 DEF StillAhead, Walk, Matches, Instant
<1>6. PICK day \in Int : Matches(window, day) /\ next = Instant(window, day)
  BY DEF FirstRun
<1>7. next \in Int /\ next > from /\ next <= Instant(window, first)
  BY <1>4, <1>5 DEF FirstRun
<1>8. day = first
  <2>1. first <= day
    BY <1>4, <1>6, <1>7
  <2>2. ~(first < day)
    <3> SUFFICES ASSUME first < day PROVE FALSE
      OBVIOUS
    <3>1. Instant(window, first) < next
      BY <1>4, <1>6, DaysInOrder DEF InColumns, Instant
    <3> QED BY <1>3, <1>4, <1>7, <3>1
  <2> QED BY <1>4, <2>1, <2>2
<1>9. next \in due
  BY <1>3, <1>4, <1>5, <1>6, <1>8
<1>10. ASSUME NEW t \in due, t > from PROVE next <= t
  <2>1. PICK e \in days : t = DueInstant(window.zone, e, window.at)
    OBVIOUS
  <2>2. e \in Int /\ Matches(window, e) /\ t = Instant(window, e)
    BY <1>2, <1>3, <2>1 DEF Matches
  <2> QED BY <1>10, <2>2 DEF FirstRun
<1> QED BY <1>7, <1>9, <1>10 DEF IsNextDue

(* Asked again right before an instant it named, the walk names it again:  *)
(* what SchedulesAssumption asks of NextRun.                               *)
LEMMA NextRunIsStable ==
  ASSUME NEW window, InColumns(window), NEW from \in Int
  PROVE  /\ ComputeNextRun(window, from) \in Int
         /\ ComputeNextRun(window, from) > from
         /\ ComputeNextRun(window, ComputeNextRun(window, from) - 1) = ComputeNextRun(window, from)
<1> DEFINE n == ComputeNextRun(window, from)
           again == ComputeNextRun(window, n - 1)
<1>1. FirstRun(window, from, n)
  BY WalkFindsFirstRun
<1>2. n \in Int /\ n > from
  BY <1>1 DEF FirstRun
<1> HIDE DEF n
<1>3. FirstRun(window, n - 1, again)
  <2>1. n - 1 \in Int
    BY <1>2
  <2> QED BY <2>1, WalkFindsFirstRun
<1> HIDE DEF again
<1>4. again \in Int /\ again > n - 1
  BY <1>3 DEF FirstRun
<1>5. again <= n
  <2>1. PICK day \in Int : Matches(window, day) /\ n = Instant(window, day)
    BY <1>1 DEF FirstRun
  <2>2. Instant(window, day) > n - 1
    BY <1>2, <2>1
  <2> QED BY <1>3, <2>1, <2>2 DEF FirstRun
<1>6. again = n
  BY <1>2, <1>4, <1>5
<1> QED BY <1>2, <1>6 DEF n, again

-----------------------------------------------------------------------------
(* What the scheduler assumes of computeNextRun holds of the one it calls, *)
(* in every zone whose transitions are regular: the walk finds a day, what *)
(* it returns is ahead, and asked again right before that instant it names *)
(* it again (the NextRun clauses of SchedulesAssumption).                  *)
THEOREM NextRunJustified ==
  ASSUME \A z \in Zones : Regular(z, Int)
  PROVE  \A window \in Columns, t \in Nat :
           /\ ~Throws(window, t)
           /\ ComputeNextRun(window, t) \in Nat
           /\ ComputeNextRun(window, t) > t
           /\ ComputeNextRun(window, ComputeNextRun(window, t) - 1) = ComputeNextRun(window, t)
<1> TAKE window \in Columns, t \in Nat
<1>1. InColumns(window)
  BY DEF Columns, InColumns
<1>2. t \in Int
  OBVIOUS
<1>3. ~Throws(window, t)
  BY <1>1, <1>2, WalkFindsFirstRun
<1>4. /\ ComputeNextRun(window, t) \in Int
      /\ ComputeNextRun(window, t) > t
      /\ ComputeNextRun(window, ComputeNextRun(window, t) - 1) = ComputeNextRun(window, t)
  BY <1>1, <1>2, NextRunIsStable
<1>5. ComputeNextRun(window, t) \in Nat
  BY <1>4
<1> QED BY <1>3, <1>4, <1>5

(* On every day of the clock, computeNextRun names the first run of its    *)
(* window still ahead, in every zone whose transitions are regular: at the *)
(* first showing of a wall clock shown twice, late on the same day when it *)
(* is never shown (instantForWallClock, computeNextRun).                   *)
THEOREM NextRunHolds ==
  ASSUME \A z \in Zones : Regular(z, Int)
  PROVE  Spec => []NextRunIsNextDue
<1>1. ASSUME NEW window \in Columns, NEW from \in Int PROVE ~Fails(window, from)
  <2>1. InColumns(window)
    BY DEF Columns, InColumns
  <2>2. ~Throws(window, from) /\ FirstRun(window, from, ComputeNextRun(window, from))
    BY <2>1, WalkFindsFirstRun
  <2>3. IsNextDue(window, from, ComputeNextRun(window, from))
    BY <2>1, <2>2, FirstRunIsNextDue
  <2> QED BY <2>2, <2>3 DEF Fails
<1>2. ASSUME NEW today \in 0..MaxTime PROVE Instants(today) \subseteq Int
  <2>1. DayLen \in Nat /\ MaxTime \in Nat
    BY WallClockAssumption, SchedulesAssumption
  <2> QED BY <2>1 DEF Instants
<1>3. ASSUME NEW today \in 0..MaxTime PROVE Astray[today] = {}
  <2>1. ASSUME NEW search \in [window : Columns, from : Instants(today)]
        PROVE  ~Fails(search.window, search.from)
    BY <1>1, <1>2
  <2> QED BY <2>1 DEF Astray
<1>4. Shapes => NextRunIsNextDue
  <2>1. Shapes => clock \in 0..MaxTime
    BY SchedulesAssumption DEF Shapes
  <2> QED BY <1>3, <2>1 DEF NextRunIsNextDue
<1> QED BY <1>4, ShapesAlways, PTL
=============================================================================
