----------------------------- MODULE Schedules -----------------------------
(***************************************************************************)
(* Scheduled maintenance (src/src/schedule.ts): the rows of wk_schedules   *)
(* of one wiki, the PUT that replaces them, and the scheduler every server *)
(* process runs: it arms rows that have no instant yet, claims the oldest  *)
(* row that is due and advances it in one transaction, then writes the     *)
(* briefing or the health report outside of it.                            *)
(*                                                                         *)
(* Instants are numbers; 0 is SQL's NULL.  The database has one clock; a   *)
(* process may be ahead of it.  A worker or a PUT that read a clock or a   *)
(* row acts on it later: every database call is a step.                    *)
(***************************************************************************)
EXTENDS Integers, FiniteSets

CONSTANTS
  Kinds,          \* SCHEDULE_KINDS
  Briefing,       \* the kind that reports approvals
  Windows,        \* (at_time, weekday, timezone) triples
  Unreadable,     \* those this ICU build cannot interpret
  Default,        \* WIKIKIT_DEFAULT_BRIEFING
  NextRun(_, _),  \* computeNextRun (modelled in WallClock)
  Period(_),      \* a day or a week: how far a first briefing looks back
  Day,            \* one day
  Processes,      \* server processes, one scheduler each
  Ahead,          \* Ahead[w]: how far w's clock is ahead of the database's
  MaxAhead,       \* bound on Ahead
  Clients,        \* callers of PUT /schedules
  Approvals,      \* proposals that get approved
  MaxTime,        \* bound on the clock
  MaxPuts,        \* bound on PUTs
  MaxFaults       \* bound on crashes, failed jobs, stops and hand edits

(* computeNextRun returns the next instant a schedule is due after `from`, *)
(* strictly after it: asked again right before that instant, it names it   *)
(* again (NextRunJustified in SchedulesProofs derives this of WallClock).  *)
ASSUME SchedulesAssumption ==
  /\ Briefing \in Kinds
  /\ Unreadable \subseteq Windows
  /\ Default \in Windows \ Unreadable
  /\ \A v \in Windows, t \in 0..(MaxTime + MaxAhead) : NextRun(v, t) \in Nat /\ NextRun(v, t) > t
  /\ \A v \in Windows \ Unreadable, t \in 0..(MaxTime + MaxAhead) :
       NextRun(v, NextRun(v, t) - 1) = NextRun(v, t)
  /\ \A v \in Windows : Period(v) \in Nat
  /\ Day \in Nat \ {0}
  /\ MaxAhead \in Nat
  /\ Ahead \in [Processes -> 0..MaxAhead]
  /\ MaxTime \in Nat \ {0}
  /\ MaxPuts \in Nat
  /\ MaxFaults \in Nat

VARIABLES
  clock,    \* the database's now()
  row,      \* the rows of wk_schedules; id 0: no row
  worker,   \* worker[w]: where the loop is and what it holds
  put,      \* put[c]: a replaceSchedules between its clock reading and its transaction
  review,   \* review[a]: an approval: its reviewed_at and whether it committed
  puts,     \* PUTs so far
  faults,   \* faults so far
  claimed,  \* history: claimed[k], the windows of kind k that were claimed
  repeated, \* history: the kinds that ran one window twice
  late,     \* history: the kinds armed with an instant that had already passed
  displaced,\* history: the kinds armed with an instant of a window since replaced
  origin,   \* history: the first instant the present row's briefings cover; 0: none yet
  told,     \* history: approvals named by a written briefing
  missed    \* history: approvals a lost or overtaken briefing would have named

history == <<claimed, repeated, late, displaced, origin, told, missed>>
vars == <<clock, row, worker, put, review, puts, faults, claimed, repeated, late, displaced, origin, told, missed>>

-----------------------------------------------------------------------------
(* State *)

RowState == [id : Nat, window : Windows, enabled : BOOLEAN, last : Nat, next : Nat]
Entry == [window : Windows \ Unreadable, enabled : BOOLEAN]
Bodies == UNION {[S -> Entry] : S \in SUBSET Kinds}

(* A row as armUnscheduled read it. *)
Unarmed == [kind : Kinds, id : Nat, window : Windows]

(* pc: where the next database call of the loop is.                        *)
(*   down     no loop is running                                           *)
(*   poll     runOnce starts: armUnscheduled reads                         *)
(*   arm      an armed instant is computed for the next unarmed row        *)
(*   armed    ... and written                                              *)
(*   claim    claimDue                                                     *)
(*   collect  the claimed job reads its facts                              *)
(*   record   ... and writes its output                                    *)
(*   sleep    nothing was due                                              *)
Places == {"down", "poll", "arm", "armed", "claim", "collect", "record", "sleep"}

WorkerState ==
  [pc : Places, running : BOOLEAN, todo : SUBSET Unarmed,
   kind : Kinds, id : Nat, window : Windows, next : Nat, since : Nat, at : Nat, facts : SUBSET Approvals]

AnyWindow == CHOOSE v \in Windows : TRUE

Down ==
  [pc |-> "down", running |-> FALSE, todo |-> {}, kind |-> Briefing, id |-> 0,
   window |-> AnyWindow, next |-> 0, since |-> 0, at |-> 0, facts |-> {}]

Up == [Down EXCEPT !.pc = "poll", !.running = TRUE]

NoRow == [id |-> 0, window |-> AnyWindow, enabled |-> FALSE, last |-> 0, next |-> 0]
NoPut == [open |-> FALSE, id |-> 0, from |-> 0, body |-> [k \in {} |-> 0]]

(* createSpace seeds the default briefing (seedDefaultBriefing), best      *)
(* effort: the wiki may start without a row, or with one a client inserted *)
(* and left for the scheduler to arm.                                      *)
Seeded ==
  [k \in Kinds |-> IF k = Briefing
                   THEN [id |-> 1, window |-> Default, enabled |-> TRUE, last |-> 0, next |-> NextRun(Default, 1)]
                   ELSE NoRow]

Init ==
  /\ clock = 1
  /\ row \in {[k \in Kinds |-> NoRow], Seeded, [Seeded EXCEPT ![Briefing].next = 0]}
  /\ worker = [w \in Processes |-> Up]
  /\ put = [c \in Clients |-> NoPut]
  /\ review = [a \in Approvals |-> [status |-> "pending", at |-> 0]]
  /\ puts = 0
  /\ faults = 0
  /\ claimed = [k \in Kinds |-> {}]
  /\ repeated = {}
  /\ late = {}
  /\ displaced = {}
  /\ origin = 0
  /\ told = {}
  /\ missed = {}

Now(w) == clock + Ahead[w]
Exists(k) == row[k].id /= 0
Due(k) == Exists(k) /\ row[k].enabled /\ row[k].next /= 0 /\ row[k].next <= clock
Past(next) == next /= 0 /\ next <= clock

-----------------------------------------------------------------------------
(* Around the scheduler *)

Tick ==
  /\ clock < MaxTime
  /\ clock' = clock + 1
  /\ UNCHANGED <<row, worker, put, review, puts, faults, history>>

(* An approval stamps reviewed_at with its transaction's start and becomes *)
(* visible when the transaction commits.  No two transactions start in the *)
(* same microsecond, so a claim and an approval never share a stamp.       *)
BeginApproval(a) ==
  /\ review[a].status = "pending"
  /\ clock > row[Briefing].last
  /\ review' = [review EXCEPT ![a] = [status |-> "open", at |-> clock]]
  /\ UNCHANGED <<clock, row, worker, put, puts, faults, history>>

CommitApproval(a) ==
  /\ review[a].status = "open"
  /\ review' = [review EXCEPT ![a].status = "approved"]
  /\ UNCHANGED <<clock, row, worker, put, puts, faults, history>>

(* replaceSchedules parses the body and reads the process clock, then      *)
(* waits for its transaction.                                              *)
BeginPut(c, w, body) ==
  /\ ~put[c].open
  /\ puts < MaxPuts
  /\ puts' = puts + 1
  /\ put' = [put EXCEPT ![c] = 
       [open |-> TRUE, id |-> 1 + puts', from |-> Now(w), body |-> body]]
  /\ UNCHANGED <<clock, row, worker, review, faults, history>>

(* The row an upsert leaves: a new id only if there was none, last_run_at  *)
(* kept, next_run_at computed from the clock reading of BeginPut.          *)
Upserted(k, id, entry, from) ==
  [id |-> IF Exists(k) THEN row[k].id ELSE id,
   window |-> entry.window,
   enabled |-> entry.enabled,
   last |-> row[k].last,
   next |-> IF entry.enabled THEN NextRun(entry.window, from) ELSE 0]

CommitPut(c) ==
  LET body == put[c].body
      placed == [k \in Kinds |-> IF k \in DOMAIN body
                                 THEN Upserted(k, put[c].id, body[k], put[c].from)
                                 ELSE NoRow]
  IN /\ put[c].open
     /\ row' = placed
     /\ put' = [put EXCEPT ![c] = NoPut]
     /\ late' = late \cup {k \in DOMAIN body : Past(placed[k].next)}
     /\ origin' = IF Briefing \in DOMAIN body THEN origin ELSE 0
     /\ UNCHANGED <<clock, worker, review, puts, faults, claimed, repeated, displaced, told, missed>>

(* External: a row edited past the API, to a window this build cannot      *)
(* read.                                                                   *)
LoseZone(k, v) ==
  /\ Exists(k)
  /\ v \in Unreadable
  /\ faults < MaxFaults
  /\ faults' = faults + 1
  /\ row' = [row EXCEPT ![k].window = v]
  /\ UNCHANGED <<clock, worker, put, review, puts, history>>

-----------------------------------------------------------------------------
(* The loop *)

Start(w) ==
  /\ worker[w].pc = "down"
  /\ worker' = [worker EXCEPT ![w] = Up]
  /\ UNCHANGED <<clock, row, put, review, puts, faults, history>>

(* stop() clears the flag, wakes a sleeping loop and awaits its end.       *)
Stop(w) ==
  /\ worker[w].pc /= "down"
  /\ worker[w].running
  /\ faults < MaxFaults
  /\ faults' = faults + 1
  /\ worker' = [worker EXCEPT ![w].running = FALSE]
  /\ UNCHANGED <<clock, row, put, review, puts, history>>

(* After an iteration: the next one, or a sleep when nothing was due, or   *)
(* the end of the loop.                                                    *)
NextIteration(w, processed) ==
  IF ~worker[w].running THEN Down
  ELSE [Up EXCEPT !.pc = IF processed THEN "poll" ELSE "sleep"]

Wake(w) ==
  /\ worker[w].pc = "sleep"
  /\ worker' = [worker EXCEPT ![w] = IF worker[w].running THEN Up ELSE Down]
  /\ UNCHANGED <<clock, row, put, review, puts, faults, history>>

(* After an armed row: the next one, or claimDue. *)
ArmNext(w, todo) ==
  [Down EXCEPT !.running = worker[w].running, !.todo = todo,
               !.pc = IF todo = {} THEN "claim" ELSE "arm"]

(* armUnscheduled: the enabled rows that have no instant. *)
ReadUnarmed(w) ==
  /\ worker[w].pc = "poll"
  /\ LET unarmed == {k \in Kinds : Exists(k) /\ row[k].enabled /\ row[k].next = 0}
     IN worker' = [worker EXCEPT ![w] =
          ArmNext(w, {[kind |-> k, id |-> row[k].id, window |-> row[k].window] : k \in unarmed})]
  /\ UNCHANGED <<clock, row, put, review, puts, faults, history>>

(* The instant is computed, or the row is skipped with an error. *)
ComputeArm(w, u) ==
  /\ worker[w].pc = "arm"
  /\ u \in worker[w].todo
  /\ worker' = [worker EXCEPT ![w] =
       IF u.window \in Unreadable THEN ArmNext(w, worker[w].todo \ {u})
       ELSE [worker[w] EXCEPT !.pc = "armed", !.todo = @ \ {u}, !.kind = u.kind, !.id = u.id,
                              !.window = u.window, !.next = NextRun(u.window, Now(w))]]
  /\ UNCHANGED <<clock, row, put, review, puts, faults, history>>

(* The update names the row by its id and nothing else. *)
WriteArm(w) ==
  LET k == worker[w].kind
      hit == row[k].id = worker[w].id
  IN /\ worker[w].pc = "armed"
     /\ row' = IF hit THEN [row EXCEPT ![k].next = worker[w].next] ELSE row
     /\ late' = IF hit /\ Past(worker[w].next) THEN late \cup {k} ELSE late
     /\ displaced' = IF hit /\ row[k].window /= worker[w].window THEN displaced \cup {k} ELSE displaced
     /\ worker' = [worker EXCEPT ![w] = ArmNext(w, @.todo)]
     /\ UNCHANGED <<clock, put, review, puts, faults, claimed, repeated, origin, told, missed>>

-----------------------------------------------------------------------------
(* claimDue, one transaction *)

Oldest(k) == Due(k) /\ \A j \in Kinds : Due(j) => row[k].next <= row[j].next

NothingDue(w) ==
  /\ worker[w].pc = "claim"
  /\ \A k \in Kinds : ~Due(k)
  /\ worker' = [worker EXCEPT ![w] = NextIteration(w, FALSE)]
  /\ UNCHANGED <<clock, row, put, review, puts, faults, history>>

(* Mutant of Park: the row is left as it is. *)
ParkNothing(w, k) ==
  /\ worker[w].pc = "claim"
  /\ Oldest(k)
  /\ row[k].window \in Unreadable
  /\ worker' = [worker EXCEPT ![w] = NextIteration(w, FALSE)]
  /\ UNCHANGED <<clock, row, put, review, puts, faults, history>>

(* A window that cannot be interpreted is parked for a day. *)
Park(w, k) ==
  /\ worker[w].pc = "claim"
  /\ Oldest(k)
  /\ row[k].window \in Unreadable
  /\ row' = [row EXCEPT ![k].next = clock + Day]
  /\ worker' = [worker EXCEPT ![w] = NextIteration(w, FALSE)]
  /\ UNCHANGED <<clock, put, review, puts, faults, history>>

(* Mutant of Since: the last_run_at the claim itself has just written. *)
SinceUpdated(w, k) == clock

(* Where a job that ran last at `last` looks back to.  A first briefing    *)
(* reads the clock right after its claim has committed; the model reads it *)
(* with the claim.                                                         *)
Since(w, k) ==
  IF row[k].last /= 0 THEN row[k].last
  ELSE IF Now(w) > Period(row[k].window) THEN Now(w) - Period(row[k].window) ELSE 0

(* Mutant of Advanced: the next instant is counted from the window's own   *)
(* start, the start included.                                              *)
AdvancedFromWindow(w, k) == NextRun(row[k].window, row[k].next - 1)

Advanced(w, k) == NextRun(row[k].window, Now(w))

ClaimDue(w, k) ==
  /\ worker[w].pc = "claim"
  /\ Oldest(k)
  /\ row[k].window \notin Unreadable
  /\ row' = [row EXCEPT ![k].last = clock, ![k].next = Advanced(w, k)]
  /\ worker' = [worker EXCEPT ![w].pc = "collect", ![w].kind = k,
                              ![w].since = Since(w, k), ![w].at = clock]
  /\ claimed' = [claimed EXCEPT ![k] = @ \cup {row[k].next}]
  /\ repeated' = IF row[k].next \in claimed[k] THEN repeated \cup {k} ELSE repeated
  /\ origin' = IF k = Briefing /\ origin = 0 THEN Since(w, k) + 1 ELSE origin
  /\ UNCHANGED <<clock, put, review, puts, faults, late, displaced, told, missed>>

-----------------------------------------------------------------------------
(* The job bodies *)

Visible(since) == {a \in Approvals : review[a].status = "approved" /\ review[a].at > since}

(* Approvals stamped in the window (since, at]. *)
Within(since, at) == {a \in Approvals : review[a].at > since /\ review[a].at <= at}

(* collectBriefingFacts, or spaceHealth, which looks at the wiki as it is. *)
Collect(w) ==
  /\ worker[w].pc = "collect"
  /\ worker' = [worker EXCEPT ![w].pc = "record", ![w].facts = Visible(worker[w].since)]
  /\ missed' = IF worker[w].kind = Briefing
               THEN missed \cup {a \in Within(worker[w].since, worker[w].at) :
                                   review[a].status = "open"}
               ELSE missed
  /\ UNCHANGED <<clock, row, put, review, puts, faults, claimed, repeated, late, displaced, origin, told>>

(* recordOutput; a health report commits its outbox event with it. *)
Record(w) ==
  /\ worker[w].pc = "record"
  /\ told' = IF worker[w].kind = Briefing THEN told \cup worker[w].facts ELSE told
  /\ worker' = [worker EXCEPT ![w] = NextIteration(w, TRUE)]
  /\ UNCHANGED <<clock, row, put, review, puts, faults, claimed, repeated, late, displaced, origin, missed>>

(* What is lost when worker w leaves its job unfinished. *)
Forgone(w) ==
  IF worker[w].pc \in {"collect", "record"} /\ worker[w].kind = Briefing
  THEN Within(worker[w].since, worker[w].at) ELSE {}

(* runOnce logs a failed job; the claim stays. *)
JobFails(w) ==
  /\ worker[w].pc \in {"collect", "record"}
  /\ faults < MaxFaults
  /\ faults' = faults + 1
  /\ missed' = missed \cup Forgone(w)
  /\ worker' = [worker EXCEPT ![w] = NextIteration(w, TRUE)]
  /\ UNCHANGED <<clock, row, put, review, puts, claimed, repeated, late, displaced, origin, told>>

(* A failed update of one row is logged; the loop arms the next one. *)
ArmFails(w) ==
  /\ worker[w].pc = "armed"
  /\ faults < MaxFaults
  /\ faults' = faults + 1
  /\ worker' = [worker EXCEPT ![w] = ArmNext(w, @.todo)]
  /\ UNCHANGED <<clock, row, put, review, puts, history>>

(* A failed armUnscheduled read or claim ends the iteration. *)
IterationFails(w) ==
  /\ worker[w].pc \in {"poll", "claim"}
  /\ faults < MaxFaults
  /\ faults' = faults + 1
  /\ worker' = [worker EXCEPT ![w] = NextIteration(w, FALSE)]
  /\ UNCHANGED <<clock, row, put, review, puts, history>>

Crash(w) ==
  /\ worker[w].pc /= "down"
  /\ faults < MaxFaults
  /\ faults' = faults + 1
  /\ missed' = missed \cup Forgone(w)
  /\ worker' = [worker EXCEPT ![w] = Down]
  /\ UNCHANGED <<clock, row, put, review, puts, claimed, repeated, late, displaced, origin, told>>

-----------------------------------------------------------------------------
(* Specification *)

Poll(w) ==
  \/ Wake(w)
  \/ ReadUnarmed(w)
  \/ \E u \in worker[w].todo : ComputeArm(w, u)
  \/ WriteArm(w)
  \/ NothingDue(w)
  \/ \E k \in Kinds : Park(w, k) \/ ClaimDue(w, k)
  \/ Collect(w)
  \/ Record(w)

Fault(w) == JobFails(w) \/ ArmFails(w) \/ IterationFails(w) \/ Crash(w) \/ Stop(w)

Next ==
  \/ Tick
  \/ \E a \in Approvals : BeginApproval(a) \/ CommitApproval(a)
  \/ \E c \in Clients, w \in Processes, body \in Bodies : BeginPut(c, w, body)
  \/ \E c \in Clients : CommitPut(c)
  \/ \E k \in Kinds, v \in Windows : LoseZone(k, v)
  \/ \E w \in Processes : Start(w) \/ Poll(w) \/ Fault(w)

Spec == Init /\ [][Next]_vars

(* Every process is restarted when it is down and its loop keeps turning:  *)
(* the poll timer fires and database calls return.                         *)
Fairness == \A w \in Processes : WF_vars(Start(w) \/ Poll(w))

FairSpec == Spec /\ Fairness

-----------------------------------------------------------------------------
(* Properties *)

(* The tables and the records of the loops have the declared shape. *)
TypeOK ==
  /\ clock \in Nat \ {0}
  /\ row \in [Kinds -> RowState]
  /\ worker \in [Processes -> WorkerState]
  /\ \A c \in Clients :
       /\ put[c].open \in BOOLEAN
       /\ put[c].id \in Nat
       /\ put[c].from \in Nat
       /\ DOMAIN put[c].body \subseteq Kinds
       /\ \A k \in DOMAIN put[c].body : put[c].body[k] \in Entry
  /\ review \in [Approvals -> [status : {"pending", "open", "approved"}, at : Nat]]
  /\ puts \in Nat
  /\ faults \in Nat
  /\ claimed \in [Kinds -> SUBSET Nat]
  /\ repeated \subseteq Kinds
  /\ late \subseteq Kinds
  /\ displaced \subseteq Kinds
  /\ origin \in Nat
  /\ told \subseteq Approvals
  /\ missed \subseteq Approvals

(* "Two binaries against one database produce exactly ONE briefing per     *)
(* window": a window is claimed twice only for a kind that was armed, by   *)
(* an update that read the clock before the window and was applied after   *)
(* it, with an instant that had already passed.                            *)
OncePerWindow == repeated \subseteq late

(* An armed row fires at the wall-clock time its columns say, unless       *)
(* armUnscheduled overwrote it with the instant of columns a PUT has       *)
(* replaced since they were read.                                          *)
FiresAtItsTime ==
  \A k \in Kinds \ displaced :
    (Exists(k) /\ row[k].next /= 0 /\ row[k].window \notin Unreadable)
      => row[k].next = NextRun(row[k].window, row[k].next - 1)

Reporting(w, a) ==
  /\ worker[w].pc \in {"collect", "record"}
  /\ worker[w].kind = Briefing
  /\ a \in Within(worker[w].since, worker[w].at)

(* The windows of successive briefings leave no gap: an approval stamped   *)
(* after the first one's start and no later than the last claim is named   *)
(* by a briefing, or one that will name it is running, or its briefing was *)
(* lost (crash, failed job) or read the table before the approval          *)
(* committed.  A PUT in between does not move the window's start.          *)
EveryApprovalReported ==
  \A a \in Approvals :
    (/\ review[a].status = "approved"
     /\ Exists(Briefing)
     /\ origin \in 1..review[a].at
     /\ review[a].at <= row[Briefing].last)
      => a \in told \cup missed \/ \E w \in Processes : Reporting(w, a)

(* A row that is due is claimed, parked or replaced: no interleaving of    *)
(* pollers, stops and crashes leaves a schedule that never fires again.    *)
EveryDueIsTaken == \A k \in Kinds : Due(k) ~> ~Due(k)

(* Types, and the two promises about windows: a schedule fires at the      *)
(* wall-clock time its columns say, and once per window whatever number of *)
(* processes polls (claimDue, replaceSchedules, armUnscheduled).           *)
ScheduleInv == TypeOK /\ OncePerWindow /\ FiresAtItsTime
=============================================================================
