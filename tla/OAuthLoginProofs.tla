-------------------------- MODULE OAuthLoginProofs --------------------------
(***************************************************************************)
(* The safety of the login for any number of requests, identities, keys,   *)
(* login states and sessions.                                              *)
(*                                                                         *)
(* The proofs go by what a step may do to a request (WorkerMove), to a     *)
(* login state (StateMove), to a session and to an identity: each action   *)
(* is met once for each, and the properties follow from these alone.       *)
(***************************************************************************)
EXTENDS OAuthLogin, TLAPS

-----------------------------------------------------------------------------
(* Requests. *)

(* What a request carries from one statement to the next.                  *)
Carries(x) ==
  /\ x.pc \in {"renew", "state", "logout", "decide", "attach", "finish"} => x.n \in Sessions
  /\ x.pc \in {"decide", "reset", "child", "idp", "mint", "attach", "finish"} => x.s \in States
  /\ x.pc = "renew" /\ x.then = "decide" => x.s \in States
  /\ x.pc \in {"idp", "admit", "upsert", "signup", "mark", "write"} => x.who \in Identities
  /\ x.pc \in {"mint", "attach", "finish"} => x.who \in Principals

WorkersOK == worker \in [Workers -> WorkerState] /\ \A w \in Workers : Carries(worker[w])

(* No request comes to the upsert of an identity whose row an operator has  *)
(* written.                                                                 *)
WorkerMove(w) ==
  worker'[w].pc = "upsert" => worker'[w] = worker[w] \/ Mirrored(worker'[w].who)

Moves == WorkersOK' /\ \A w \in Workers : WorkerMove(w)

LEMMA WorkersStay ==
  ASSUME WorkersOK, UNCHANGED worker
  PROVE  Moves
BY DEF WorkersOK, Moves, WorkerMove

(* One request goes on, to a place of another kind or to a mirrored upsert. *)
LEMMA WorkerWritten ==
  ASSUME WorkersOK, NEW w \in Workers, NEW x \in WorkerState, Carries(x),
         x.pc = "upsert" => Mirrored(x.who),
         worker' = [worker EXCEPT ![w] = x]
  PROVE  Moves
<1>1. worker' \in [Workers -> WorkerState]
  BY DEF WorkersOK
<1>2. \A v \in Workers : worker'[v] = IF v = w THEN x ELSE worker[v]
  BY DEF WorkersOK
<1>3. \A v \in Workers : Carries(worker'[v])
  BY <1>2 DEF WorkersOK
<1>4. \A v \in Workers : WorkerMove(v)
  BY <1>2 DEF WorkerMove
<1> QED
  BY <1>1, <1>3, <1>4 DEF Moves, WorkersOK

LEMMA WorkerDone ==
  ASSUME WorkersOK, NEW w \in Workers, Done(w)
  PROVE  Moves
<1>1. Idle \in WorkerState /\ Carries(Idle) /\ Idle.pc # "upsert"
  BY OAuthLoginAssumption DEF Idle, WorkerState, Carries
<1> QED
  BY <1>1, WorkerWritten DEF Done

(* A request goes to another place with what it carries.                    *)
LEMMA WorkerGoes ==
  ASSUME WorkersOK, NEW w \in Workers, NEW pc, Goto(w, pc),
         [worker[w] EXCEPT !.pc = pc] \in WorkerState,
         Carries([worker[w] EXCEPT !.pc = pc]),
         pc = "upsert" => Mirrored(worker[w].who)
  PROVE  Moves
<1> DEFINE x == [worker[w] EXCEPT !.pc = pc]
<1>1. worker[w] \in WorkerState
  BY DEF WorkersOK
<1>2. x.pc = pc /\ x.who = worker[w].who /\ x \in WorkerState /\ Carries(x)
  BY <1>1 DEF WorkerState
<1>3. worker' = [worker EXCEPT ![w] = x]
  BY DEF Goto
<1> HIDE DEF x
<1> QED
  BY <1>2, <1>3, WorkerWritten

(* Every step moves at most one request.                                    *)
LEMMA MovesStep == TypeOK /\ WorkersOK /\ [Next]_vars => Moves
<1> SUFFICES ASSUME TypeOK, WorkersOK, [Next]_vars PROVE Moves
  OBVIOUS
<1>a. Idle \in WorkerState
  BY OAuthLoginAssumption DEF Idle, WorkerState
<1>b. \A w \in Workers : worker[w] \in WorkerState /\ Carries(worker[w])
  BY DEF WorkersOK
<1>c. States \subseteq 0..MaxStates /\ Sessions \subseteq 0..MaxSessions
  BY OAuthLoginAssumption DEF States, Sessions
<1>1. ASSUME NEW w \in Workers, NEW n \in Sessions, NEW then \in {"idle", "state", "logout"},
             CurrentOperator(w, n, then)
      PROVE  Moves
  <2> DEFINE x == [Idle EXCEPT !.pc = "renew", !.then = then, !.n = n]
  <2>1. x \in WorkerState /\ Carries(x) /\ x.pc # "upsert"
    BY <1>a, <1>c DEF Idle, WorkerState, Carries
  <2>2. worker' = [worker EXCEPT ![w] = x]
    BY <1>1 DEF CurrentOperator
  <2> HIDE DEF x
  <2> QED
    BY <2>1, <2>2, WorkerWritten
<1>2. ASSUME NEW w \in Workers, NEW n \in Sessions, NEW s \in States, ReadConsent(w, n, s) PROVE Moves
  <2> DEFINE x == [Idle EXCEPT !.pc = "renew", !.then = "decide", !.n = n, !.s = s]
  <2>1. x \in WorkerState /\ Carries(x) /\ x.pc # "upsert"
    BY <1>a, <1>c DEF Idle, WorkerState, Carries
  <2>2. worker' = [worker EXCEPT ![w] = x]
    BY <1>2 DEF ReadConsent
  <2> HIDE DEF x
  <2> QED
    BY <2>1, <2>2, WorkerWritten
<1>3. ASSUME NEW w \in Workers, NEW s \in States, StartSso(w, s) PROVE Moves
  <2> DEFINE x == [Idle EXCEPT !.pc = "child", !.s = s]
  <2>1. x \in WorkerState /\ Carries(x) /\ x.pc # "upsert"
    BY <1>a, <1>c DEF Idle, WorkerState, Carries
  <2>2. worker' = [worker EXCEPT ![w] = x]
    BY <1>3 DEF StartSso
  <2> HIDE DEF x
  <2> QED
    BY <2>1, <2>2, WorkerWritten
<1>4. ASSUME NEW w \in Workers, NEW s \in States, NEW k \in Keys, KeyLogin(w, s, k) PROVE Moves
  <2> DEFINE x == [Idle EXCEPT !.pc = "mint", !.s = s, !.who = k]
  <2>1. x \in WorkerState /\ Carries(x) /\ x.pc # "upsert"
    BY <1>a, <1>c DEF Idle, WorkerState, Carries, Principals
  <2>2. worker' = [worker EXCEPT ![w] = x]
    BY <1>4 DEF KeyLogin
  <2> HIDE DEF x
  <2> QED
    BY <2>1, <2>2, WorkerWritten
<1>5. ASSUME NEW w \in Workers, NEW s \in States, NEW i \in Identities, Callback(w, s, i) PROVE Moves
  <2> DEFINE x == [Idle EXCEPT !.pc = "idp", !.s = s, !.who = i]
  <2>1. x \in WorkerState /\ Carries(x) /\ x.pc # "upsert"
    BY <1>a, <1>c DEF Idle, WorkerState, Carries, Principals
  <2>2. worker' = [worker EXCEPT ![w] = x]
    BY <1>5 DEF Callback
  <2> HIDE DEF x
  <2> QED
    BY <2>1, <2>2, WorkerWritten
<1>6. ASSUME NEW w \in Workers, NEW i \in Identities, CreateIdentitySession(w, i) PROVE Moves
  <2> DEFINE x == [Idle EXCEPT !.pc = "admit", !.who = i]
  <2>1. x \in WorkerState /\ Carries(x) /\ x.pc # "upsert"
    BY <1>a, <1>c DEF Idle, WorkerState, Carries, Principals
  <2>2. worker' = [worker EXCEPT ![w] = x]
    BY <1>6 DEF CreateIdentitySession
  <2> HIDE DEF x
  <2> QED
    BY <2>1, <2>2, WorkerWritten
<1>7. ASSUME NEW w \in Workers, NEW i \in Identities, NEW restore \in BOOLEAN, ReadGrant(w, i, restore)
      PROVE  Moves
  <2> DEFINE x == [Idle EXCEPT !.pc = "write", !.who = i, !.restore = restore, !.saw = identity[i].row]
  <2>0. identity[i].row \in BOOLEAN
    BY DEF TypeOK, IdentityRow
  <2>1. x \in WorkerState /\ Carries(x) /\ x.pc # "upsert"
    BY <1>a, <1>c, <2>0 DEF Idle, WorkerState, Carries, Principals
  <2>2. worker' = [worker EXCEPT ![w] = x]
    BY <1>7 DEF ReadGrant
  <2> HIDE DEF x
  <2> QED
    BY <2>1, <2>2, WorkerWritten
<1>8. ASSUME NEW w \in Workers, NEW n \in Sessions, CreateOperatorSession(w, n) PROVE Moves
  <2> DEFINE s == worker[w].s
             consent == worker[w].who \in Identities /\ state[s].purpose = "oauth"
             x == [worker[w] EXCEPT !.pc = IF state[s].purpose = "cockpit" THEN "finish" ELSE "attach", !.n = n]
  <2>1. worker[w].pc = "mint" /\ worker' = [worker EXCEPT ![w] = IF consent THEN Idle ELSE x]
    BY <1>8 DEF CreateOperatorSession
  <2>2. x \in WorkerState /\ Carries(x) /\ x.pc # "upsert"
    BY <1>b, <1>c, <2>1 DEF WorkerState, Carries
  <2>3. CASE consent
    BY <2>1, <2>3, WorkerDone DEF Done
  <2>4. CASE ~consent
    <3>1. worker' = [worker EXCEPT ![w] = x]
      BY <2>1, <2>4
    <3> HIDE DEF x
    <3> QED
      BY <2>2, <3>1, WorkerWritten
  <2> QED
    BY <2>3, <2>4
<1>9. ASSUME NEW w \in Workers, Renew(w) PROVE Moves
  <2>1. CASE worker[w].then = "idle"
    BY <1>9, <2>1, WorkerDone DEF Renew, Done
  <2>2. CASE worker[w].then # "idle"
    <3>1. Goto(w, worker[w].then) /\ worker[w].pc = "renew"
      BY <1>9, <2>2 DEF Renew, Goto
    <3>2. /\ [worker[w] EXCEPT !.pc = worker[w].then] \in WorkerState
          /\ Carries([worker[w] EXCEPT !.pc = worker[w].then])
          /\ worker[w].then # "upsert"
      BY <1>b, <2>2, <3>1 DEF WorkerState, Carries
    <3> QED
      BY <3>1, <3>2, WorkerGoes
  <2> QED
    BY <2>1, <2>2
<1>10. ASSUME NEW w \in Workers, SwitchAccount(w) PROVE Moves
  <2>1. Goto(w, "reset") /\ worker[w].pc = "decide"
    BY <1>10 DEF SwitchAccount
  <2>2. [worker[w] EXCEPT !.pc = "reset"] \in WorkerState /\ Carries([worker[w] EXCEPT !.pc = "reset"])
    BY <1>b, <2>1 DEF WorkerState, Carries
  <2> QED
    BY <2>1, <2>2, WorkerGoes
<1>11. ASSUME NEW w \in Workers, IdpAnswers(w) PROVE Moves
  <2>1. worker[w].pc = "idp" /\ (Goto(w, "admit") \/ Done(w))
    BY <1>11 DEF IdpAnswers
  <2>2. [worker[w] EXCEPT !.pc = "admit"] \in WorkerState /\ Carries([worker[w] EXCEPT !.pc = "admit"])
    BY <1>b, <2>1 DEF WorkerState, Carries
  <2> QED
    BY <2>1, <2>2, WorkerGoes, WorkerDone
<1>12. ASSUME NEW w \in Workers, Admit(w) PROVE Moves
  <2> DEFINE i == worker[w].who
             pc == IF Mirrored(i) THEN "upsert" ELSE IF identity[i].row THEN "mark" ELSE "signup"
  <2>1. worker[w].pc = "admit" /\ (Goto(w, pc) \/ Done(w))
    BY <1>12 DEF Admit
  <2>2. /\ [worker[w] EXCEPT !.pc = pc] \in WorkerState
        /\ Carries([worker[w] EXCEPT !.pc = pc])
        /\ pc = "upsert" => Mirrored(worker[w].who)
    BY <1>b, <2>1 DEF WorkerState, Carries
  <2> HIDE DEF pc
  <2> QED
    BY <2>1, <2>2, WorkerGoes, WorkerDone
<1>13. ASSUME NEW w \in Workers, Upsert(w) \/ SignUp(w) PROVE Moves
  <2>1. worker[w].pc \in {"upsert", "signup"} /\ Goto(w, "mark")
    BY <1>13 DEF Upsert, SignUp
  <2>2. [worker[w] EXCEPT !.pc = "mark"] \in WorkerState /\ Carries([worker[w] EXCEPT !.pc = "mark"])
    BY <1>b, <2>1 DEF WorkerState, Carries
  <2> QED
    BY <2>1, <2>2, WorkerGoes
<1>14. ASSUME NEW w \in Workers, Mark(w) PROVE Moves
  <2>1. worker[w].pc = "mark" /\ worker[w].s # 0 /\ (Goto(w, "mint") \/ Done(w))
    BY <1>14 DEF Mark
  <2>2. worker[w].s \in States
    BY <1>b, <2>1, OAuthLoginAssumption DEF WorkerState, States
  <2>3. [worker[w] EXCEPT !.pc = "mint"] \in WorkerState /\ Carries([worker[w] EXCEPT !.pc = "mint"])
    BY <1>b, <2>1, <2>2 DEF WorkerState, Carries, Principals
  <2> QED
    BY <2>1, <2>3, WorkerGoes, WorkerDone
<1>15. ASSUME NEW w \in Workers,
              \/ \E s \in States : Authorize(w, s) \/ ChildState(w, s)
              \/ Logout(w) \/ Approve(w) \/ Deny(w) \/ ResetState(w) \/ MintKey(w)
              \/ AttachOperator(w) \/ FinishCockpitLogin(w) \/ WriteGrant(w) \/ Die(w)
       PROVE  Moves
  <2>1. Done(w)
    BY <1>15 DEF Authorize, ChildState, Logout, Approve, Deny, ResetState, MintKey,
                 AttachOperator, FinishCockpitLogin, WriteGrant, Die
  <2> QED
    BY <2>1, WorkerDone
<1>16. CASE \/ \E s \in States, purpose \in {"oauth", "cockpit"} : OpenFunnel(s, purpose)
            \/ \E i \in Identities : RevokeIdentity(i)
            \/ \E k \in Keys : RevokeKey(k)
            \/ Cleanup \/ Tick \/ UNCHANGED vars
  <2>1. UNCHANGED worker
    BY <1>16 DEF OpenFunnel, RevokeIdentity, RevokeKey, Cleanup, Tick, vars
  <2> QED
    BY <2>1, WorkersStay
<1> QED
  BY <1>1, <1>2, <1>3, <1>4, <1>5, <1>6, <1>7, <1>8, <1>9, <1>10, <1>11, <1>12, <1>13, <1>14,
     <1>15, <1>16 DEF Next

-----------------------------------------------------------------------------
(* Login states. *)

(* What a step may do to login state s: write it for the first time, edit   *)
(* or consume it while nobody has consumed it, or sweep it.                 *)
StateMove(s) ==
  \/ /\ outcome'[s] = outcome[s]
     /\ \/ state'[s] \in {state[s], [state[s] EXCEPT !.present = FALSE]}
        \/ state[s].expires = 0 /\ state'[s].expires # 0 /\ state'[s].consumed = 0
        \/ /\ Unconsumed(s)
           /\ state'[s].expires = state[s].expires
           /\ state'[s].consumed = state[s].consumed
  \/ /\ Unconsumed(s)
     /\ state'[s].expires = state[s].expires
     /\ state'[s].consumed # 0
     /\ outcome'[s] \in {outcome[s], outcome[s] + 1}

StatesOK == state \in [States -> LoginState] /\ outcome \in [States -> Nat]

StateMoves == StatesOK' /\ \A s \in States : StateMove(s)

LEMMA StatesStay ==
  ASSUME StatesOK, UNCHANGED <<state, outcome>>
  PROVE  StateMoves
BY DEF StatesOK, StateMoves, StateMove

(* A state is written for the first time.                                   *)
LEMMA StateOpened ==
  ASSUME StatesOK, clock \in 1..MaxTime, NEW s \in States, Fresh(s), UNCHANGED outcome,
         NEW purpose \in {"oauth", "cockpit"}, NEW sso \in BOOLEAN, NEW subject \in Principals \cup {Nobody},
         WriteState(s, purpose, sso, subject)
  PROVE  StateMoves
<1> DEFINE x == [present |-> TRUE, purpose |-> purpose, sso |-> sso, subject |-> subject,
                 expires |-> clock + StateTtl, consumed |-> 0]
<1>1. clock + StateTtl \in Nat /\ clock + StateTtl # 0 /\ 0 \in 0..MaxTime
  BY OAuthLoginAssumption
<1>2. x \in LoginState /\ x.expires # 0 /\ x.consumed = 0
  BY <1>1 DEF LoginState
<1>3. state' = [state EXCEPT ![s] = x]
  BY DEF WriteState
<1> HIDE DEF x
<1>4. StatesOK'
  BY <1>2, <1>3 DEF StatesOK
<1>5. \A t \in States : StateMove(t)
  BY <1>2, <1>3 DEF StatesOK, StateMove, Fresh
<1> QED
  BY <1>4, <1>5 DEF StateMoves

(* Consuming stamps what nobody has stamped before, and counts at most one  *)
(* outcome.                                                                 *)
LEMMA StateConsumed ==
  ASSUME StatesOK, clock \in 1..MaxTime, NEW s \in 0..MaxStates, Consume(s),
         \/ UNCHANGED outcome
         \/ s \in States /\ outcome' = IF Unconsumed(s) THEN [outcome EXCEPT ![s] = @ + 1] ELSE outcome
  PROVE  StateMoves
<1>1. CASE s # 0 /\ Unconsumed(s)
  <2> DEFINE x == [state[s] EXCEPT !.consumed = clock]
  <2>0. s \in States /\ state[s] \in LoginState
    BY <1>1, OAuthLoginAssumption DEF States, StatesOK
  <2>1. clock \in 0..MaxTime /\ clock # 0
    BY OAuthLoginAssumption
  <2>2. x \in LoginState /\ x.expires = state[s].expires /\ x.consumed # 0
    BY <2>0, <2>1 DEF LoginState
  <2>3. state' = [state EXCEPT ![s] = x]
    BY <1>1 DEF Consume
  <2> HIDE DEF x
  <2>4. /\ outcome' \in [States -> Nat]
        /\ outcome'[s] \in {outcome[s], outcome[s] + 1}
        /\ \A t \in States : t # s => outcome'[t] = outcome[t]
    BY <1>1, <2>0 DEF StatesOK
  <2>5. StatesOK'
    BY <2>2, <2>3, <2>4 DEF StatesOK
  <2>6. \A t \in States : StateMove(t)
    BY <1>1, <2>2, <2>3, <2>4 DEF StatesOK, StateMove
  <2> QED
    BY <2>5, <2>6 DEF StateMoves
<1>2. CASE ~(s # 0 /\ Unconsumed(s))
  <2>1. UNCHANGED <<state, outcome>>
    BY <1>2, OAuthLoginAssumption DEF Consume, States
  <2> QED
    BY <2>1, StatesStay
<1> QED
  BY <1>1, <1>2

(* An unconsumed state is edited.                                           *)
LEMMA StateEdited ==
  ASSUME StatesOK, NEW s \in States, UNCHANGED outcome,
         \/ UNCHANGED state
         \/ /\ Unconsumed(s)
            /\ \E x \in LoginState : /\ state' = [state EXCEPT ![s] = x]
                                     /\ x.expires = state[s].expires
                                     /\ x.consumed = state[s].consumed
  PROVE  StateMoves
<1>1. CASE UNCHANGED state
  BY <1>1, StatesStay
<1>2. ASSUME Unconsumed(s), NEW x \in LoginState, state' = [state EXCEPT ![s] = x],
             x.expires = state[s].expires, x.consumed = state[s].consumed
      PROVE  StateMoves
  BY <1>2 DEF StatesOK, StateMoves, StateMove
<1> QED
  BY <1>1, <1>2

LEMMA AuthenticatedEdits ==
  ASSUME StatesOK, NEW s \in States, NEW p \in Principals, state' = Authenticated(s, p), UNCHANGED outcome
  PROVE  StateMoves
<1> DEFINE x == [state[s] EXCEPT !.subject = p]
<1>1. x \in LoginState /\ x.expires = state[s].expires /\ x.consumed = state[s].consumed
  BY DEF StatesOK, LoginState
<1>2. \/ UNCHANGED state
      \/ Unconsumed(s) /\ state' = [state EXCEPT ![s] = x]
  BY DEF Authenticated
<1> HIDE DEF x
<1> QED
  BY <1>1, <1>2, StateEdited

LEMMA StatesStep == TypeOK /\ WorkersOK /\ [Next]_vars => StateMoves
<1> SUFFICES ASSUME TypeOK, WorkersOK, [Next]_vars PROVE StateMoves
  OBVIOUS
<1>a. StatesOK /\ clock \in 1..MaxTime
  BY DEF TypeOK, StatesOK
<1>b. \A w \in Workers : worker[w] \in WorkerState /\ Carries(worker[w])
  BY DEF WorkersOK
<1>1. ASSUME NEW s \in States, NEW purpose \in {"oauth", "cockpit"}, OpenFunnel(s, purpose)
      PROVE  StateMoves
  BY <1>1, <1>a, StateOpened DEF OpenFunnel
<1>2. ASSUME NEW w \in Workers, NEW s \in States, Authorize(w, s) PROVE StateMoves
  <2>1. worker[w].n \in Sessions
    BY <1>2, <1>b DEF Authorize, Carries
  <2>2. session[worker[w].n].who \in Principals \cup {Nobody}
    BY <2>1 DEF TypeOK, SessionRow
  <2> QED
    BY <1>2, <1>a, <2>2, StateOpened DEF Authorize
<1>3. ASSUME NEW w \in Workers, NEW s \in States, ChildState(w, s) PROVE StateMoves
  <2>1. worker[w].s \in States
    BY <1>3, <1>b DEF ChildState, Carries
  <2>2. state[worker[w].s].purpose \in {"oauth", "cockpit"}
    BY <1>a, <2>1 DEF StatesOK, LoginState
  <2> QED
    BY <1>3, <1>a, <2>2, StateOpened DEF ChildState
<1>4. ASSUME NEW w \in Workers, Approve(w) \/ FinishCockpitLogin(w) PROVE StateMoves
  <2>1. worker[w].s \in States
    BY <1>4, <1>b DEF Approve, FinishCockpitLogin, Carries
  <2>2. worker[w].s \in 0..MaxStates
    BY <1>b DEF WorkerState
  <2> QED
    BY <1>4, <1>a, <2>1, <2>2, StateConsumed DEF Approve, FinishCockpitLogin
<1>5. ASSUME NEW w \in Workers, Deny(w) \/ IdpAnswers(w) \/ Admit(w) PROVE StateMoves
  <2>1. worker[w].s \in 0..MaxStates
    BY <1>b DEF WorkerState
  <2>2. UNCHANGED outcome /\ (UNCHANGED state \/ Consume(worker[w].s))
    BY <1>5 DEF Deny, IdpAnswers, Admit
  <2> QED
    BY <1>a, <2>1, <2>2, StateConsumed, StatesStay
<1>6. ASSUME NEW w \in Workers, ResetState(w) PROVE StateMoves
  <2> DEFINE s == worker[w].s
             x == [state[s] EXCEPT !.subject = Nobody, !.sso = FALSE]
  <2>1. s \in States
    BY <1>6, <1>b DEF ResetState, Carries
  <2>2. x \in LoginState /\ x.expires = state[s].expires /\ x.consumed = state[s].consumed
    BY <1>a, <2>1 DEF StatesOK, LoginState
  <2>3. [state EXCEPT ![s].subject = Nobody, ![s].sso = FALSE] = [state EXCEPT ![s] = x]
    BY <1>a, <2>1 DEF StatesOK, LoginState
  <2>4. UNCHANGED outcome /\ (UNCHANGED state \/ (Unconsumed(s) /\ state' = [state EXCEPT ![s] = x]))
    BY <1>6, <2>3 DEF ResetState
  <2> HIDE DEF x, s
  <2> QED
    BY <1>a, <2>1, <2>2, <2>4, StateEdited
<1>7. ASSUME NEW w \in Workers, Mark(w) PROVE StateMoves
  <2>1. worker[w].s \in States /\ worker[w].who \in Principals
    BY <1>7, <1>b, OAuthLoginAssumption DEF Mark, Carries, WorkerState, States, Principals
  <2> QED
    BY <1>7, <1>a, <2>1, AuthenticatedEdits DEF Mark
<1>8. ASSUME NEW w \in Workers, AttachOperator(w) PROVE StateMoves
  <2>1. worker[w].s \in States /\ worker[w].who \in Principals
    BY <1>8, <1>b DEF AttachOperator, Carries
  <2> QED
    BY <1>8, <1>a, <2>1, AuthenticatedEdits DEF AttachOperator
<1>9. CASE Cleanup
  <2> DEFINE S == {s \in States : state[s].present /\ (Old(state[s].expires) \/ Old(state[s].consumed))}
  <2>1. state' = [s \in States |-> [state[s] EXCEPT !.present = @ /\ s \notin S]] /\ UNCHANGED outcome
    BY <1>9 DEF Cleanup
  <2> HIDE DEF S
  <2>2. ASSUME NEW s \in States
        PROVE  state'[s] \in LoginState /\ state'[s] \in {state[s], [state[s] EXCEPT !.present = FALSE]}
    <3>1. state[s] \in LoginState /\ state'[s] = [state[s] EXCEPT !.present = state[s].present /\ s \notin S]
      BY <1>a, <2>1 DEF StatesOK
    <3>2. CASE state[s].present /\ s \notin S
      <4>1. state[s].present = TRUE
        BY <3>1, <3>2 DEF LoginState
      <4>2. state'[s] = [state[s] EXCEPT !.present = TRUE]
        BY <3>1, <3>2
      <4>3. state'[s] = state[s]
        BY <3>1, <4>1, <4>2 DEF LoginState
      <4> QED
        BY <3>1, <4>3
    <3>3. CASE ~(state[s].present /\ s \notin S)
      <4>1. state'[s] = [state[s] EXCEPT !.present = FALSE]
        BY <3>1, <3>3
      <4> QED
        BY <3>1, <4>1 DEF LoginState
    <3> QED
      BY <3>2, <3>3
  <2>3. state' \in [States -> LoginState]
    BY <2>1, <2>2
  <2> QED
    BY <1>a, <2>1, <2>2, <2>3 DEF StatesOK, StateMoves, StateMove
<1>10. CASE \/ \E w \in Workers :
                 \/ \E n \in Sessions, then \in {"idle", "state", "logout"} : CurrentOperator(w, n, then)
                 \/ \E n \in Sessions, s \in States : ReadConsent(w, n, s)
                 \/ \E s \in States : StartSso(w, s)
                 \/ \E s \in States, k \in Keys : KeyLogin(w, s, k)
                 \/ \E s \in States, i \in Identities : Callback(w, s, i)
                 \/ \E i \in Identities : CreateIdentitySession(w, i)
                 \/ \E n \in Sessions : CreateOperatorSession(w, n)
                 \/ \E i \in Identities, restore \in BOOLEAN : ReadGrant(w, i, restore)
                 \/ Renew(w) \/ Logout(w) \/ SwitchAccount(w)
                 \/ Upsert(w) \/ SignUp(w) \/ MintKey(w) \/ WriteGrant(w) \/ Die(w)
            \/ \E i \in Identities : RevokeIdentity(i)
            \/ \E k \in Keys : RevokeKey(k)
            \/ Tick \/ UNCHANGED vars
  <2>1. UNCHANGED <<state, outcome>>
    BY <1>10 DEF CurrentOperator, ReadConsent, StartSso, KeyLogin, Callback, CreateIdentitySession,
                 CreateOperatorSession, ReadGrant, Renew, Logout, SwitchAccount, Upsert, SignUp, MintKey,
                 WriteGrant, Die, RevokeIdentity, RevokeKey, Tick, vars
  <2> QED
    BY <1>a, <2>1, StatesStay
<1> QED
  BY <1>1, <1>2, <1>3, <1>4, <1>5, <1>6, <1>7, <1>8, <1>9, <1>10 DEF Next

-----------------------------------------------------------------------------
(* Sessions and identities. *)

SessionsOK == session \in [Sessions -> SessionRow] /\ held \subseteq Sessions /\ SessionsEnd

(* A session is written or renewed within its end.                          *)
LEMMA SessionWritten ==
  ASSUME SessionsOK, NEW n \in Sessions, NEW x \in SessionRow, x.expires <= x.absolute,
         session' = [session EXCEPT ![n] = x], held' \subseteq Sessions
  PROVE  SessionsOK'
<1>1. session' \in [Sessions -> SessionRow]
  BY DEF SessionsOK
<1>2. \A m \in Sessions : session'[m] = IF m = n THEN x ELSE session[m]
  BY DEF SessionsOK
<1>3. SessionsEnd'
  BY <1>2 DEF SessionsOK, SessionsEnd
<1> QED
  BY <1>1, <1>3 DEF SessionsOK

LEMMA SignedOutEnds ==
  ASSUME SessionsOK, clock \in 1..MaxTime, NEW n \in Sessions, session' = SignedOut(n), UNCHANGED held
  PROVE  SessionsOK'
<1> DEFINE x == [session[n] EXCEPT !.revoked = clock]
<1>1. clock \in 0..MaxTime /\ session[n].expires <= session[n].absolute
  BY OAuthLoginAssumption DEF SessionsOK, SessionsEnd
<1>2. x \in SessionRow /\ x.expires <= x.absolute
  BY <1>1 DEF SessionsOK, SessionRow
<1>3. session' = session \/ session' = [session EXCEPT ![n] = x]
  BY DEF SignedOut
<1> HIDE DEF x
<1>4. CASE session' = session
  BY <1>4 DEF SessionsOK, SessionsEnd
<1> QED
  BY <1>2, <1>3, <1>4, SessionWritten DEF SessionsOK

(* What a step may do to the clock, the keys and the count of requests, and *)
(* which steps reach a person's row or an operator's session.               *)
Counts ==
  /\ UNCHANGED clock \/ (clock < MaxTime /\ clock' = clock + 1)
  /\ keyLive' \subseteq keyLive
  /\ UNCHANGED requests \/ Request

Outside == UNCHANGED <<identity, pinned>>
Apart == UNCHANGED <<session, held>>

LEMMA StepCounts ==
  ASSUME [Next]_vars
  PROVE  /\ Counts
         /\ \/ Outside
            \/ \E w \in Workers : Upsert(w) \/ SignUp(w) \/ WriteGrant(w)
            \/ \E i \in Identities : RevokeIdentity(i)
         /\ \/ Apart
            \/ \E w \in Workers :
                 \/ \E n \in Sessions : CreateOperatorSession(w, n)
                 \/ Renew(w) \/ Logout(w) \/ SwitchAccount(w) \/ AttachOperator(w) \/ FinishCockpitLogin(w)
            \/ Cleanup
<1>1. ASSUME NEW w \in Workers, NEW n \in Sessions, NEW then \in {"idle", "state", "logout"}, CurrentOperator(w, n, then)
      PROVE  Counts /\ Outside /\ Apart
  BY <1>1 DEF CurrentOperator, Arrive, Counts, Outside, Apart
<1>2. ASSUME NEW w \in Workers, NEW n \in Sessions, NEW s \in States, ReadConsent(w, n, s)
      PROVE  Counts /\ Outside /\ Apart
  BY <1>2 DEF ReadConsent, Arrive, Counts, Outside, Apart
<1>3. ASSUME NEW w \in Workers, NEW s \in States, Authorize(w, s) \/ StartSso(w, s) \/ ChildState(w, s)
      PROVE  Counts /\ Outside /\ Apart
  BY <1>3 DEF Authorize, StartSso, ChildState, Arrive, Counts, Outside, Apart
<1>4. ASSUME NEW w \in Workers, NEW s \in States, NEW k \in Keys, KeyLogin(w, s, k)
      PROVE  Counts /\ Outside /\ Apart
  BY <1>4 DEF KeyLogin, Arrive, Counts, Outside, Apart
<1>5. ASSUME NEW w \in Workers, NEW s \in States, NEW i \in Identities, Callback(w, s, i)
      PROVE  Counts /\ Outside /\ Apart
  BY <1>5 DEF Callback, Arrive, Counts, Outside, Apart
<1>6. ASSUME NEW w \in Workers, NEW i \in Identities, CreateIdentitySession(w, i)
      PROVE  Counts /\ Outside /\ Apart
  BY <1>6 DEF CreateIdentitySession, Arrive, Counts, Outside, Apart
<1>7. ASSUME NEW w \in Workers, NEW n \in Sessions, CreateOperatorSession(w, n)
      PROVE  Counts /\ Outside
  BY <1>7 DEF CreateOperatorSession, Arrive, Counts, Outside
<1>8. ASSUME NEW w \in Workers, NEW i \in Identities, NEW restore \in BOOLEAN, ReadGrant(w, i, restore)
      PROVE  Counts /\ Outside /\ Apart
  BY <1>8 DEF ReadGrant, Arrive, Counts, Outside, Apart
<1>9. ASSUME NEW w \in Workers, Renew(w) \/ Logout(w) \/ SwitchAccount(w)
      PROVE  Counts /\ Outside
  BY <1>9 DEF Renew, Logout, SwitchAccount, Counts, Outside
<1>17. ASSUME NEW w \in Workers, Approve(w) \/ Deny(w) \/ ResetState(w) \/ Die(w)
       PROVE  Counts /\ Outside /\ Apart
  BY <1>17 DEF Approve, Deny, ResetState, Die, Counts, Outside, Apart
<1>10. ASSUME NEW w \in Workers, IdpAnswers(w) \/ Admit(w) \/ Mark(w) \/ MintKey(w)
       PROVE  Counts /\ Outside /\ Apart
  BY <1>10 DEF IdpAnswers, Admit, Mark, MintKey, Counts, Outside, Apart
<1>11. ASSUME NEW w \in Workers, AttachOperator(w) \/ FinishCockpitLogin(w)
       PROVE  Counts /\ Outside
  BY <1>11 DEF AttachOperator, FinishCockpitLogin, Counts, Outside
<1>12. ASSUME NEW w \in Workers, Upsert(w) \/ SignUp(w) \/ WriteGrant(w)
       PROVE  Counts /\ Apart
  BY <1>12 DEF Upsert, SignUp, WriteGrant, Counts, Apart
<1>13. ASSUME NEW s \in States, NEW purpose \in {"oauth", "cockpit"}, OpenFunnel(s, purpose)
       PROVE  Counts /\ Outside /\ Apart
  BY <1>13 DEF OpenFunnel, Counts, Outside, Apart
<1>14. ASSUME NEW i \in Identities, RevokeIdentity(i)
       PROVE  Counts /\ Apart
  BY <1>14 DEF RevokeIdentity, Counts, Apart
<1>15. ASSUME NEW k \in Keys, RevokeKey(k)
       PROVE  Counts /\ Outside /\ Apart
  BY <1>15 DEF RevokeKey, Counts, Outside, Apart
<1>16. ASSUME Tick \/ UNCHANGED vars
       PROVE  Counts /\ Outside /\ Apart
  BY <1>16 DEF Tick, vars, Counts, Outside, Apart
<1>18. ASSUME Cleanup
       PROVE  Counts /\ Outside
  BY <1>18 DEF Cleanup, Counts, Outside
<1> QED
  BY <1>1, <1>2, <1>3, <1>4, <1>5, <1>6, <1>7, <1>8, <1>9, <1>10, <1>11, <1>12, <1>13, <1>14, <1>15,
     <1>16, <1>17, <1>18 DEF Next

LEMMA SessionsStep == TypeOK /\ SessionsEnd /\ WorkersOK /\ [Next]_vars => SessionsOK'
<1> SUFFICES ASSUME TypeOK, SessionsEnd, WorkersOK, [Next]_vars PROVE SessionsOK'
  OBVIOUS
<1>a. SessionsOK /\ clock \in 1..MaxTime
  BY DEF TypeOK, SessionsOK
<1>b. \A w \in Workers : worker[w] \in WorkerState /\ Carries(worker[w])
  BY DEF WorkersOK
<1>1. ASSUME NEW w \in Workers, Renew(w) PROVE SessionsOK'
  <2> DEFINE n == worker[w].n
             x == [session[n] EXCEPT !.expires = Renewed(n)]
  <2>1. n \in Sessions /\ UNCHANGED held
    BY <1>1, <1>b DEF Renew, Carries
  <2>2. session[n] \in SessionRow
    BY <1>a, <2>1 DEF SessionsOK
  <2>3. Renewed(n) \in Nat /\ Renewed(n) <= session[n].absolute
    BY <1>a, <2>2, OAuthLoginAssumption DEF SessionRow, Renewed
  <2>4. x \in SessionRow /\ x.expires <= x.absolute
    BY <2>2, <2>3 DEF SessionRow
  <2>5. session' = session \/ session' = [session EXCEPT ![n] = x]
    BY <1>1 DEF Renew
  <2> HIDE DEF x, n
  <2>6. CASE session' = session
    BY <1>a, <2>1, <2>6 DEF SessionsOK, SessionsEnd
  <2> QED
    BY <1>a, <2>1, <2>4, <2>5, <2>6, SessionWritten DEF SessionsOK
<1>2. ASSUME NEW w \in Workers, Logout(w) \/ SwitchAccount(w) PROVE SessionsOK'
  <2>1. worker[w].n \in Sessions
    BY <1>2, <1>b DEF Logout, SwitchAccount, Carries
  <2> QED
    BY <1>2, <1>a, <2>1, SignedOutEnds DEF Logout, SwitchAccount
<1>3. ASSUME NEW w \in Workers, NEW n \in Sessions, CreateOperatorSession(w, n) PROVE SessionsOK'
  <2> DEFINE x == [present |-> TRUE, who |-> worker[w].who, expires |-> clock + IdleTtl,
                   absolute |-> clock + AbsoluteTtl, revoked |-> 0]
  <2>1. /\ clock + IdleTtl \in Nat /\ clock + AbsoluteTtl \in Nat
        /\ clock + IdleTtl <= clock + AbsoluteTtl /\ 0 \in 0..MaxTime
    BY <1>a, OAuthLoginAssumption
  <2>2. worker[w].who \in Principals
    BY <1>3, <1>b DEF CreateOperatorSession, Carries
  <2>3. x \in SessionRow /\ x.expires <= x.absolute
    BY <2>1, <2>2 DEF SessionRow
  <2>4. session' = [session EXCEPT ![n] = x] /\ held' \subseteq Sessions
    BY <1>3, <1>a DEF CreateOperatorSession, SessionsOK
  <2> HIDE DEF x
  <2> QED
    BY <1>a, <2>3, <2>4, SessionWritten
<1>4. ASSUME NEW w \in Workers, AttachOperator(w) \/ FinishCockpitLogin(w) PROVE SessionsOK'
  <2>1. worker[w].n \in Sessions
    BY <1>4, <1>b DEF AttachOperator, FinishCockpitLogin, Carries
  <2> QED
    BY <1>4, <1>a, <2>1 DEF AttachOperator, FinishCockpitLogin, SessionsOK, SessionsEnd
<1>5. CASE Cleanup
  <2> DEFINE N == {n \in Sessions : session[n].present /\ (Old(session[n].absolute) \/ Old(session[n].revoked))}
  <2>1. session' = [n \in Sessions |-> [session[n] EXCEPT !.present = @ /\ n \notin N]] /\ UNCHANGED held
    BY <1>5 DEF Cleanup
  <2> HIDE DEF N
  <2>2. ASSUME NEW n \in Sessions
        PROVE  session'[n] \in SessionRow /\ session'[n].expires <= session'[n].absolute
    <3>1. session[n] \in SessionRow /\ session[n].expires <= session[n].absolute
      BY <1>a DEF SessionsOK, SessionsEnd
    <3>2. session'[n] = [session[n] EXCEPT !.present = session[n].present /\ n \notin N]
      BY <2>1
    <3>3. (session[n].present /\ n \notin N) \in BOOLEAN
      OBVIOUS
    <3> QED
      BY <3>1, <3>2, <3>3 DEF SessionRow
  <2> QED
    BY <1>a, <2>1, <2>2 DEF SessionsOK, SessionsEnd
<1>6. CASE Apart
  BY <1>a, <1>6 DEF Apart, SessionsOK, SessionsEnd
<1> QED
  BY <1>1, <1>2, <1>3, <1>4, <1>5, <1>6, StepCounts

(* What a step may do to the row of identity i: a login writes it while it  *)
(* is not revoked, from the upsert it came to as a mirrored identity or as  *)
(* a first row; an operator writes it, and alone clears revoked_at.         *)
IdentityMove(i) ==
  /\ identity[i].row => identity'[i].row
  /\ \/ identity'[i] = identity[i]
     \/ /\ ~identity[i].revoked
        /\ \/ ~identity[i].row
           \/ \E w \in Workers : worker[w].pc = "upsert" /\ worker[w].who = i
     \/ /\ identity'[i].source = "admin"
        /\ \/ identity'[i].revoked = identity[i].revoked
           \/ \E w \in Workers : worker[w].pc = "write" /\ worker[w].who = i /\ worker[w].restore
     \/ identity'[i].source = identity[i].source /\ identity'[i].revoked
  /\ i \in pinned' =>
       \/ i \in pinned
       \/ /\ identity'[i].row /\ identity'[i].source = "admin"
          /\ \A w \in Workers : ~(worker'[w].pc = "upsert" /\ worker'[w].who = i)

IdentitiesOK ==
  /\ identity \in [Identities -> IdentityRow]
  /\ pinned \subseteq Identities
  /\ \A i \in Identities : identity[i].revoked => identity[i].row

IdentityMoves == IdentitiesOK' /\ \A i \in Identities : IdentityMove(i)

LEMMA IdentitiesStep == TypeOK /\ IdentitiesOK /\ WorkersOK /\ [Next]_vars => IdentityMoves
<1> SUFFICES ASSUME TypeOK, IdentitiesOK, WorkersOK, [Next]_vars PROVE IdentityMoves
  OBVIOUS
<1>b. \A w \in Workers : worker[w] \in WorkerState /\ Carries(worker[w])
  BY DEF WorkersOK
<1>1. ASSUME NEW w \in Workers, NEW i \in Identities, NEW x \in IdentityRow,
             x.row, ~x.revoked, i = worker[w].who, ~identity[i].revoked,
             ~identity[i].row \/ worker[w].pc = "upsert",
             identity' = [identity EXCEPT ![i] = x], UNCHANGED pinned
      PROVE  IdentityMoves
  <2>1. IdentitiesOK'
    BY <1>1 DEF IdentitiesOK
  <2>2. \A j \in Identities : identity'[j] = IF j = i THEN x ELSE identity[j]
    BY <1>1 DEF IdentitiesOK
  <2> QED
    BY <1>1, <2>1, <2>2 DEF IdentityMoves, IdentityMove
<1>2. CASE UNCHANGED <<identity, pinned>>
  BY <1>2 DEF IdentitiesOK, IdentityMoves, IdentityMove
<1>3. ASSUME NEW w \in Workers, Upsert(w) PROVE IdentityMoves
  <2> DEFINE i == worker[w].who
             x == [row |-> TRUE, revoked |-> FALSE, source |-> "bootstrap"]
  <2>1. i \in Identities /\ worker[w].pc = "upsert" /\ UNCHANGED pinned
    BY <1>3, <1>b DEF Upsert, Carries
  <2>2. x \in IdentityRow /\ x.row /\ ~x.revoked
    BY DEF IdentityRow
  <2>3. UNCHANGED identity \/ (~identity[i].revoked /\ identity' = [identity EXCEPT ![i] = x])
    BY <1>3 DEF Upsert
  <2> HIDE DEF x
  <2> QED
    BY <1>1, <1>2, <2>1, <2>2, <2>3
<1>4. ASSUME NEW w \in Workers, SignUp(w) PROVE IdentityMoves
  <2> DEFINE i == worker[w].who
             x == [row |-> TRUE, revoked |-> FALSE, source |-> "signup"]
  <2>1. i \in Identities /\ UNCHANGED pinned
    BY <1>4, <1>b DEF SignUp, Carries
  <2>2. x \in IdentityRow /\ x.row /\ ~x.revoked
    BY DEF IdentityRow
  <2>3. UNCHANGED identity \/ (~identity[i].row /\ identity' = [identity EXCEPT ![i] = x])
    BY <1>4 DEF SignUp
  <2>4. ~identity[i].row => ~identity[i].revoked
    BY <2>1 DEF IdentitiesOK
  <2> HIDE DEF x
  <2> QED
    BY <1>1, <1>2, <2>1, <2>2, <2>3, <2>4
<1>5. ASSUME NEW w \in Workers, WriteGrant(w) PROVE IdentityMoves
  <2> DEFINE i == worker[w].who
             x == [row |-> TRUE, revoked |-> identity[i].revoked /\ ~worker[w].restore, source |-> "admin"]
             clash == ~worker[w].saw /\ identity[i].row
  <2>1. i \in Identities /\ worker[w].pc = "write" /\ Done(w)
    BY <1>5, <1>b DEF WriteGrant, Carries
  <2>2. identity[i] \in IdentityRow /\ worker[w].restore \in BOOLEAN
    BY <1>b, <2>1 DEF IdentitiesOK, WorkerState
  <2>3. /\ x \in IdentityRow /\ x.row /\ x.source = "admin"
        /\ x.revoked = identity[i].revoked \/ worker[w].restore
    BY <2>2 DEF IdentityRow
  <2>4. CASE clash
    BY <1>2, <1>5, <2>4 DEF WriteGrant
  <2>5. CASE ~clash
    <3>1. identity' = [identity EXCEPT ![i] = x]
      BY <1>5, <2>5 DEF WriteGrant
    <3>2. \/ pinned' = pinned
          \/ pinned' = pinned \cup {i} /\ \A v \in Workers : ~(worker[v].pc = "upsert" /\ worker[v].who = i)
      BY <1>5, <2>5 DEF WriteGrant
    <3> HIDE DEF x
    <3>3. IdentitiesOK'
      BY <2>1, <2>3, <3>1, <3>2 DEF IdentitiesOK
    <3>4. \A j \in Identities : identity'[j] = IF j = i THEN x ELSE identity[j]
      BY <3>1 DEF IdentitiesOK
    <3>5. \A v \in Workers : worker'[v] = worker[v] \/ worker'[v].pc # "upsert"
      BY <2>1 DEF Done, WorkersOK, Idle
    <3>6. \A j \in Identities : j \in pinned' => j \in pinned \/ j = i
      BY <3>2
    <3>7. i \in pinned' => i \in pinned \/ \A v \in Workers : ~(worker'[v].pc = "upsert" /\ worker'[v].who = i)
      BY <3>2, <3>5
    <3> QED
      BY <2>1, <2>3, <3>3, <3>4, <3>6, <3>7 DEF IdentityMoves, IdentityMove
  <2> QED
    BY <2>4, <2>5
<1>6. ASSUME NEW i \in Identities, RevokeIdentity(i) PROVE IdentityMoves
  <2> DEFINE x == [identity[i] EXCEPT !.revoked = TRUE]
  <2>1. identity' = [identity EXCEPT ![i] = x] /\ identity[i].row /\ UNCHANGED pinned
    BY <1>6 DEF RevokeIdentity
  <2>2. x \in IdentityRow /\ x.row /\ x.revoked /\ x.source = identity[i].source
    BY <2>1 DEF IdentitiesOK, IdentityRow
  <2> HIDE DEF x
  <2>3. \A j \in Identities : identity'[j] = IF j = i THEN x ELSE identity[j]
    BY <2>1 DEF IdentitiesOK
  <2>4. IdentitiesOK'
    BY <2>1, <2>2 DEF IdentitiesOK
  <2> QED
    BY <2>1, <2>2, <2>3, <2>4 DEF IdentityMoves, IdentityMove
<1>7. CASE Outside
  BY <1>2, <1>7 DEF Outside
<1> QED
  BY <1>3, <1>4, <1>5, <1>6, <1>7, StepCounts

-----------------------------------------------------------------------------
(* The invariant. *)

(* A row that was never written is not consumed, and only a consumed state  *)
(* has an outcome.                                                          *)
StateBooks ==
  \A s \in States :
    /\ state[s].present => state[s].expires # 0
    /\ state[s].expires = 0 => state[s].consumed = 0
    /\ state[s].consumed = 0 => outcome[s] = 0
    /\ outcome[s] <= 1

(* An operator's grant is in force, and no login is about to write it.      *)
GrantBooks ==
  \A i \in pinned :
    /\ identity[i].row
    /\ identity[i].source = "admin"
    /\ \A w \in Workers : ~(worker[w].pc = "upsert" /\ worker[w].who = i)

Books == TypeOK /\ WorkersOK /\ IdentitiesOK /\ SessionsEnd /\ StateBooks /\ GrantBooks

LEMMA BooksSuffice == Books => LoginInv
BY DEF Books, LoginInv, StateBooks, OneOutcomePerState, GrantBooks, OperatorGrantKept

LEMMA BooksStart == Init => Books
<1> SUFFICES ASSUME Init PROVE Books
  OBVIOUS
<1>1. NoState \in LoginState /\ NoSession \in SessionRow /\ Idle \in WorkerState /\ Carries(Idle)
  BY OAuthLoginAssumption DEF NoState, NoSession, Idle, LoginState, SessionRow, WorkerState, Carries
<1>2. [row |-> FALSE, revoked |-> FALSE, source |-> "bootstrap"] \in IdentityRow
  BY DEF IdentityRow
<1>3. TypeOK
  BY <1>1, <1>2, OAuthLoginAssumption DEF Init, TypeOK
<1>4. WorkersOK
  BY <1>1 DEF Init, WorkersOK
<1>5. IdentitiesOK
  BY <1>2 DEF Init, IdentitiesOK
<1>6. SessionsEnd
  BY DEF Init, SessionsEnd, NoSession
<1>7. StateBooks
  BY DEF Init, StateBooks, NoState
<1>8. GrantBooks
  BY DEF Init, GrantBooks
<1> QED
  BY <1>3, <1>4, <1>5, <1>6, <1>7, <1>8 DEF Books

(* The clock, the keys and the count of requests keep their types.          *)
LEMMA CountersStep ==
  TypeOK /\ [Next]_vars => clock' \in 1..MaxTime /\ keyLive' \subseteq Keys /\ requests' \in 0..MaxRequests
<1> SUFFICES ASSUME TypeOK, [Next]_vars
             PROVE  clock' \in 1..MaxTime /\ keyLive' \subseteq Keys /\ requests' \in 0..MaxRequests
  OBVIOUS
<1>1. /\ UNCHANGED clock \/ (clock < MaxTime /\ clock' = clock + 1)
      /\ keyLive' \subseteq keyLive
      /\ UNCHANGED requests \/ Request
  BY StepCounts DEF Counts
<1> QED
  BY <1>1, OAuthLoginAssumption DEF TypeOK, Request

LEMMA BooksStep == Books /\ [Next]_vars => Books'
<1> SUFFICES ASSUME Books, [Next]_vars PROVE Books'
  OBVIOUS
<1>1. TypeOK /\ WorkersOK /\ IdentitiesOK /\ SessionsEnd /\ StateBooks /\ GrantBooks
  BY DEF Books
<1>2. Moves /\ StateMoves /\ SessionsOK' /\ IdentityMoves
  BY <1>1, MovesStep, StatesStep, SessionsStep, IdentitiesStep
<1>3. WorkersOK' /\ IdentitiesOK' /\ SessionsEnd' /\ StatesOK'
  BY <1>2 DEF Moves, StateMoves, SessionsOK, IdentityMoves
<1>4. TypeOK'
  BY <1>1, <1>2, <1>3, CountersStep DEF TypeOK, WorkersOK, IdentitiesOK, SessionsOK, StatesOK
<1>5. StateBooks'
  <2> SUFFICES ASSUME NEW s \in States
               PROVE  /\ state'[s].present => state'[s].expires # 0
                      /\ state'[s].expires = 0 => state'[s].consumed = 0
                      /\ state'[s].consumed = 0 => outcome'[s] = 0
                      /\ outcome'[s] <= 1
    BY DEF StateBooks
  <2>1. StateMove(s)
    BY <1>2 DEF StateMoves
  <2>2. state[s] \in LoginState /\ outcome[s] \in Nat
    BY <1>1 DEF TypeOK
  <2>3. /\ [state[s] EXCEPT !.present = FALSE].present = FALSE
        /\ [state[s] EXCEPT !.present = FALSE].expires = state[s].expires
        /\ [state[s] EXCEPT !.present = FALSE].consumed = state[s].consumed
    BY <2>2 DEF LoginState
  <2>4. /\ state[s].present => state[s].expires # 0
        /\ state[s].expires = 0 => state[s].consumed = 0
        /\ state[s].consumed = 0 => outcome[s] = 0
        /\ outcome[s] <= 1
    BY <1>1 DEF StateBooks
  <2>5. CASE outcome'[s] = outcome[s] /\ state'[s] = state[s]
    BY <2>4, <2>5
  <2>6. CASE outcome'[s] = outcome[s] /\ state'[s] = [state[s] EXCEPT !.present = FALSE]
    BY <2>3, <2>4, <2>6
  <2>7. CASE /\ outcome'[s] = outcome[s]
             /\ state[s].expires = 0 /\ state'[s].expires # 0 /\ state'[s].consumed = 0
    BY <2>4, <2>7
  <2>8. CASE /\ Unconsumed(s)
             /\ state'[s].expires = state[s].expires
             /\ \/ outcome'[s] = outcome[s]
                \/ state'[s].consumed # 0 /\ outcome'[s] \in {outcome[s], outcome[s] + 1}
    BY <2>2, <2>4, <2>8 DEF Unconsumed
  <2> QED
    BY <2>1, <2>5, <2>6, <2>7, <2>8 DEF StateMove
<1>6. GrantBooks'
  <2> SUFFICES ASSUME NEW i \in pinned'
               PROVE  /\ identity'[i].row
                      /\ identity'[i].source = "admin"
                      /\ \A w \in Workers : ~(worker'[w].pc = "upsert" /\ worker'[w].who = i)
    BY DEF GrantBooks
  <2>1. i \in Identities
    BY <1>3 DEF IdentitiesOK
  <2>2. IdentityMove(i)
    BY <1>2, <2>1 DEF IdentityMoves
  <2>3. CASE i \in pinned
    <3>1. /\ identity[i].row
          /\ identity[i].source = "admin"
          /\ \A w \in Workers : ~(worker[w].pc = "upsert" /\ worker[w].who = i)
      BY <1>1, <2>3 DEF GrantBooks
    <3>2. identity'[i].row /\ identity'[i].source = "admin"
      BY <2>2, <3>1 DEF IdentityMove
    <3>3. ~Mirrored(i)
      BY <3>1 DEF Mirrored
    <3>4. \A w \in Workers : WorkerMove(w)
      BY <1>2 DEF Moves
    <3> QED
      BY <3>1, <3>2, <3>3, <3>4 DEF WorkerMove
  <2>4. CASE i \notin pinned
    BY <2>2, <2>4 DEF IdentityMove
  <2> QED
    BY <2>3, <2>4
<1> QED
  BY <1>3, <1>4, <1>5, <1>6 DEF Books

(* Whatever requests interleave, a login state, a session and an identity  *)
(* agree with what the requests in flight read of them: the invariant the  *)
(* results about logins rest on.                                           *)
THEOREM LoginBooks == Spec => []Books
<1>1. Init => Books
  BY BooksStart
<1>2. Books /\ [Next]_vars => Books'
  BY BooksStep
<1> QED
  BY <1>1, <1>2, PTL DEF Spec

-----------------------------------------------------------------------------
(* The promises of the login. *)

(* Whatever requests race on a login state it has one outcome; a grant the  *)
(* operator has written is never taken back to the allowlist by a login     *)
(* that starts later; a session ends (LoginInv).                            *)
THEOREM LoginHolds == Spec => []LoginInv
BY LoginBooks, BooksSuffice, PTL

(* A login in flight revives nothing: no writer changes a login state after *)
(* it was consumed, and none but a PUT with restore re-admits a revoked     *)
(* identity (NothingRevived).                                               *)
THEOREM LoginRevivesNothing == Spec => NothingRevived
<1>1. Books /\ [Next]_vars =>
        [\A s \in States :
           state[s].consumed # 0 => state'[s] \in {state[s], [state[s] EXCEPT !.present = FALSE]}]_vars
  <2> SUFFICES ASSUME Books, [Next]_vars, NEW s \in States, state[s].consumed # 0
               PROVE  state'[s] \in {state[s], [state[s] EXCEPT !.present = FALSE]}
    OBVIOUS
  <2>1. StateMove(s)
    BY StatesStep DEF Books, StateMoves
  <2>2. state[s].expires # 0
    BY DEF Books, StateBooks
  <2> QED
    BY <2>1, <2>2 DEF StateMove, Unconsumed
<1>2. Books /\ [Next]_vars =>
        [\A i \in Identities :
           (identity[i].revoked /\ ~identity'[i].revoked)
             => \E w \in Workers : worker[w].pc = "write" /\ worker[w].who = i /\ worker[w].restore]_vars
  <2> SUFFICES ASSUME Books, [Next]_vars, NEW i \in Identities, identity[i].revoked, ~identity'[i].revoked
               PROVE  \E w \in Workers : worker[w].pc = "write" /\ worker[w].who = i /\ worker[w].restore
    OBVIOUS
  <2>1. IdentityMove(i)
    BY IdentitiesStep DEF Books, IdentityMoves
  <2> QED
    BY <2>1 DEF IdentityMove
<1> QED
  BY <1>1, <1>2, LoginBooks, PTL DEF Spec, NothingRevived, ConsumedIsFinal, OnlyRestoreReadmits

=============================================================================
