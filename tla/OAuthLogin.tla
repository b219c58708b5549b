---------------------------- MODULE OAuthLogin ----------------------------
(***************************************************************************)
(* The login half of the OAuth server (src/src/oauth/server.ts): single-   *)
(* use login states, the two ways to sign in (an API key, an OIDC          *)
(* provider), the admission of an identity (with PUT and DELETE            *)
(* /v1/identities of http/routes.ts), operator sessions with an idle       *)
(* and an absolute deadline, and the consent that turns a state into an    *)
(* authorization code, where OAuthTokens goes on.                          *)
(*                                                                         *)
(* Every handler is a chain of single statements with awaits between them: *)
(* one action per statement that decides or writes.                        *)
(***************************************************************************)
EXTENDS Integers

CONSTANTS
  Workers,      \* requests in flight at a time
  Identities,   \* subjects of the OIDC provider
  Keys,         \* API keys
  Allowed,      \* the identities on the provider's allowlist
  Signup,       \* config.oauthSignupEnabled
  StateTtl,     \* the ten minutes of a login state
  IdleTtl,      \* OPERATOR_SESSION_IDLE_MS
  AbsoluteTtl,  \* config.oauthOperatorSessionAbsoluteTtlMs
  Retention,    \* how long the sweep keeps a dead row
  MaxStates,    \* bound: login states written
  MaxSessions,  \* bound: sessions written
  MaxRequests,  \* bound: requests made
  MaxTime       \* bound: the last instant

ASSUME OAuthLoginAssumption ==
  /\ Allowed \subseteq Identities
  /\ Identities \cap Keys = {}
  /\ Signup \in BOOLEAN
  /\ StateTtl \in Nat
  /\ IdleTtl \in Nat
  /\ AbsoluteTtl \in Nat
  /\ IdleTtl <= AbsoluteTtl   \* config.ts refuses to start otherwise
  /\ Retention \in Nat
  /\ MaxStates \in Nat
  /\ MaxSessions \in Nat
  /\ MaxRequests \in Nat
  /\ MaxTime \in Nat \ {0}

VARIABLES
  clock,
  identity,  \* identity[i]: the row of wk_oauth_identities
  keyLive,   \* the API keys not revoked
  state,     \* state[s]: a row of wk_oauth_login_states
  session,   \* session[n]: a row of wk_oauth_operator_sessions
  held,      \* the sessions whose cookie reached a browser
  worker,    \* worker[w]: where a request is
  requests,  \* requests made so far
  outcome,   \* outcome[s]: codes and cockpit cookies that came of state s (a ghost)
  pinned     \* identities a PUT wrote with no login about to write (a ghost)

vars == <<clock, identity, keyLive, state, session, held, worker, requests, outcome, pinned>>

-----------------------------------------------------------------------------
(* State *)

States == 1..MaxStates
Sessions == 1..MaxSessions
Principals == Identities \cup Keys
Nobody == "nobody"

IdentityRow == [row : BOOLEAN, revoked : BOOLEAN, source : {"bootstrap", "signup", "admin"}]
(* expires is 0 for a row not written yet; sso: it carries nonce and PKCE  *)
(* verifier of one click on "Continue with SSO"                            *)
LoginState ==
  [present : BOOLEAN, purpose : {"oauth", "cockpit"}, sso : BOOLEAN,
   subject : Principals \cup {Nobody}, expires : Nat, consumed : 0..MaxTime]
SessionRow == [present : BOOLEAN, who : Principals \cup {Nobody}, expires : Nat, absolute : Nat, revoked : 0..MaxTime]
WorkerState ==
  [pc : {"idle", "renew", "state", "logout", "decide", "reset", "child", "idp", "admit", "upsert", "signup",
         "mark", "mint", "attach", "finish", "write"},
   then : {"idle", "state", "logout", "decide"},
   s : 0..MaxStates, n : 0..MaxSessions, who : Principals \cup {Nobody}, restore : BOOLEAN, saw : BOOLEAN]

NoState == [present |-> FALSE, purpose |-> "oauth", sso |-> FALSE, subject |-> Nobody, expires |-> 0, consumed |-> 0]
NoSession == [present |-> FALSE, who |-> Nobody, expires |-> 0, absolute |-> 0, revoked |-> 0]
Idle == [pc |-> "idle", then |-> "idle", s |-> 0, n |-> 0, who |-> Nobody, restore |-> FALSE, saw |-> FALSE]

(* The rows and the worker records have the declared shape.                *)
TypeOK ==
  /\ clock \in 1..MaxTime
  /\ identity \in [Identities -> IdentityRow]
  /\ keyLive \subseteq Keys
  /\ state \in [States -> LoginState]
  /\ session \in [Sessions -> SessionRow]
  /\ held \subseteq Sessions
  /\ worker \in [Workers -> WorkerState]
  /\ requests \in 0..MaxRequests
  /\ outcome \in [States -> Nat]
  /\ pinned \subseteq Identities

Init ==
  /\ clock = 1
  /\ identity = [i \in Identities |-> [row |-> FALSE, revoked |-> FALSE, source |-> "bootstrap"]]
  /\ keyLive = Keys
  /\ state = [s \in States |-> NoState]
  /\ session = [n \in Sessions |-> NoSession]
  /\ held = {}
  /\ worker = [w \in Workers |-> Idle]
  /\ requests = 0
  /\ outcome = [s \in States |-> 0]
  /\ pinned = {}

-----------------------------------------------------------------------------
(* Helpers *)

Request == requests < MaxRequests /\ requests' = requests + 1
Arrive(w) == worker[w] = Idle /\ Request
Goto(w, pc) == worker' = [worker EXCEPT ![w].pc = pc]
Done(w) == worker' = [worker EXCEPT ![w] = Idle]

(* identityCeiling, and the key lookup of currentOperator                  *)
Stands(p) == p \in keyLive \/ (p \in Identities /\ identity[p].row /\ ~identity[p].revoked)

(* provider_id of an operator, 'api_key' for a key                         *)
Kind(p) == IF p \in Keys THEN "api_key" ELSE "oidc"

(* loadLoginState                                                          *)
Loads(s) == state[s].present /\ state[s].consumed = 0 /\ state[s].expires > clock

(* no filter                                                               *)
UnconsumedOrNot(s) == state[s].present

(* the conditional UPDATE's filter { consumed_at: 'is.null' }              *)
Unconsumed(s) == state[s].present /\ state[s].consumed = 0

Fresh(s) == state[s].expires = 0 /\ \A t \in 1..(s - 1) : state[t].expires # 0
FreshSession(n) == session[n].expires = 0 /\ \A m \in 1..(n - 1) : session[m].expires # 0

-----------------------------------------------------------------------------
(* currentOperator and the handlers that begin with it *)

(* the session is read and its principal checked                           *)
Usable(n) ==
  /\ session[n].present
  /\ session[n].revoked = 0
  /\ session[n].expires > clock
  /\ session[n].absolute > clock
  /\ Stands(session[n].who)

(* GET /v1/session and cockpit-login of somebody signed in ("idle"),       *)
(* GET authorize ("state"), DELETE /v1/session and logout ("logout")       *)
CurrentOperator(w, n, then) ==
  /\ Arrive(w)
  /\ n \in held
  /\ Usable(n)
  /\ worker' = [worker EXCEPT ![w] = [Idle EXCEPT !.pc = "renew", !.then = then, !.n = n]]
  /\ UNCHANGED <<clock, identity, keyLive, state, session, held, outcome, pinned>>

(* POST authorize/decision reads the state first                           *)
ReadConsent(w, n, s) ==
  /\ Arrive(w)
  /\ Loads(s)
  /\ state[s].subject # Nobody
  /\ n \in held
  /\ Usable(n)
  /\ Kind(session[n].who) = Kind(state[s].subject)
  /\ state[s].purpose = "oauth"
  /\ worker' = [worker EXCEPT ![w] = [Idle EXCEPT !.pc = "renew", !.then = "decide", !.n = n, !.s = s]]
  /\ UNCHANGED <<clock, identity, keyLive, state, session, held, outcome, pinned>>

(* least(absolute_expires_at, now() + interval '8 hours')                  *)
Renewed(n) == IF session[n].absolute < clock + IdleTtl THEN session[n].absolute ELSE clock + IdleTtl

(* the idle deadline moves: WHERE id = $1, whatever happened to the row    *)
(* since it was read                                                       *)
Renew(w) ==
  LET n == worker[w].n IN
  /\ worker[w].pc = "renew"
  /\ session' = IF session[n].present THEN [session EXCEPT ![n].expires = Renewed(n)] ELSE session
  /\ worker' = IF worker[w].then = "idle" THEN [worker EXCEPT ![w] = Idle]
                                          ELSE [worker EXCEPT ![w].pc = worker[w].then]
  /\ UNCHANGED <<clock, identity, keyLive, state, held, requests, outcome, pinned>>

(* the revocation of the caller's own session                              *)
SignedOut(n) ==
  IF session[n].present /\ session[n].revoked = 0
  THEN [session EXCEPT ![n].revoked = clock] ELSE session

Logout(w) ==
  /\ worker[w].pc = "logout"
  /\ session' = SignedOut(worker[w].n)
  /\ Done(w)
  /\ UNCHANGED <<clock, identity, keyLive, state, held, requests, outcome, pinned>>

WriteState(s, purpose, sso, subject) ==
  state' = [state EXCEPT ![s] =
    [present |-> TRUE, purpose |-> purpose, sso |-> sso, subject |-> subject,
     expires |-> clock + StateTtl, consumed |-> 0]]

(* GET authorize and cockpit-login with nobody signed in                   *)
OpenFunnel(s, purpose) ==
  /\ Request
  /\ Fresh(s)
  /\ WriteState(s, purpose, FALSE, Nobody)
  /\ UNCHANGED <<clock, identity, keyLive, session, held, worker, outcome, pinned>>

(* GET authorize of an operator: straight to consent                       *)
Authorize(w, s) ==
  /\ worker[w].pc = "state"
  /\ Fresh(s)
  /\ WriteState(s, "oauth", FALSE, session[worker[w].n].who)
  /\ Done(w)
  /\ UNCHANGED <<clock, identity, keyLive, session, held, requests, outcome, pinned>>

-----------------------------------------------------------------------------
(* The decision *)

(* consumed_at is stamped if nobody has yet (s = 0: no state to stamp)     *)
Consume(s) == state' = IF s # 0 /\ Unconsumed(s) THEN [state EXCEPT ![s].consumed = clock] ELSE state

(* one transaction: the state is consumed and the code inserted, or        *)
(* neither                                                                 *)
Approve(w) ==
  LET s == worker[w].s IN
  /\ worker[w].pc = "decide"
  /\ Consume(s)
  /\ outcome' = IF Unconsumed(s) THEN [outcome EXCEPT ![s] = @ + 1] ELSE outcome
  /\ Done(w)
  /\ UNCHANGED <<clock, identity, keyLive, session, held, requests, pinned>>

Deny(w) ==
  /\ worker[w].pc = "decide"
  /\ Consume(worker[w].s)
  /\ Done(w)
  /\ UNCHANGED <<clock, identity, keyLive, session, held, requests, outcome, pinned>>

(* switch_account ends the session, then clears the state for another      *)
(* login                                                                   *)
SwitchAccount(w) ==
  /\ worker[w].pc = "decide"
  /\ session' = SignedOut(worker[w].n)
  /\ Goto(w, "reset")
  /\ UNCHANGED <<clock, identity, keyLive, state, held, requests, outcome, pinned>>

ResetState(w) ==
  LET s == worker[w].s IN
  /\ worker[w].pc = "reset"
  /\ state' = IF Unconsumed(s) THEN [state EXCEPT ![s].subject = Nobody, ![s].sso = FALSE] ELSE state
  /\ Done(w)
  /\ UNCHANGED <<clock, identity, keyLive, session, held, requests, outcome, pinned>>

-----------------------------------------------------------------------------
(* Signing in *)

(* POST login/start: the state and the key are good                        *)
KeyLogin(w, s, k) ==
  /\ Arrive(w)
  /\ Loads(s)
  /\ k \in keyLive
  /\ worker' = [worker EXCEPT ![w] = [Idle EXCEPT !.pc = "mint", !.s = s, !.who = k]]
  /\ UNCHANGED <<clock, identity, keyLive, state, session, held, outcome, pinned>>

(* GET login/start: every click on "Continue with SSO" gets a state of its *)
(* own, written after the provider's discovery was awaited                 *)
StartSso(w, s) ==
  /\ Arrive(w)
  /\ Loads(s)
  /\ worker' = [worker EXCEPT ![w] = [Idle EXCEPT !.pc = "child", !.s = s]]
  /\ UNCHANGED <<clock, identity, keyLive, state, session, held, outcome, pinned>>

ChildState(w, s) ==
  /\ worker[w].pc = "child"
  /\ Fresh(s)
  /\ WriteState(s, state[worker[w].s].purpose, TRUE, Nobody)
  /\ Done(w)
  /\ UNCHANGED <<clock, identity, keyLive, session, held, requests, outcome, pinned>>

(* GET login/callback for identity i                                       *)
Callback(w, s, i) ==
  /\ Arrive(w)
  /\ Loads(s)
  /\ state[s].sso
  /\ worker' = [worker EXCEPT ![w] = [Idle EXCEPT !.pc = "idp", !.s = s, !.who = i]]
  /\ UNCHANGED <<clock, identity, keyLive, state, session, held, outcome, pinned>>

(* POST /v1/identity/sessions: a verified assertion, and no login state    *)
CreateIdentitySession(w, i) ==
  /\ Arrive(w)
  /\ worker' = [worker EXCEPT ![w] = [Idle EXCEPT !.pc = "admit", !.who = i]]
  /\ UNCHANGED <<clock, identity, keyLive, state, session, held, outcome, pinned>>

(* the exchange with the provider (external) succeeds or fails             *)
IdpAnswers(w) ==
  /\ worker[w].pc = "idp"
  /\ \/ Goto(w, "admit") /\ state' = state
     \/ Done(w) /\ Consume(worker[w].s)
  /\ UNCHANGED <<clock, identity, keyLive, session, held, requests, outcome, pinned>>

(* the ENV allowlist is mirrored only while the row is missing or still    *)
(* 'bootstrap'                                                             *)
Mirrored(i) == i \in Allowed /\ (~identity[i].row \/ identity[i].source = "bootstrap")

(* admitOidcCallbackIdentity: what the row says now                        *)
Admit(w) ==
  LET i == worker[w].who
      denied == identity[i].revoked \/ (~Mirrored(i) /\ ~identity[i].row /\ ~Signup) IN
  /\ worker[w].pc = "admit"
  /\ IF denied
     THEN Done(w) /\ Consume(worker[w].s)
     ELSE /\ Goto(w, IF Mirrored(i) THEN "upsert" ELSE IF identity[i].row THEN "mark" ELSE "signup")
          /\ state' = state
  /\ UNCHANGED <<clock, identity, keyLive, session, held, requests, outcome, pinned>>

(* ON CONFLICT DO UPDATE without its WHERE                                 *)
UpsertBlindly(w) ==
  LET i == worker[w].who IN
  /\ worker[w].pc = "upsert"
  /\ identity' = [identity EXCEPT ![i] = [row |-> TRUE, revoked |-> FALSE, source |-> "bootstrap"]]
  /\ Goto(w, "mark")
  /\ UNCHANGED <<clock, keyLive, state, session, held, requests, outcome, pinned>>

(* INSERT ... ON CONFLICT DO UPDATE ... WHERE revoked_at IS NULL           *)
Upsert(w) ==
  LET i == worker[w].who IN
  /\ worker[w].pc = "upsert"
  /\ identity' = IF identity[i].revoked THEN identity
                 ELSE [identity EXCEPT ![i] = [row |-> TRUE, revoked |-> FALSE, source |-> "bootstrap"]]
  /\ Goto(w, "mark")
  /\ UNCHANGED <<clock, keyLive, state, session, held, requests, outcome, pinned>>

(* INSERT ... ON CONFLICT DO NOTHING                                       *)
SignUp(w) ==
  LET i == worker[w].who IN
  /\ worker[w].pc = "signup"
  /\ identity' = IF identity[i].row THEN identity
                 ELSE [identity EXCEPT ![i] = [row |-> TRUE, revoked |-> FALSE, source |-> "signup"]]
  /\ Goto(w, "mark")
  /\ UNCHANGED <<clock, keyLive, state, session, held, requests, outcome, pinned>>

(* the state is authenticated, unless it was consumed meanwhile            *)
Authenticated(s, p) == IF Unconsumed(s) THEN [state EXCEPT ![s].subject = p] ELSE state

Mark(w) ==
  LET s == worker[w].s IN
  /\ worker[w].pc = "mark"
  /\ s # 0
  /\ state' = Authenticated(s, worker[w].who)
  /\ IF Unconsumed(s) THEN Goto(w, "mint") ELSE Done(w)
  /\ UNCHANGED <<clock, identity, keyLive, session, held, requests, outcome, pinned>>

(* createIdentitySession mints a key bound to the grant instead (KeysOf of   *)
(* OAuthTokens)                                                            *)
MintKey(w) ==
  /\ worker[w].pc = "mark"
  /\ worker[w].s = 0
  /\ Done(w)
  /\ UNCHANGED <<clock, identity, keyLive, state, session, held, requests, outcome, pinned>>

(* createOperatorSession; the consent page of an SSO login carries the     *)
(* cookie at once                                                          *)
CreateOperatorSession(w, n) ==
  LET s == worker[w].s
      who == worker[w].who
      consent == who \in Identities /\ state[s].purpose = "oauth" IN
  /\ worker[w].pc = "mint"
  /\ FreshSession(n)
  /\ session' = [session EXCEPT ![n] =
       [present |-> TRUE, who |-> who, expires |-> clock + IdleTtl, absolute |-> clock + AbsoluteTtl, revoked |-> 0]]
  /\ held' = IF consent THEN held \cup {n} ELSE held
  /\ worker' = [worker EXCEPT ![w] =
       IF consent THEN Idle
       ELSE [@ EXCEPT !.pc = IF state[s].purpose = "cockpit" THEN "finish" ELSE "attach", !.n = n]]
  /\ UNCHANGED <<clock, identity, keyLive, state, requests, outcome, pinned>>

(* attachOperator, then the consent page                                   *)
AttachOperator(w) ==
  LET s == worker[w].s IN
  /\ worker[w].pc = "attach"
  /\ state' = Authenticated(s, worker[w].who)
  /\ held' = IF Unconsumed(s) THEN held \cup {worker[w].n} ELSE held
  /\ Done(w)
  /\ UNCHANGED <<clock, identity, keyLive, session, requests, outcome, pinned>>

(* finishCockpitLogin: who consumes the state gets the cookie              *)
FinishCockpitLogin(w) ==
  LET s == worker[w].s IN
  /\ worker[w].pc = "finish"
  /\ Consume(s)
  /\ held' = IF Unconsumed(s) THEN held \cup {worker[w].n} ELSE held
  /\ outcome' = IF Unconsumed(s) THEN [outcome EXCEPT ![s] = @ + 1] ELSE outcome
  /\ Done(w)
  /\ UNCHANGED <<clock, identity, keyLive, session, requests, pinned>>

-----------------------------------------------------------------------------
(* The operator's side, the sweep and time *)

(* PUT /v1/identities reads the row; a revoked one needs restore           *)
ReadGrant(w, i, restore) ==
  /\ Arrive(w)
  /\ identity[i].revoked => restore
  /\ worker' = [worker EXCEPT ![w] =
       [Idle EXCEPT !.pc = "write", !.who = i, !.restore = restore, !.saw = identity[i].row]]
  /\ UNCHANGED <<clock, identity, keyLive, state, session, held, outcome, pinned>>

(* ... and writes it: an INSERT of a row that has come since fails         *)
WriteGrant(w) ==
  LET i == worker[w].who
      clash == ~worker[w].saw /\ identity[i].row IN
  /\ worker[w].pc = "write"
  /\ identity' = IF clash THEN identity
                 ELSE [identity EXCEPT ![i] =
                        [row |-> TRUE, revoked |-> identity[i].revoked /\ ~worker[w].restore, source |-> "admin"]]
  /\ pinned' = IF clash \/ \E v \in Workers : worker[v].pc = "upsert" /\ worker[v].who = i
               THEN pinned ELSE pinned \cup {i}
  /\ Done(w)
  /\ UNCHANGED <<clock, keyLive, state, session, held, requests, outcome>>

(* DELETE /v1/identities/{provider}/{subject}: the row                     *)
RevokeIdentity(i) ==
  /\ Request
  /\ identity[i].row
  /\ ~identity[i].revoked
  /\ identity' = [identity EXCEPT ![i].revoked = TRUE]
  /\ UNCHANGED <<clock, keyLive, state, session, held, worker, outcome, pinned>>

(* DELETE /v1/keys/{id}                                                    *)
RevokeKey(k) ==
  /\ Request
  /\ k \in keyLive
  /\ keyLive' = keyLive \ {k}
  /\ UNCHANGED <<clock, identity, state, session, held, worker, outcome, pinned>>

(* cleanupOAuthRows, the login states and the sessions                     *)
Old(t) == t # 0 /\ t < clock - Retention
Cleanup ==
  LET S == {s \in States : state[s].present /\ (Old(state[s].expires) \/ Old(state[s].consumed))}
      N == {n \in Sessions : session[n].present /\ (Old(session[n].absolute) \/ Old(session[n].revoked))} IN
  /\ S # {} \/ N # {}
  /\ state' = [s \in States |-> [state[s] EXCEPT !.present = @ /\ s \notin S]]
  /\ session' = [n \in Sessions |-> [session[n] EXCEPT !.present = @ /\ n \notin N]]
  /\ UNCHANGED <<clock, identity, keyLive, held, worker, requests, outcome, pinned>>

Tick ==
  /\ clock < MaxTime
  /\ clock' = clock + 1
  /\ UNCHANGED <<identity, keyLive, state, session, held, worker, requests, outcome, pinned>>

(* a request dies between two statements                                   *)
Die(w) ==
  /\ worker[w] # Idle
  /\ Done(w)
  /\ UNCHANGED <<clock, identity, keyLive, state, session, held, requests, outcome, pinned>>

Next ==
  \/ \E w \in Workers :
       \/ \E n \in Sessions, then \in {"idle", "state", "logout"} : CurrentOperator(w, n, then)
       \/ \E n \in Sessions, s \in States : ReadConsent(w, n, s)
       \/ \E s \in States : Authorize(w, s) \/ StartSso(w, s) \/ ChildState(w, s)
       \/ \E s \in States, k \in Keys : KeyLogin(w, s, k)
       \/ \E s \in States, i \in Identities : Callback(w, s, i)
       \/ \E i \in Identities : CreateIdentitySession(w, i)
       \/ \E n \in Sessions : CreateOperatorSession(w, n)
       \/ \E i \in Identities, restore \in BOOLEAN : ReadGrant(w, i, restore)
       \/ Renew(w) \/ Logout(w) \/ Approve(w) \/ Deny(w) \/ SwitchAccount(w) \/ ResetState(w)
       \/ IdpAnswers(w) \/ Admit(w) \/ Upsert(w) \/ SignUp(w) \/ Mark(w) \/ MintKey(w)
       \/ AttachOperator(w) \/ FinishCockpitLogin(w) \/ WriteGrant(w) \/ Die(w)
  \/ \E s \in States, purpose \in {"oauth", "cockpit"} : OpenFunnel(s, purpose)
  \/ \E i \in Identities : RevokeIdentity(i)
  \/ \E k \in Keys : RevokeKey(k)
  \/ Cleanup
  \/ Tick

Spec == Init /\ [][Next]_vars

-----------------------------------------------------------------------------
(* Properties *)

(* A login state is good for one outcome: one authorization code, or one   *)
(* cookie for the cockpit, however many callbacks, key logins and          *)
(* decisions have loaded it before ("Single-use", server.ts 982-984).      *)
OneOutcomePerState == \A s \in States : outcome[s] <= 1

(* Nothing rewrites a login state after it was consumed, so the answer a   *)
(* client got for it stays the answer: every writer that read the state    *)
(* earlier is held off by consumed_at IS NULL.                             *)
ConsumedIsFinal ==
  [][\A s \in States :
       state[s].consumed # 0 => state'[s] \in {state[s], [state[s] EXCEPT !.present = FALSE]}]_vars

(* "a concurrent revoke must never be resurrected by an in-flight login"   *)
(* (server.ts 541-542): only a PUT that carries restore clears revoked_at. *)
OnlyRestoreReadmits ==
  [][\A i \in Identities :
       (identity[i].revoked /\ ~identity'[i].revoked)
         => \E w \in Workers : worker[w].pc = "write" /\ worker[w].who = i /\ worker[w].restore]_vars

(* "Operator-managed rows keep their stored ceiling" (server.ts 512-516):  *)
(* once a PUT has written the row no login that starts later takes it back *)
(* to the allowlist.  A login that had read it as 'bootstrap' and was      *)
(* about to write still does, which is why pinned leaves that case out.    *)
OperatorGrantKept == \A i \in pinned : identity[i].source = "admin"

(* However the renewals of concurrent requests interleave, a session's     *)
(* idle deadline never passes the absolute one it was born with            *)
(* (server.ts 752-768), so it ends at most AbsoluteTtl after the login.    *)
SessionsEnd == \A n \in Sessions : session[n].expires <= session[n].absolute

(* Types, and what every reachable state keeps: a login state has one      *)
(* outcome, an operator's grant stays one, a session has an end.           *)
LoginInv == TypeOK /\ OneOutcomePerState /\ OperatorGrantKept /\ SessionsEnd

(* A login in flight revives nothing: neither the login state somebody has *)
(* consumed nor the identity somebody has revoked since it read them.      *)
NothingRevived == ConsumedIsFinal /\ OnlyRestoreReadmits
=============================================================================
