---------------------------- MODULE OAuthTokens ----------------------------
(***************************************************************************)
(* The token half of the OAuth server (src/src/oauth/server.ts): a code is *)
(* exchanged once, a refresh token is rotated once, a replayed refresh     *)
(* token ends its whole family, POST /v1/oauth/revoke does so on request,  *)
(* DELETE /v1/identities ends everything an identity holds                 *)
(* (http/routes.ts), and the retention sweep (oauth/cleanup.ts) forgets.   *)
(*                                                                         *)
(* The database is PostgreSQL at READ COMMITTED, modelled at the level the *)
(* handlers depend on: a transaction's row locks, an UPDATE that picks its *)
(* rows from a snapshot and then waits for the locked ones, writes seen by *)
(* others at commit, and the deadlock detector.  A row waited for is       *)
(* re-read after the wait, so a SELECT ... FOR UPDATE is one step that is  *)
(* not enabled while another transaction holds the row.                    *)
(***************************************************************************)
EXTENDS Integers, FiniteSets

CONSTANTS
  Workers,      \* requests in flight at a time
  MaxCodes,     \* bound: authorization codes issued
  MaxTokens,    \* bound: token pairs issued
  MaxTime,      \* bound: the last instant
  MaxRequests,  \* bound: requests made
  Principals,   \* whom codes and tokens stand for: identities and API keys
  Identities,   \* the principals that are interactive identities
  KeysOf,       \* KeysOf[i]: the API keys minted for identity i (0029)
  CodeTtl,      \* config.oauthAuthorizationCodeTtlMs
  AccessTtl,    \* config.oauthAccessTokenTtlMs
  RefreshTtl,   \* config.oauthRefreshTokenTtlMs
  Retention     \* how long the sweep keeps a row nobody can use

Codes == 1..MaxCodes
Ids == 1..MaxTokens

ASSUME OAuthTokensAssumption ==
  /\ MaxCodes \in Nat
  /\ MaxTokens \in Nat
  /\ MaxTime \in Nat \ {0}
  /\ MaxRequests \in Nat
  /\ CodeTtl \in Nat
  /\ AccessTtl \in Nat
  /\ RefreshTtl \in Nat
  /\ Retention \in Nat
  /\ "nobody" \notin Principals
  /\ Identities \subseteq Principals
  /\ KeysOf \in [Identities -> SUBSET (Principals \ Identities)]

VARIABLES
  clock,     \* the time
  row,       \* row[x]: a row of the three tables
  issued,    \* token pairs issued so far
  grant,     \* grant[p]: the identity's row, or the API key, is not revoked
  worker,    \* worker[w]: where a request is
  requests,  \* requests made so far
  \* what the properties remember
  spent,     \* spent[n]: the instant refresh token n was rotated, 0 if never
  closed,    \* the families a finished replay or revoke has ended
  raced,     \* rows a rotation committed behind the back of such an end
  complete,  \* the identities whose last revocation ran to its end
  slipped    \* pairs issued to an identity revoked since it was checked

vars == <<clock, row, issued, grant, worker, requests, spent, closed, raced, complete, slipped>>
ghosts == <<spent, closed, raced, complete, slipped>>

-----------------------------------------------------------------------------
(* State *)

Rows == ({"code"} \X Codes) \cup ({"access", "refresh"} \X Ids)

(* expires is 0 for a row not written yet; ended is consumed_at of a code  *)
(* and revoked_at of a token, 0 for NULL.                                  *)
RowState == [present : BOOLEAN, principal : Principals \cup {"nobody"}, origin : 0..MaxCodes,
             family : 0..MaxTokens, expires : Nat, ended : 0..MaxTime]
Unwritten == [present |-> FALSE, principal |-> "nobody", origin |-> 0, family |-> 0, expires |-> 0, ended |-> 0]

(* at: the row a transaction has locked.  kind, snap: the table an UPDATE  *)
(* of several rows is about and the rows it picked.  pending: the rows it  *)
(* has changed and not committed.  now: the instant the request writes as  *)
(* consumed_at or revoked_at, read before the statement that writes it.    *)
(* clean (a ghost): the grant was current when this request checked it, or *)
(* no other revocation of the identity has begun since this one.           *)
WorkerState ==
  [op : {"idle", "exchange", "rotate", "revoke", "admin"},
   pc : {"idle", "check", "commit", "snap", "wait", "close", "deny", "keys"},
   at : Rows \cup {<<"code", 0>>}, family : 0..MaxTokens, who : Principals \cup {"nobody"},
   kind : {"access", "refresh", "code"}, snap : SUBSET Rows, pending : SUBSET Rows,
   now : 0..MaxTime, clean : BOOLEAN]

Idle == [op |-> "idle", pc |-> "idle", at |-> <<"code", 0>>, family |-> 0, who |-> "nobody",
         kind |-> "access", snap |-> {}, pending |-> {}, now |-> 0, clean |-> FALSE]

(* The rows and the worker records have the declared shape.                *)
TypeOK ==
  /\ clock \in 1..MaxTime
  /\ row \in [Rows -> RowState]
  /\ issued \in 0..MaxTokens
  /\ grant \in [Principals -> BOOLEAN]
  /\ worker \in [Workers -> WorkerState]
  /\ requests \in 0..MaxRequests
  /\ spent \in [Ids -> 0..MaxTime]
  /\ closed \subseteq Ids
  /\ raced \subseteq Rows
  /\ complete \subseteq Identities
  /\ slipped \subseteq Ids

Init ==
  /\ clock = 1
  /\ row = [x \in Rows |-> Unwritten]
  /\ issued = 0
  /\ grant = [p \in Principals |-> TRUE]
  /\ worker = [w \in Workers |-> Idle]
  /\ requests = 0
  /\ spent = [n \in Ids |-> 0]
  /\ closed = {}
  /\ raced = {}
  /\ complete = {}
  /\ slipped = {}

-----------------------------------------------------------------------------
(* Rows, locks and statements *)

PrincipalAt(x) == row[x].principal
Live(x) == row[x].present /\ row[x].ended = 0

(* the JOINed conditions of the token queries: an API key must not be      *)
(* revoked; an identity is asked about by a query of its own               *)
KeyStands(x) == PrincipalAt(x) \in Identities \/ grant[PrincipalAt(x)]

(* the access token alone is checked                                       *)
IdentityGrantAssumed(x) == TRUE

(* identityGrantIsCurrent                                                  *)
IdentityGrantIsCurrent(x) == PrincipalAt(x) \notin Identities \/ grant[PrincipalAt(x)]

(* the handlers that open a transaction                                    *)
InTx(v) == worker[v].op \in {"exchange", "rotate"}
Held(v) == IF InTx(v) THEN {worker[v].at} \cup worker[v].pending ELSE {}
Free(w, X) == \A v \in Workers \ {w} : Held(v) \cap X = {}

(* SET revoked_at = coalesce(revoked_at, now) on the rows X still there    *)
Ended(X, now) ==
  [x \in Rows |-> IF x \in X /\ Live(x) THEN [row[x] EXCEPT !.ended = now] ELSE row[x]]

FamilyRows(kind, f) == {x \in Rows : x[1] = kind /\ row[x].present /\ row[x].family = f}
PrincipalRows(kind, p) == {x \in Rows : x[1] = kind /\ row[x].present /\ PrincipalAt(x) = p}

(* the rows the UPDATE a worker is about to run would pick now             *)
Picked(w) ==
  IF worker[w].op = "admin"
  THEN PrincipalRows(worker[w].kind, worker[w].who)
  ELSE FamilyRows(worker[w].kind, worker[w].family)

(* a request arrives, and reaches an idle worker                           *)
Request ==
  /\ requests < MaxRequests
  /\ requests' = requests + 1
Arrive(w) ==
  /\ worker[w] = Idle
  /\ Request

(* bound: there is a pair left for every transaction that may issue one,   *)
(* which a replay does not                                                 *)
Room ==
  issued + Cardinality({v \in Workers : InTx(v) /\ row[worker[v].at].ended = 0}) < MaxTokens

-----------------------------------------------------------------------------
(* POST /v1/oauth/token: a code for tokens, a refresh token for tokens *)

(* the consent's transaction writes the code (authorize/decision)          *)
IssueCode(c, p) ==
  /\ row[<<"code", c>>].expires = 0
  /\ row' = [row EXCEPT ![<<"code", c>>] =
       [present |-> TRUE, principal |-> p, origin |-> c, family |-> 0, expires |-> clock + CodeTtl, ended |-> 0]]
  /\ UNCHANGED <<clock, issued, grant, worker, requests, ghosts>>

(* the row is read without a lock                                          *)
ForUpdateOmitted(w, x) == TRUE

(* FOR UPDATE: the row is read once nobody else holds it                   *)
ForUpdate(w, x) == Free(w, {x})

(* the first query of the authorization_code grant, FOR UPDATE OF a        *)
SelectCode(w, c) ==
  LET x == <<"code", c>> IN
  /\ Arrive(w)
  /\ Room
  /\ Live(x)
  /\ row[x].expires > clock
  /\ KeyStands(x)
  /\ ForUpdate(w, x)
  /\ worker' = [worker EXCEPT ![w] = [Idle EXCEPT !.op = "exchange", !.pc = "check", !.at = x]]
  /\ UNCHANGED <<clock, row, issued, grant, ghosts>>

(* the first query of the refresh_token grant, FOR UPDATE OF r: revoked    *)
(* and expired rows are found too                                          *)
SelectRefresh(w, n) ==
  LET x == <<"refresh", n>> IN
  /\ Arrive(w)
  /\ row[x].present
  /\ row[x].ended # 0 \/ Room
  /\ KeyStands(x)
  /\ ForUpdate(w, x)
  /\ worker' = [worker EXCEPT ![w] =
       [Idle EXCEPT !.op = "rotate", !.pc = "check", !.at = x, !.family = row[x].family]]
  /\ UNCHANGED <<clock, row, issued, grant, ghosts>>

(* a revoked refresh token is not told from a live one                     *)
CheckForgives(w) ==
  LET x == worker[w].at IN
  /\ worker[w].pc = "check"
  /\ IdentityGrantIsCurrent(x)
  /\ worker[w].op = "exchange" \/ row[x].expires > clock
  /\ worker' = [worker EXCEPT ![w].pc = "commit", ![w].now = clock]
  /\ UNCHANGED <<clock, row, issued, grant, requests, ghosts>>

(* the checks behind the query let the request through; a revoked refresh  *)
(* token is a replay and turns it into the end of its family               *)
Check(w) ==
  LET x == worker[w].at IN
  /\ worker[w].pc = "check"
  /\ IdentityGrantIsCurrent(x)
  /\ \/ /\ worker[w].op = "exchange" \/ (row[x].ended = 0 /\ row[x].expires > clock)
        /\ worker' = [worker EXCEPT ![w].pc = "commit", ![w].now = clock, ![w].clean = grant[PrincipalAt(x)]]
     \/ /\ worker[w].op = "rotate"
        /\ row[x].ended # 0
        /\ worker' = [worker EXCEPT ![w].pc = "snap", ![w].now = clock]
  /\ UNCHANGED <<clock, row, issued, grant, requests, ghosts>>

(* the checks refuse: the identity is revoked, the verifier does not match *)
(* the challenge, the refresh token is expired or asked for more scopes    *)
Refuse(w) ==
  LET x == worker[w].at IN
  /\ worker[w].pc = "check"
  /\ worker[w].op = "exchange" \/ row[x].ended = 0 \/ ~IdentityGrantIsCurrent(x)
  /\ worker' = [worker EXCEPT ![w] = Idle]
  /\ UNCHANGED <<clock, row, issued, grant, requests, ghosts>>

(* has v's revokeFamily already picked its rows of this kind               *)
HasPicked(v, kind) ==
  \/ worker[v].pc = "close"
  \/ worker[v].pc = "wait" /\ (worker[v].kind = kind \/ worker[v].kind = "refresh")
  \/ worker[v].pc = "snap" /\ worker[v].kind = "refresh" /\ kind = "access"

(* rows of family f written now that an end under way will not see         *)
Unseen(f, n, from) ==
  {x \in {"access", "refresh"} \X {n} :
     \/ from \in raced
     \/ \E v \in Workers : worker[v].op \in {"rotate", "revoke"} /\ worker[v].family = f /\ HasPicked(v, x[1])}

Token(from, f, ttl) ==
  [present |-> TRUE, principal |-> row[from].principal, origin |-> row[from].origin, family |-> f, expires |-> clock + ttl, ended |-> 0]

(* issueTokens and the commit: the code or the old refresh token is spent  *)
(* and the new pair written, the refresh token only with offline_access    *)
IssueTokens(w) ==
  LET x == worker[w].at
      n == issued + 1
      f == IF worker[w].op = "exchange" THEN n ELSE row[x].family IN
  /\ worker[w].pc = "commit"
  /\ n \in Ids
  /\ \E offline \in BOOLEAN :
       row' = [row EXCEPT ![x].ended = worker[w].now,
                          ![<<"access", n>>] = Token(x, f, AccessTtl),
                          ![<<"refresh", n>>] = IF offline THEN Token(x, f, RefreshTtl) ELSE @]
  /\ issued' = n
  /\ worker' = [worker EXCEPT ![w] = Idle]
  /\ spent' = IF x[1] = "refresh" THEN [spent EXCEPT ![x[2]] = worker[w].now] ELSE spent
  /\ raced' = raced \cup Unseen(f, n, x)
  /\ slipped' = IF worker[w].clean /\ ~grant[PrincipalAt(x)] THEN slipped \cup {n} ELSE slipped
  /\ UNCHANGED <<clock, grant, requests, closed, complete>>

-----------------------------------------------------------------------------
(* revokeFamily, and the handlers that end several rows *)

(* POST /v1/oauth/revoke: the two statements on the token itself.  An      *)
(* access token ends alone; a refresh token takes its family with it.      *)
RevokeToken(w, x) ==
  /\ Arrive(w)
  /\ x[1] # "code"
  /\ row[x].present
  /\ Free(w, {x})
  /\ row' = Ended({x}, clock)
  /\ worker' = [worker EXCEPT ![w] =
       IF x[1] = "refresh"
       THEN [Idle EXCEPT !.op = "revoke", !.pc = "snap", !.family = row[x].family, !.now = clock]
       ELSE Idle]
  /\ UNCHANGED <<clock, issued, grant, ghosts>>

(* DELETE /v1/identities/{provider}/{subject}: the row is read; a repeat   *)
(* skips the first UPDATE                                                  *)
ReadIdentity(w, p) ==
  /\ Arrive(w)
  /\ p \in Identities
  /\ worker' = [worker EXCEPT ![w] =
       [Idle EXCEPT !.op = "admin", !.pc = IF grant[p] THEN "deny" ELSE "snap", !.who = p, !.clean = TRUE]]
  /\ UNCHANGED <<clock, row, issued, grant, ghosts>>

DenyIdentity(w) ==
  LET p == worker[w].who IN
  /\ worker[w].pc = "deny"
  /\ grant' = [grant EXCEPT ![p] = FALSE]
  /\ worker' = [v \in Workers |->
       IF v = w THEN [worker[v] EXCEPT !.pc = "snap"]
       ELSE IF worker[v].who = p THEN [worker[v] EXCEPT !.clean = FALSE]
       ELSE worker[v]]
  /\ complete' = complete \ {p}
  /\ UNCHANGED <<clock, row, issued, requests, spent, closed, raced, slipped>>

(* an UPDATE picks its rows; the identity's revocation writes now(), the   *)
(* start of the statement, the others the instant they were called with    *)
Snap(w) ==
  /\ worker[w].pc = "snap"
  /\ worker' = [worker EXCEPT ![w].pc = "wait", ![w].snap = Picked(w),
                              ![w].now = IF worker[w].op = "admin" THEN clock ELSE @]
  /\ UNCHANGED <<clock, row, issued, grant, requests, ghosts>>

(* what follows the UPDATE of a table                                      *)
Following(w) ==
  CASE worker[w].kind = "access" -> [kind |-> "refresh", pc |-> "snap"]
    [] worker[w].kind = "refresh" /\ worker[w].op = "admin" -> [kind |-> "code", pc |-> "snap"]
    [] worker[w].kind = "refresh" /\ worker[w].op # "admin" -> [kind |-> "refresh", pc |-> "close"]
    [] worker[w].kind = "code" -> [kind |-> "code", pc |-> "keys"]

(* ... waits for the ones others have locked, and writes: at once outside  *)
(* a transaction, at its commit inside one                                 *)
Update(w) ==
  LET then == Following(w) IN
  /\ worker[w].pc = "wait"
  /\ Free(w, worker[w].snap)
  /\ row' = IF InTx(w) THEN row ELSE Ended(worker[w].snap, worker[w].now)
  /\ worker' = [worker EXCEPT ![w].kind = then.kind, ![w].pc = then.pc, ![w].snap = {},
                              ![w].pending = IF InTx(w) THEN @ \cup worker[w].snap ELSE @]
  /\ UNCHANGED <<clock, issued, grant, requests, ghosts>>

(* the family is ended: the replay's transaction commits                   *)
CloseFamily(w) ==
  /\ worker[w].pc = "close"
  /\ row' = Ended(worker[w].pending, worker[w].now)
  /\ closed' = closed \cup {worker[w].family}
  /\ worker' = [worker EXCEPT ![w] = Idle]
  /\ UNCHANGED <<clock, issued, grant, requests, spent, raced, complete, slipped>>

(* the last statement of the identity's revocation: the keys minted for it *)
RevokeKeys(w) ==
  LET p == worker[w].who IN
  /\ worker[w].pc = "keys"
  /\ grant' = [k \in Principals |-> grant[k] /\ k \notin KeysOf[p]]
  /\ complete' = IF worker[w].clean THEN complete \cup {p} ELSE complete
  /\ worker' = [worker EXCEPT ![w] = Idle]
  /\ UNCHANGED <<clock, row, issued, requests, spent, closed, raced, slipped>>

(* PUT /v1/identities with restore: true                                   *)
RestoreIdentity(p) ==
  /\ Request
  /\ p \in Identities
  /\ ~grant[p]
  /\ grant' = [grant EXCEPT ![p] = TRUE]
  /\ complete' = complete \ {p}
  /\ UNCHANGED <<clock, row, issued, worker, spent, closed, raced, slipped>>

(* DELETE /v1/keys/{id}: the key alone; its tokens fail the JOIN           *)
RevokeKey(k) ==
  /\ Request
  /\ k \in Principals \ Identities
  /\ grant[k]
  /\ grant' = [grant EXCEPT ![k] = FALSE]
  /\ UNCHANGED <<clock, row, issued, worker, ghosts>>

-----------------------------------------------------------------------------
(* The sweep, time, and what goes wrong *)

(* cleanupOAuthRows: what no longer carries an authorization               *)
Sweepable(x) ==
  /\ row[x].present
  /\ \/ row[x].expires < clock - Retention
     \/ x[1] # "code" /\ row[x].ended # 0 /\ row[x].ended < clock - Retention

(* the DELETEs of the sweep, at once: no two are about the same rows       *)
CleanupOAuthRows ==
  LET X == {x \in Rows : Sweepable(x)} IN
  /\ X # {}
  /\ \A v \in Workers : Held(v) \cap X = {}
  /\ row' = [x \in Rows |-> IF x \in X THEN [row[x] EXCEPT !.present = FALSE] ELSE row[x]]
  /\ UNCHANGED <<clock, issued, grant, worker, requests, ghosts>>

Tick ==
  /\ clock < MaxTime
  /\ clock' = clock + 1
  /\ UNCHANGED <<row, issued, grant, worker, requests, ghosts>>

(* a request dies: its transaction rolls back, its later statements never  *)
(* run                                                                     *)
Die(w) ==
  /\ worker[w] # Idle
  /\ worker' = [worker EXCEPT ![w] = Idle]
  /\ UNCHANGED <<clock, row, issued, grant, requests, ghosts>>

(* external: PostgreSQL aborts one of the transactions that wait for each  *)
(* other in a ring; one that only waits for a member of a ring stays       *)
WaitsFor(v, u) == worker[v].pc = "wait" /\ u # v /\ Held(u) \cap worker[v].snap # {}
Deadlocked(w) ==
  \E C \in SUBSET Workers :
    /\ w \in C
    /\ \E next \in [C -> C] :
         /\ \A v \in C : WaitsFor(v, next[v])
         /\ \A u \in C : \E v \in C : next[v] = u
Victim(w) ==
  /\ Deadlocked(w)
  /\ worker' = [worker EXCEPT ![w] = Idle]
  /\ UNCHANGED <<clock, row, issued, grant, requests, ghosts>>

Step(w) ==
  \/ Check(w) \/ Refuse(w) \/ IssueTokens(w)
  \/ DenyIdentity(w) \/ Snap(w) \/ Update(w) \/ CloseFamily(w) \/ RevokeKeys(w)
  \/ Victim(w)

Next ==
  \/ \E c \in Codes, p \in Principals : IssueCode(c, p)
  \/ \E w \in Workers :
       \/ \E c \in Codes : SelectCode(w, c)
       \/ \E n \in Ids : SelectRefresh(w, n)
       \/ \E x \in Rows : RevokeToken(w, x)
       \/ \E p \in Principals : ReadIdentity(w, p)
       \/ Step(w)
       \/ Die(w)
  \/ \E p \in Principals : RestoreIdentity(p) \/ RevokeKey(p)
  \/ CleanupOAuthRows
  \/ Tick

Spec == Init /\ [][Next]_vars

-----------------------------------------------------------------------------
(* Properties *)

LiveRefresh(f) == {n \in Ids : Live(<<"refresh", n>>) /\ row[<<"refresh", n>>].family = f}

(* However exchanges and rotations interleave, a family has at most one    *)
(* refresh token that is not revoked: FOR UPDATE and the single commit of  *)
(* "revoke the old, insert the new" (server.ts 1635-1702).                 *)
OneLiveRefresh == \A f \in Ids : \A m, n \in LiveRefresh(f) : m = n

(* A code is the start of at most one family, also when two clients send   *)
(* it at once (server.ts 1574-1634).                                       *)
OneFamilyPerCode ==
  \A m, n \in Ids :
    LET a == row[<<"access", m>>]
        b == row[<<"access", n>>] IN
    (a.origin # 0 /\ a.origin = b.origin) => a.family = b.family

(* A family with no refresh token left never gets one again, whatever was  *)
(* in flight when the last one ended.                                      *)
DeadFamilyStaysDead ==
  [][\A f \in 1..issued : LiveRefresh(f) = {} => LiveRefresh(f)' = {}]_vars

(* Once a replay or a revoke has ended a family, what is left alive of it  *)
(* was written by a rotation that committed while it was being ended.      *)
FamilyRevocationHolds ==
  \A x \in Rows : (Live(x) /\ row[x].family \in closed) => x \in raced

(* Once DELETE /v1/identities has run to its end, the tokens it has left   *)
(* alive belong to requests that had checked the grant before it.          *)
RevocationReachesAll ==
  \A x \in Rows :
    ( /\ x[1] # "code"
      /\ Live(x)
      /\ PrincipalAt(x) \in complete
      /\ ~grant[PrincipalAt(x)] ) => x[2] \in slipped

(* "Keeping revoked refresh tokens for seven days preserves replay         *)
(* detection" (cleanup.ts 1-3): a rotated token is found for that long     *)
(* after the instant it was rotated, however late the rotation commits and *)
(* the sweep by expiry included.                                           *)
ReplayRemembered ==
  \A n \in Ids : (spent[n] # 0 /\ clock <= spent[n] + Retention) => row[<<"refresh", n>>].present

(* Two replays of one family can wait for each other (each has locked the  *)
(* row it was called with and wants the other's).  A revocation cannot be  *)
(* part of that, so none is ever the victim: it holds no row between its   *)
(* statements.                                                             *)
DeadlockSparesRevocations == \A w \in Workers : Deadlocked(w) => worker[w].op = "rotate"

(* Types, single use (a code starts one family and a family has one live   *)
(* refresh token, however requests race), and a replay is recognised for   *)
(* as long as promised.                                                    *)
TokenInv == TypeOK /\ OneLiveRefresh /\ OneFamilyPerCode /\ ReplayRemembered

(* A finished revocation, of a family or of an identity, has reached every *)
(* token but those of requests that were already past their checks, and no *)
(* revocation is the victim of a deadlock.                                 *)
RevocationHolds == FamilyRevocationHolds /\ RevocationReachesAll /\ DeadlockSparesRevocations
=============================================================================
