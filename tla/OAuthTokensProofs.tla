------------------------- MODULE OAuthTokensProofs -------------------------
(***************************************************************************)
(* Proofs about the token half of the OAuth server (OAuthTokens).          *)
(*                                                                         *)
(* Everything rests on one fact about row locks: the row a transaction of  *)
(* the token endpoint has read FOR UPDATE is not written by anybody else   *)
(* before the transaction ends (KeptLocked).  What was true of the code or *)
(* of the refresh token when the request checked it is therefore true when *)
(* it commits, which is what makes single use, the one live refresh token  *)
(* of a family and the memory of replays inductive.                        *)
(***************************************************************************)
EXTENDS OAuthTokens, TLAPS

TokenRows == {"access", "refresh"} \X Ids

-----------------------------------------------------------------------------
(* The inductive invariant *)

(* where a request is decides what its record holds                        *)
Shape(k) ==
  /\ k.op = "idle" => k = Idle
  /\ k.op = "exchange" => k.pc \in {"check", "commit"} /\ k.at \in {"code"} \X Codes
  /\ k.op = "rotate" => /\ k.pc \in {"check", "commit", "snap", "wait", "close"}
                        /\ k.at \in {"refresh"} \X Ids
                        /\ k.kind \in {"access", "refresh"}
  /\ k.op = "revoke" => k.pc \in {"snap", "wait", "close"} /\ k.kind \in {"access", "refresh"}
  /\ k.op = "admin" => /\ k.pc \in {"deny", "snap", "wait", "keys"}
                       /\ k.who \in Identities
  /\ k.op # "admin" => k.who = "nobody"
  /\ k.op # "rotate" => k.pending = {}
  /\ k.pc \in {"check", "commit"} => k.pending = {}
  /\ k.pc \in {"check", "deny"} => k.kind = "access"
  /\ k.pc # "wait" => k.snap = {}
  /\ k.pc \in {"commit", "wait", "close"} => k.now # 0
  /\ (k.pc = "snap" /\ k.op # "admin") => k.now # 0

Shapes == \A w \in Workers : Shape(worker[w])

(* a request that ends a family, or may, knows which one                   *)
Families == \A w \in Workers : worker[w].op \in {"rotate", "revoke"} => worker[w].family \in 1..issued

(* no row is locked twice                                                  *)
Locks == \A v, w \in Workers : v # w => Held(v) \cap Held(w) = {}

(* the row a transaction has locked is there, and still unspent when the   *)
(* request has been let through                                            *)
AtBooks ==
  \A w \in Workers : LET x == worker[w].at IN
    /\ InTx(w) => row[x].present
    /\ worker[w].op = "exchange" => row[x].ended = 0
    /\ worker[w].pc = "commit" => row[x].ended = 0
    /\ (worker[w].pc = "commit" /\ worker[w].op = "rotate") => row[x].expires > worker[w].now

(* a code is unwritten or its own origin                                   *)
CodeBooks ==
  \A c \in Codes : LET r == row[<<"code", c>>] IN
    r = Unwritten \/ (r.family = 0 /\ r.origin = c /\ r.expires # 0 /\ r.principal \in Principals)

(* a token is unwritten, or one of the pairs issued, of a known family,    *)
(* and the code it goes back to is used up                                 *)
TokenBooks ==
  \A x \in TokenRows : LET r == row[x] IN
    \/ r = Unwritten
    \/ /\ x[2] \in 1..issued
       /\ r.family \in 1..issued
       /\ r.expires # 0
       /\ r.principal \in Principals
       /\ r.origin \in Codes
       /\ row[<<"code", r.origin>>].ended # 0
       /\ row[<<"code", r.origin>>].expires # 0

Books == TypeOK /\ Shapes /\ Families /\ Locks /\ AtBooks /\ CodeBooks /\ TokenBooks

(* all tokens of one code are of one family                                *)
OriginBooks ==
  \A x, y \in TokenRows :
    (row[x].origin # 0 /\ row[x].origin = row[y].origin) => row[x].family = row[y].family

(* a rotated refresh token carries the instant of its rotation, before its *)
(* expiry, and is forgotten only when the retention is over                *)
SpentBooks ==
  \A n \in Ids : LET r == row[<<"refresh", n>>] IN
    spent[n] # 0 =>
      /\ r.ended = spent[n]
      /\ r.expires > spent[n]
      /\ r.present \/ clock > spent[n] + Retention

-----------------------------------------------------------------------------
(* What a step does to rows and to workers *)

Same(x) == row'[x] = row[x]
Closes(x) == Live(x) /\ \E t \in 1..MaxTime : row'[x] = [row[x] EXCEPT !.ended = t]
Forgotten(x) == Sweepable(x) /\ row'[x] = [row[x] EXCEPT !.present = FALSE]
Grows(x) == row[x].expires = 0 /\ row'[x].present /\ row'[x].ended = 0

(* another request saw this one as it was, but for the ghost               *)
Aside(v) ==
  \/ worker'[v] = worker[v]
  \/ /\ worker[v].who \in Identities
     /\ worker'[v] = [worker[v] EXCEPT !.clean = FALSE]

(* the lock keeps: while a transaction goes on its row does not change     *)
KeptLocked(w) == /\ \A v \in Workers \ {w} : InTx(v) => Same(worker[v].at)
                 /\ row' = row \/ worker'[w].op \notin {"exchange", "rotate"}

(* a step that writes nothing new: rows of X are ended at t                *)
Ending(X, t) == t \in 1..MaxTime /\ row' = Ended(X, t)

-----------------------------------------------------------------------------
(* Kinds of rows and fields of records *)

LEMMA RowKinds ==
  /\ \A c \in Codes : <<"code", c>> \in Rows /\ <<"code", c>> \notin TokenRows
  /\ \A n \in Ids : /\ <<"access", n>> \in TokenRows /\ <<"refresh", n>> \in TokenRows
                    /\ <<"access", n>> # <<"refresh", n>>
  /\ TokenRows \subseteq Rows
  /\ \A x \in Rows : x \in TokenRows \/ (x[1] = "code" /\ x[2] \in Codes /\ x = <<"code", x[2]>>)
  /\ \A x \in TokenRows : /\ x[1] \in {"access", "refresh"}
                          /\ x[2] \in Ids
                          /\ x = <<x[1], x[2]>>
                          /\ x[1] # "code"
BY DEF Rows, TokenRows

LEMMA IdleShape == Idle \in WorkerState /\ Shape(Idle)
BY OAuthTokensAssumption DEF WorkerState, Idle, Shape

LEMMA UnwrittenShape == Unwritten \in RowState
BY OAuthTokensAssumption DEF Unwritten, RowState

(* ending rows keeps the type and ends exactly the live rows of X          *)
LEMMA EndedRows ==
  ASSUME row \in [Rows -> RowState], NEW X, NEW t \in 1..MaxTime
  PROVE  /\ Ended(X, t) \in [Rows -> RowState]
         /\ \A x \in Rows : /\ (x \in X /\ Live(x)) => Ended(X, t)[x] = [row[x] EXCEPT !.ended = t]
                            /\ ~(x \in X /\ Live(x)) => Ended(X, t)[x] = row[x]
<1>1. \A x \in Rows : [row[x] EXCEPT !.ended = t] \in RowState
  BY OAuthTokensAssumption DEF RowState
<1> QED BY <1>1 DEF Ended

-----------------------------------------------------------------------------
(* The footprint of a request's step *)

AtOK(w) == LET x == worker[w].at IN
  /\ InTx(w) => row[x].present
  /\ worker[w].op = "exchange" => row[x].ended = 0
  /\ worker[w].pc = "commit" => row[x].ended = 0
  /\ (worker[w].pc = "commit" /\ worker[w].op = "rotate") => row[x].expires > worker[w].now

(* what w holds after the step nobody else held before it                  *)
LocksFrom(w) == \A v \in Workers \ {w} : Held(v) \cap Held(w)' = {}

Foot(w) ==
  /\ worker' \in [Workers -> WorkerState]
  /\ Shape(worker'[w])
  /\ worker'[w].op \in {"rotate", "revoke"} => worker'[w].family \in 1..issued
  /\ \A v \in Workers \ {w} : Aside(v)
  /\ KeptLocked(w)
  /\ LocksFrom(w)
  /\ AtOK(w)'

(* a request that ends, or reaches no transaction                          *)
LEMMA FootIdle ==
  ASSUME Books, NEW w \in Workers, worker' = [worker EXCEPT ![w] = Idle], KeptLocked(w)
  PROVE  Foot(w)
<1>1. /\ worker' \in [Workers -> WorkerState]
      /\ worker'[w] = Idle
      /\ \A v \in Workers \ {w} : worker'[v] = worker[v]
  BY IdleShape DEF Books, TypeOK
<1>2. Held(w)' = {} /\ AtOK(w)'
  BY <1>1 DEF Held, InTx, Idle, AtOK
<1>3. worker'[w].op = "idle"
  BY <1>1 DEF Idle
<1> QED BY <1>1, <1>2, <1>3, IdleShape DEF Foot, LocksFrom, Aside

(* a request that goes on, or arrives, and writes no row                   *)
LEMMA FootMove ==
  ASSUME Books, NEW w \in Workers, NEW k \in WorkerState, Shape(k),
         worker' = [worker EXCEPT ![w] = k], row' = row,
         k.op \in {"rotate", "revoke"} => k.family \in 1..issued,
         k.op \in {"exchange", "rotate"} =>
           /\ \A v \in Workers \ {w} : Held(v) \cap ({k.at} \cup k.pending) = {}
           /\ row[k.at].present,
         k.op = "exchange" => row[k.at].ended = 0,
         k.pc = "commit" => row[k.at].ended = 0,
         (k.pc = "commit" /\ k.op = "rotate") => row[k.at].expires > k.now
  PROVE  Foot(w)
<1>1. /\ worker' \in [Workers -> WorkerState]
      /\ worker'[w] = k
      /\ \A v \in Workers \ {w} : worker'[v] = worker[v]
  BY DEF Books, TypeOK
<1>2. AtOK(w)'
  BY <1>1 DEF InTx, AtOK
<1>3. KeptLocked(w)
  BY DEF KeptLocked, Same
<1>4. LocksFrom(w)
  BY <1>1 DEF LocksFrom, Held, InTx
<1> QED BY <1>1, <1>2, <1>3, <1>4 DEF Foot, Aside

(* the row a transaction has locked is a code or a refresh token           *)
LEMMA LockedRow ==
  ASSUME Shapes, NEW w \in Workers, InTx(w)
  PROVE  worker[w].at \in Rows
<1>1. worker[w].at \in {"code"} \X Codes \/ worker[w].at \in {"refresh"} \X Ids
  BY DEF Shapes, Shape, InTx
<1> QED BY <1>1 DEF Rows

(* rows that nobody else holds may be ended, by a request that is in no    *)
(* transaction afterwards                                                  *)
LEMMA EndingKeeps ==
  ASSUME Books, NEW w \in Workers, NEW X, NEW t, Ending(X, t),
         \A v \in Workers \ {w} : Held(v) \cap X = {},
         worker'[w].op \notin {"exchange", "rotate"}
  PROVE  KeptLocked(w)
<1>1. ASSUME NEW v \in Workers \ {w}, InTx(v)
      PROVE  Same(worker[v].at)
  <2>1. worker[v].at \notin X
    BY <1>1 DEF Held
  <2>2. worker[v].at \in Rows
    BY <1>1, LockedRow DEF Books
  <2>3. row \in [Rows -> RowState] /\ t \in 1..MaxTime /\ row' = Ended(X, t)
    BY DEF Books, TypeOK, Ending
  <2>4. Ended(X, t)[worker[v].at] = row[worker[v].at]
    BY <2>1, <2>2, <2>3 DEF Ended
  <2> QED BY <2>3, <2>4 DEF Same
<1> QED BY <1>1 DEF KeptLocked

LEMMA FootSelectCode ==
  ASSUME Books, NEW w \in Workers, NEW c \in Codes, SelectCode(w, c)
  PROVE  Foot(w)
<1> DEFINE x == <<"code", c>>
           k == [Idle EXCEPT !.op = "exchange", !.pc = "check", !.at = x]
<1>1. x \in Rows
  BY RowKinds
<1>2. k \in WorkerState /\ k.op = "exchange" /\ k.pc = "check" /\ k.at = x /\ k.pending = {}
  BY <1>1, IdleShape DEF WorkerState, Idle
<1>3. Shape(k)
  BY DEF Shape, Idle
<1>4. worker' = [worker EXCEPT ![w] = k] /\ row' = row
  BY DEF SelectCode
<1>5. /\ row[x].present
      /\ row[x].ended = 0
      /\ \A v \in Workers \ {w} : Held(v) \cap {x} = {}
  BY DEF SelectCode, Live, ForUpdate, Free
<1> HIDE DEF x, k
<1> QED BY <1>2, <1>3, <1>4, <1>5, FootMove

LEMMA FootSelectRefresh ==
  ASSUME Books, NEW w \in Workers, NEW n \in Ids, SelectRefresh(w, n)
  PROVE  Foot(w)
<1> DEFINE x == <<"refresh", n>>
           k == [Idle EXCEPT !.op = "rotate", !.pc = "check", !.at = x, !.family = row[x].family]
<1>1. x \in Rows /\ x \in TokenRows /\ x \in {"refresh"} \X Ids
  BY RowKinds
<1>2. row[x].present /\ row[x] \in RowState
  BY <1>1 DEF SelectRefresh, Books, TypeOK
<1>3. row[x].family \in 1..issued /\ row[x].family \in 0..MaxTokens
  <2>1. row[x] # Unwritten
    BY <1>2 DEF Unwritten
  <2>2. row[x].family \in 1..issued
    BY <1>1, <2>1 DEF Books, TokenBooks
  <2>3. row[x].family \in 0..MaxTokens
    BY <1>2 DEF RowState
  <2> QED BY <2>2, <2>3
<1>4. /\ k \in WorkerState
      /\ k.op = "rotate" /\ k.pc = "check" /\ k.at = x /\ k.pending = {}
      /\ k.family = row[x].family
  BY <1>1, <1>3, IdleShape DEF WorkerState, Idle
<1>5. Shape(k)
  BY <1>1 DEF Shape, Idle
<1>6. worker' = [worker EXCEPT ![w] = k] /\ row' = row
  BY DEF SelectRefresh
<1>7. \A v \in Workers \ {w} : Held(v) \cap {x} = {}
  BY DEF SelectRefresh, ForUpdate, Free
<1> HIDE DEF x, k
<1> QED BY <1>2, <1>3, <1>4, <1>5, <1>6, <1>7, FootMove

(* what a transaction holds stays its own while it goes on                 *)
LEMMA HeldAlone ==
  ASSUME Books, NEW w \in Workers, InTx(w)
  PROVE  /\ \A v \in Workers \ {w} : Held(v) \cap ({worker[w].at} \cup worker[w].pending) = {}
         /\ row[worker[w].at].present
         /\ worker[w].at \in Rows
<1>1. Held(w) = {worker[w].at} \cup worker[w].pending
  BY DEF Held
<1>2. worker[w].at \in Rows
  BY LockedRow DEF Books
<1> QED BY <1>1, <1>2 DEF Books, Locks, AtBooks

(* a row that is there stands for somebody                                 *)
LEMMA WrittenPrincipal ==
  ASSUME Books, NEW x \in Rows, row[x].present
  PROVE  row[x].principal \in Principals
<1>1. row[x] # Unwritten
  BY DEF Unwritten
<1>2. CASE x \in TokenRows
  BY <1>1, <1>2 DEF Books, TokenBooks
<1>3. CASE x[2] \in Codes /\ x = <<"code", x[2]>>
  BY <1>1, <1>3 DEF Books, CodeBooks
<1> QED BY <1>2, <1>3, RowKinds

LEMMA FootCheck ==
  ASSUME Books, NEW w \in Workers, Check(w)
  PROVE  Foot(w)
<1> DEFINE x == worker[w].at
<1>1. /\ worker[w] \in WorkerState /\ Shape(worker[w]) /\ worker[w].pc = "check"
      /\ clock \in 0..MaxTime /\ row' = row /\ clock # 0
  BY OAuthTokensAssumption DEF Books, TypeOK, Shapes, Check
<1>2. InTx(w)
  BY <1>1 DEF Shape, InTx, WorkerState, Idle
<1>3. /\ \A v \in Workers \ {w} : Held(v) \cap ({x} \cup worker[w].pending) = {}
      /\ row[x].present
      /\ x \in Rows
  BY <1>2, HeldAlone
<1>4. grant[PrincipalAt(x)] \in BOOLEAN
  BY <1>3, WrittenPrincipal DEF PrincipalAt, Books, TypeOK
<1>5. CASE /\ worker[w].op = "exchange" \/ (row[x].ended = 0 /\ row[x].expires > clock)
           /\ worker' = [worker EXCEPT ![w].pc = "commit", ![w].now = clock, ![w].clean = grant[PrincipalAt(x)]]
  <2> DEFINE k == [worker[w] EXCEPT !.pc = "commit", !.now = clock, !.clean = grant[PrincipalAt(x)]]
  <2>0. k \in WorkerState
    BY <1>1, <1>4, OAuthTokensAssumption DEF WorkerState
  <2>1. /\ k.op = worker[w].op /\ k.pc = "commit" /\ k.at = x /\ k.now = clock
        /\ k.pending = worker[w].pending /\ k.family = worker[w].family
        /\ k.who = worker[w].who /\ k.snap = worker[w].snap /\ k.kind = worker[w].kind
    BY <1>1 DEF WorkerState
  <2>2. Shape(k)
    <3> HIDE DEF k
    <3> QED BY <1>1, <1>2, <2>1 DEF Shape, InTx
  <2>3. worker' = [worker EXCEPT ![w] = k]
    BY <1>5, <1>1 DEF Books, TypeOK
  <2>4. /\ k.op = "exchange" => row[x].ended = 0
        /\ row[x].ended = 0
        /\ k.op = "rotate" => row[x].expires > clock
    BY <1>5, <1>2, <2>1 DEF Books, AtBooks, InTx
  <2>5. k.op \in {"rotate", "revoke"} => k.family \in 1..issued
    BY <2>1 DEF Books, Families
  <2> HIDE DEF k
  <2> QED BY <1>1, <1>3, <2>0, <2>1, <2>2, <2>3, <2>4, <2>5, FootMove
<1>6. CASE /\ worker[w].op = "rotate"
           /\ row[x].ended # 0
           /\ worker' = [worker EXCEPT ![w].pc = "snap", ![w].now = clock]
  <2> DEFINE k == [worker[w] EXCEPT !.pc = "snap", !.now = clock]
  <2>0. k \in WorkerState
    BY <1>1, OAuthTokensAssumption DEF WorkerState
  <2>1. /\ k.op = "rotate" /\ k.pc = "snap" /\ k.at = x /\ k.now = clock
        /\ k.pending = worker[w].pending /\ k.family = worker[w].family
        /\ k.who = worker[w].who /\ k.snap = worker[w].snap /\ k.kind = worker[w].kind
    BY <1>1, <1>6 DEF WorkerState
  <2>2. Shape(k)
    <3> HIDE DEF k
    <3> QED BY <1>1, <1>6, <2>1 DEF Shape
  <2>3. worker' = [worker EXCEPT ![w] = k]
    BY <1>6, <1>1 DEF Books, TypeOK
  <2>5. k.family \in 1..issued
    BY <2>1, <1>6 DEF Books, Families
  <2> HIDE DEF k
  <2> QED BY <1>1, <1>3, <2>0, <2>1, <2>2, <2>3, <2>5, FootMove
<1> QED BY <1>5, <1>6 DEF Check

(* what issueTokens and its commit write: the unspent row it has locked is *)
(* ended, the pair issued + 1 appears, and nothing else changes            *)
Pair(n) == {<<"access", n>>, <<"refresh", n>>}
Issues(w, n, x, f) ==
  /\ x = worker[w].at /\ x \in Rows /\ n = issued + 1 /\ n \in Ids /\ n # 0
  /\ InTx(w) /\ Live(x) /\ row[x] # Unwritten
  /\ f = IF worker[w].op = "exchange" THEN n ELSE row[x].family
  /\ worker[w].op = "exchange" => x \in {"code"} \X Codes
  /\ worker[w].op = "rotate" => x \in {"refresh"} \X Ids /\ row[x].expires > worker[w].now
  /\ worker[w].now \in 1..MaxTime
  /\ x \notin Pair(n)
  /\ \A y \in Pair(n) : row[y] = Unwritten
  /\ row' \in [Rows -> RowState]
  /\ row'[x] = [row[x] EXCEPT !.ended = worker[w].now]
  /\ \A y \in Rows : (y # x /\ y \notin Pair(n)) => row'[y] = row[y]
  /\ row'[<<"access", n>>] = Token(x, f, AccessTtl)
  /\ row'[<<"refresh", n>>] \in {Unwritten, Token(x, f, RefreshTtl)}

LEMMA IssueFacts ==
  ASSUME Books, NEW w \in Workers, IssueTokens(w)
  PROVE  \E n, x, f : Issues(w, n, x, f)
<1> DEFINE x == worker[w].at
           n == issued + 1
           f == IF worker[w].op = "exchange" THEN n ELSE row[x].family
           a == <<"access", n>>
           b == <<"refresh", n>>
<1>1. worker[w].pc = "commit" /\ n \in Ids /\ worker[w] \in WorkerState /\ Shape(worker[w])
  BY DEF IssueTokens, Books, TypeOK, Shapes
<1>2. InTx(w)
  BY <1>1 DEF InTx, Shape, WorkerState, Idle
<1>3. x \in Rows /\ row[x].present /\ row[x].ended = 0
  BY <1>1, <1>2, HeldAlone DEF Books, AtBooks
<1>4. row[x] # Unwritten /\ Live(x)
  BY <1>3 DEF Unwritten, Live
<1>5. worker[w].now \in 1..MaxTime /\ worker[w].now \in 0..MaxTime
  BY <1>1, OAuthTokensAssumption DEF WorkerState, Shape
<1>6. a \in TokenRows /\ b \in TokenRows /\ a \in Rows /\ b \in Rows /\ a # b /\ a[2] = n /\ b[2] = n
  BY <1>1, RowKinds
<1>7. n \notin 1..issued /\ issued \in Nat /\ n # 0
  BY OAuthTokensAssumption DEF Books, TypeOK
<1>8. row[a] = Unwritten /\ row[b] = Unwritten
  BY <1>6, <1>7 DEF Books, TokenBooks
<1>9. x # a /\ x # b
  BY <1>4, <1>8
<1>10. f \in 0..MaxTokens
  BY <1>1, <1>3 DEF Books, TypeOK, RowState, Ids
<1>11. clock \in Nat
  BY OAuthTokensAssumption DEF Books, TypeOK
<1>12. ASSUME NEW ttl \in Nat PROVE Token(x, f, ttl) \in RowState
  <2>1. row[x] \in RowState
    BY <1>3 DEF Books, TypeOK
  <2>2. clock + ttl \in Nat
    BY <1>11
  <2> HIDE DEF x, f
  <2> QED BY <2>1, <2>2, <1>10, OAuthTokensAssumption DEF Token, RowState
<1>13. [row[x] EXCEPT !.ended = worker[w].now] \in RowState
  BY <1>3, <1>5 DEF Books, TypeOK, RowState
<1>14. PICK offline \in BOOLEAN :
         row' = [row EXCEPT ![x].ended = worker[w].now,
                            ![a] = Token(x, f, AccessTtl),
                            ![b] = IF offline THEN Token(x, f, RefreshTtl) ELSE @]
  BY DEF IssueTokens
<1> DEFINE ta == Token(x, f, AccessTtl)
           tb == IF offline THEN Token(x, f, RefreshTtl) ELSE Unwritten
           xx == [row[x] EXCEPT !.ended = worker[w].now]
<1>15. ta \in RowState /\ tb \in RowState /\ xx \in RowState
  BY <1>12, <1>13, UnwrittenShape, OAuthTokensAssumption
<1>16. row \in [Rows -> RowState]
  BY DEF Books, TypeOK
<1>17. row' = [row EXCEPT ![x] = xx, ![a] = ta, ![b] = tb]
  BY <1>3, <1>6, <1>8, <1>9, <1>14, <1>16
<1>18. /\ row' \in [Rows -> RowState]
       /\ row'[x] = xx /\ row'[a] = ta /\ row'[b] = tb
       /\ \A y \in Rows : (y # x /\ y # a /\ y # b) => row'[y] = row[y]
  <2> HIDE DEF xx, ta, tb, x, a, b
  <2> QED BY <1>3, <1>6, <1>9, <1>15, <1>16, <1>17
<1>19. worker[w].op = "exchange" => x \in {"code"} \X Codes
  BY <1>1 DEF Shape
<1>20. worker[w].op = "rotate" => x \in {"refresh"} \X Ids /\ row[x].expires > worker[w].now
  BY <1>1 DEF Shape, Books, AtBooks
<1>21. Pair(n) = {a, b}
  BY DEF Pair
<1>22. tb \in {Unwritten, Token(x, f, RefreshTtl)}
  OBVIOUS
<1>23. Issues(w, n, x, f)
  BY <1>1, <1>2, <1>3, <1>4, <1>5, <1>7, <1>8, <1>9, <1>18, <1>19, <1>20, <1>21, <1>22 DEF Issues
<1> QED BY <1>23

LEMMA FootIssueTokens ==
  ASSUME Books, NEW w \in Workers, IssueTokens(w)
  PROVE  Foot(w)
<1>1. PICK n, x, f : Issues(w, n, x, f)
  BY IssueFacts
<1>2. worker' = [worker EXCEPT ![w] = Idle]
  BY DEF IssueTokens
<1>3. ASSUME NEW v \in Workers \ {w}, InTx(v)
      PROVE  Same(worker[v].at)
  <2>1. worker[v].at \in Rows /\ row[worker[v].at].present
    BY <1>3, HeldAlone
  <2>2. worker[v].at # x
    BY <1>1, <1>3 DEF Books, Locks, Held, Issues
  <2>3. worker[v].at \notin Pair(n)
    BY <1>1, <2>1 DEF Issues, Unwritten
  <2> QED BY <1>1, <2>1, <2>2, <2>3 DEF Issues, Same
<1>4. worker'[w].op \notin {"exchange", "rotate"}
  BY <1>2 DEF Books, TypeOK, Idle
<1> QED BY <1>2, <1>3, <1>4, FootIdle DEF KeptLocked

(* the steps that end a request and write no row                           *)
LEMMA FootLeaves ==
  ASSUME Books, NEW w \in Workers, Refuse(w) \/ Die(w) \/ Victim(w) \/ RevokeKeys(w)
  PROVE  Foot(w)
<1>1. worker' = [worker EXCEPT ![w] = Idle] /\ row' = row
  BY DEF Refuse, Die, Victim, RevokeKeys
<1> QED BY <1>1, FootIdle DEF KeptLocked, Same

LEMMA FootRevokeToken ==
  ASSUME Books, NEW w \in Workers, NEW x \in Rows, RevokeToken(w, x)
  PROVE  Foot(w)
<1> DEFINE k == [Idle EXCEPT !.op = "revoke", !.pc = "snap", !.family = row[x].family, !.now = clock]
<1>1. clock \in 0..MaxTime /\ clock # 0 /\ clock \in 1..MaxTime
  BY OAuthTokensAssumption DEF Books, TypeOK
<1>2. x \in TokenRows /\ row[x].present /\ row[x] \in RowState
  BY RowKinds DEF RevokeToken, Books, TypeOK
<1>3. row[x].family \in 1..issued /\ row[x].family \in 0..MaxTokens
  <2>1. row[x] # Unwritten
    BY <1>2 DEF Unwritten
  <2>2. row[x].family \in 1..issued
    BY <1>2, <2>1 DEF Books, TokenBooks
  <2>3. row[x].family \in 0..MaxTokens
    BY <1>2 DEF RowState
  <2> QED BY <2>2, <2>3
<1>4. worker[w] = Idle
  BY DEF RevokeToken, Arrive
<1>5. ASSUME worker'[w].op \notin {"exchange", "rotate"} PROVE KeptLocked(w)
  <2>1. Ending({x}, clock)
    BY <1>1 DEF RevokeToken, Ending
  <2>2. \A v \in Workers \ {w} : Held(v) \cap {x} = {}
    BY DEF RevokeToken, Free
  <2> QED BY <1>5, <2>1, <2>2, EndingKeeps
<1>6. CASE x[1] = "refresh"
  <2>1. worker' = [worker EXCEPT ![w] = k]
    BY <1>6 DEF RevokeToken
  <2>2. k \in WorkerState
    BY <1>1, <1>3, IdleShape DEF WorkerState, Idle
  <2>3. k.op = "revoke" /\ k.pc = "snap" /\ k.family = row[x].family
    BY DEF Idle
  <2>4. Shape(k)
    BY <1>1 DEF Shape, Idle
  <2> HIDE DEF k
  <2>5. /\ worker' \in [Workers -> WorkerState]
        /\ worker'[w] = k
        /\ \A v \in Workers \ {w} : worker'[v] = worker[v]
    BY <2>1, <2>2 DEF Books, TypeOK
  <2>6. Held(w)' = {} /\ AtOK(w)'
    BY <2>3, <2>5 DEF Held, InTx, AtOK
  <2>7. KeptLocked(w)
    BY <1>5, <2>3, <2>5
  <2> QED BY <1>3, <2>3, <2>4, <2>5, <2>6, <2>7 DEF Foot, LocksFrom, Aside
<1>7. CASE x[1] # "refresh"
  <2>1. worker' = [worker EXCEPT ![w] = Idle]
    BY <1>7 DEF RevokeToken
  <2>2. worker'[w].op \notin {"exchange", "rotate"}
    BY <2>1 DEF Idle, Books, TypeOK
  <2> QED BY <1>5, <2>1, <2>2, FootIdle
<1> QED BY <1>6, <1>7

LEMMA FootReadIdentity ==
  ASSUME Books, NEW w \in Workers, NEW p \in Principals, ReadIdentity(w, p)
  PROVE  Foot(w)
<1> DEFINE pc == IF grant[p] THEN "deny" ELSE "snap"
           k == [Idle EXCEPT !.op = "admin", !.pc = pc, !.who = p, !.clean = TRUE]
<1>1. pc \in {"deny", "snap"}
  OBVIOUS
<1>2. p \in Identities /\ worker' = [worker EXCEPT ![w] = k] /\ row' = row
  BY DEF ReadIdentity
<1> HIDE DEF pc
<1>3. k \in WorkerState
  BY <1>1, IdleShape DEF WorkerState, Idle
<1>4. k.op = "admin" /\ k.pc = pc
  BY DEF Idle
<1>5. Shape(k)
  BY <1>1, <1>2 DEF Shape, Idle
<1> HIDE DEF k
<1> QED BY <1>1, <1>2, <1>3, <1>4, <1>5, FootMove

LEMMA FootDenyIdentity ==
  ASSUME Books, NEW w \in Workers, DenyIdentity(w)
  PROVE  Foot(w)
<1> DEFINE k == [worker[w] EXCEPT !.pc = "snap"]
<1>1. worker[w] \in WorkerState /\ Shape(worker[w]) /\ worker[w].pc = "deny" /\ row' = row
  BY DEF DenyIdentity, Books, TypeOK, Shapes
<1>2. worker[w].op = "admin" /\ worker[w].who \in Identities
  BY <1>1 DEF Shape, WorkerState, Idle
<1>3. k \in WorkerState
  BY <1>1 DEF WorkerState
<1>4. /\ k.op = "admin" /\ k.pc = "snap" /\ k.at = worker[w].at /\ k.who = worker[w].who
      /\ k.kind = worker[w].kind /\ k.snap = worker[w].snap /\ k.pending = worker[w].pending
  BY <1>1, <1>2 DEF WorkerState
<1>5. worker'[w] = k
  BY DEF DenyIdentity
<1> HIDE DEF k
<1>6. Shape(k)
  BY <1>1, <1>2, <1>4 DEF Shape
<1>7. \A v \in Workers \ {w} : Aside(v)
  BY <1>2 DEF DenyIdentity, Aside
<1>8. worker' \in [Workers -> WorkerState]
  <2>2. \A v \in Workers : worker[v] \in WorkerState
    BY DEF Books, TypeOK
  <2>1. ASSUME NEW v \in Workers PROVE [worker[v] EXCEPT !.clean = FALSE] \in WorkerState
    BY <2>2 DEF WorkerState
  <2>3. [worker[w] EXCEPT !.pc = "snap"] \in WorkerState
    BY <1>3 DEF k
  <2> QED BY <2>1, <2>2, <2>3 DEF DenyIdentity
<1>9. KeptLocked(w)
  BY <1>1 DEF KeptLocked, Same
<1>10. Held(w)' = {} /\ AtOK(w)'
  BY <1>4, <1>5 DEF Held, InTx, AtOK
<1> QED BY <1>4, <1>5, <1>6, <1>7, <1>8, <1>9, <1>10 DEF Foot, LocksFrom

LEMMA PickedRows == \A w \in Workers : Picked(w) \in SUBSET Rows
BY DEF Picked, PrincipalRows, FamilyRows

LEMMA FootSnap ==
  ASSUME Books, NEW w \in Workers, Snap(w)
  PROVE  Foot(w)
<1> DEFINE now == IF worker[w].op = "admin" THEN clock ELSE worker[w].now
           k == [worker[w] EXCEPT !.pc = "wait", !.snap = Picked(w), !.now = now]
<1>1. worker[w] \in WorkerState /\ Shape(worker[w]) /\ worker[w].pc = "snap" /\ row' = row
  BY DEF Snap, Books, TypeOK, Shapes
<1>2. worker[w].op \in {"rotate", "revoke", "admin"}
  BY <1>1 DEF Shape, WorkerState, Idle
<1>3. now \in 0..MaxTime /\ now # 0
  BY <1>1, OAuthTokensAssumption DEF Shape, WorkerState, Books, TypeOK
<1>4. worker' = [worker EXCEPT ![w] = k]
  BY DEF Snap, Books, TypeOK
<1> HIDE DEF now
<1>5. k \in WorkerState
  BY <1>1, <1>3, PickedRows DEF WorkerState
<1>6. /\ k.op = worker[w].op /\ k.pc = "wait" /\ k.at = worker[w].at /\ k.who = worker[w].who
      /\ k.kind = worker[w].kind /\ k.pending = worker[w].pending /\ k.now = now
      /\ k.family = worker[w].family
  BY <1>1 DEF WorkerState
<1> HIDE DEF k
<1>7. Shape(k)
  BY <1>1, <1>2, <1>3, <1>6 DEF Shape
<1>8. k.op = "rotate" => InTx(w)
  BY <1>6 DEF InTx
<1>9. k.op \in {"rotate", "revoke"} => k.family \in 1..issued
  BY <1>6 DEF Books, Families
<1> QED BY <1>1, <1>2, <1>4, <1>5, <1>6, <1>7, <1>8, <1>9, HeldAlone, FootMove

(* what follows an UPDATE                                                  *)
LEMMA FollowingFacts ==
  ASSUME Books, NEW w \in Workers, worker[w].pc = "wait"
  PROVE  /\ worker[w].op \in {"rotate", "revoke", "admin"}
         /\ Following(w).kind \in {"access", "refresh", "code"}
         /\ Following(w).pc \in {"snap", "close", "keys"}
         /\ worker[w].op # "admin" => /\ Following(w).pc \in {"snap", "close"}
                                      /\ Following(w).kind = "refresh"
                                      /\ worker[w].kind \in {"access", "refresh"}
                                      /\ worker[w].kind = "access" <=> Following(w).pc = "snap"
         /\ worker[w].op = "admin" =>
              /\ worker[w].kind = "access" => Following(w).pc = "snap" /\ Following(w).kind = "refresh"
              /\ worker[w].kind = "refresh" => Following(w).pc = "snap" /\ Following(w).kind = "code"
              /\ worker[w].kind = "code" => Following(w).pc = "keys"
<1>1. worker[w] \in WorkerState /\ Shape(worker[w])
  BY DEF Books, TypeOK, Shapes
<1>2. worker[w].op \in {"rotate", "revoke", "admin"}
  BY <1>1 DEF Shape, WorkerState, Idle
<1>3. worker[w].kind \in {"access", "refresh", "code"} /\ (worker[w].op # "admin" => worker[w].kind # "code")
  BY <1>1, <1>2 DEF Shape, WorkerState
<1>4. CASE worker[w].kind = "access"
  BY <1>2, <1>4 DEF Following
<1>5. CASE worker[w].kind = "refresh"
  BY <1>2, <1>5 DEF Following
<1>6. CASE worker[w].kind = "code"
  BY <1>2, <1>3, <1>6 DEF Following
<1> QED BY <1>3, <1>4, <1>5, <1>6

LEMMA FootUpdate ==
  ASSUME Books, NEW w \in Workers, Update(w)
  PROVE  Foot(w)
<1> DEFINE then == Following(w)
           pending == IF InTx(w) THEN worker[w].pending \cup worker[w].snap ELSE worker[w].pending
           k == [worker[w] EXCEPT !.kind = then.kind, !.pc = then.pc, !.snap = {}, !.pending = pending]
<1>1. worker[w] \in WorkerState /\ Shape(worker[w]) /\ worker[w].pc = "wait"
  BY DEF Update, Books, TypeOK, Shapes
<1>2. /\ worker[w].op \in {"rotate", "revoke", "admin"}
      /\ then.kind \in {"access", "refresh", "code"}
      /\ then.pc \in {"snap", "close", "keys"}
      /\ worker[w].op # "admin" => then.pc \in {"snap", "close"} /\ then.kind = "refresh"
      /\ worker[w].op = "admin" => then.pc \in {"snap", "keys"}
  <2>1. worker[w].kind \in {"access", "refresh", "code"}
    BY <1>1 DEF WorkerState
  <2> QED BY <1>1, <2>1, FollowingFacts
<1>3. pending \in SUBSET Rows /\ (worker[w].op # "rotate" => pending = {})
  BY <1>1, <1>2 DEF WorkerState, Shape, InTx
<1>4. worker' = [worker EXCEPT ![w] = k]
  BY DEF Update, Books, TypeOK
<1>5. \A v \in Workers \ {w} : Held(v) \cap worker[w].snap = {}
  BY DEF Update, Free
<1>6. worker[w].now \in 1..MaxTime
  BY <1>1, OAuthTokensAssumption DEF WorkerState, Shape
<1>7. InTx(w) => pending = worker[w].pending \cup worker[w].snap
  OBVIOUS
<1> HIDE DEF then, pending
<1>8. k \in WorkerState
  BY <1>1, <1>2, <1>3 DEF WorkerState
<1>9. /\ k.op = worker[w].op /\ k.pc = then.pc /\ k.at = worker[w].at /\ k.who = worker[w].who
      /\ k.kind = then.kind /\ k.pending = pending /\ k.now = worker[w].now /\ k.snap = {}
      /\ k.family = worker[w].family
  BY <1>1 DEF WorkerState
<1> HIDE DEF k
<1>10. Shape(k)
  BY <1>1, <1>2, <1>3, <1>9 DEF Shape
<1>11. k.op \in {"rotate", "revoke"} => k.family \in 1..issued
  BY <1>9 DEF Books, Families
<1>12. CASE worker[w].op = "rotate"
  <2>1. InTx(w) /\ row' = row
    BY <1>12 DEF InTx, Update
  <2>2. /\ \A v \in Workers \ {w} : Held(v) \cap ({worker[w].at} \cup worker[w].pending) = {}
        /\ row[worker[w].at].present
    BY <2>1, HeldAlone
  <2>3. \A v \in Workers \ {w} : Held(v) \cap ({k.at} \cup k.pending) = {}
    BY <1>5, <1>7, <1>9, <2>1, <2>2
  <2> QED BY <1>2, <1>4, <1>8, <1>9, <1>10, <1>11, <1>12, <2>1, <2>2, <2>3, FootMove
<1>13. CASE worker[w].op # "rotate"
  <2>1. ~InTx(w) /\ row' = Ended(worker[w].snap, worker[w].now)
    BY <1>2, <1>13 DEF InTx, Update
  <2>2. /\ worker' \in [Workers -> WorkerState]
        /\ worker'[w] = k
        /\ \A v \in Workers \ {w} : worker'[v] = worker[v]
    BY <1>4, <1>8 DEF Books, TypeOK
  <2>3. worker'[w].op \notin {"exchange", "rotate"} /\ worker'[w].pc # "commit"
    BY <1>2, <1>9, <1>13, <2>2
  <2>4. KeptLocked(w)
    BY <1>5, <1>6, <2>1, <2>3, EndingKeeps DEF Ending
  <2>5. Held(w)' = {} /\ AtOK(w)'
    BY <2>3 DEF Held, InTx, AtOK
  <2> QED BY <1>9, <1>10, <1>11, <2>2, <2>4, <2>5 DEF Foot, LocksFrom, Aside
<1> QED BY <1>12, <1>13

LEMMA FootCloseFamily ==
  ASSUME Books, NEW w \in Workers, CloseFamily(w)
  PROVE  Foot(w)
<1>1. worker[w] \in WorkerState /\ Shape(worker[w]) /\ worker[w].pc = "close"
  BY DEF CloseFamily, Books, TypeOK, Shapes
<1>2. worker' = [worker EXCEPT ![w] = Idle]
  BY DEF CloseFamily
<1>3. Ending(worker[w].pending, worker[w].now)
  BY <1>1, OAuthTokensAssumption DEF CloseFamily, Ending, WorkerState, Shape
<1>4. \A v \in Workers \ {w} : Held(v) \cap worker[w].pending = {}
  <2>1. CASE worker[w].op = "rotate"
    BY <2>1, HeldAlone DEF InTx
  <2>2. CASE worker[w].op # "rotate"
    BY <1>1, <2>2 DEF Shape
  <2> QED BY <2>1, <2>2
<1>5. worker'[w].op \notin {"exchange", "rotate"}
  BY <1>2 DEF Idle, Books, TypeOK
<1> QED BY <1>2, <1>3, <1>4, <1>5, EndingKeeps, FootIdle

(* every step of a request has its footprint                               *)
RequestStep(w) ==
  \/ \E c \in Codes : SelectCode(w, c)
  \/ \E n \in Ids : SelectRefresh(w, n)
  \/ \E x \in Rows : RevokeToken(w, x)
  \/ \E p \in Principals : ReadIdentity(w, p)
  \/ Step(w)
  \/ Die(w)

LEMMA Footprint ==
  ASSUME Books, NEW w \in Workers, RequestStep(w)
  PROVE  Foot(w)
BY FootSelectCode, FootSelectRefresh, FootRevokeToken, FootReadIdentity, FootCheck, FootLeaves, FootIssueTokens,
   FootDenyIdentity, FootSnap, FootUpdate, FootCloseFamily DEF RequestStep, Step

-----------------------------------------------------------------------------
(* The books are kept *)

(* to the others a step of w is invisible, but for the ghost               *)
LEMMA AsideFields ==
  ASSUME Books, NEW v \in Workers, Aside(v)
  PROVE  /\ worker'[v].op = worker[v].op /\ worker'[v].pc = worker[v].pc /\ worker'[v].at = worker[v].at
         /\ worker'[v].family = worker[v].family /\ worker'[v].who = worker[v].who
         /\ worker'[v].kind = worker[v].kind /\ worker'[v].snap = worker[v].snap
         /\ worker'[v].pending = worker[v].pending /\ worker'[v].now = worker[v].now
         /\ InTx(v)' = InTx(v) /\ Held(v)' = Held(v)
         /\ Shape(worker'[v])
<1>1. worker[v] \in WorkerState /\ Shape(worker[v])
  BY DEF Books, TypeOK, Shapes
<1>2. CASE worker'[v] = worker[v]
  BY <1>1, <1>2 DEF InTx, Held
<1>3. CASE worker[v].who \in Identities /\ worker'[v] = [worker[v] EXCEPT !.clean = FALSE]
  <2>1. worker[v].op = "admin"
    BY <1>1, <1>3, OAuthTokensAssumption DEF Shape
  <2>2. /\ worker'[v].op = worker[v].op /\ worker'[v].pc = worker[v].pc /\ worker'[v].at = worker[v].at
        /\ worker'[v].family = worker[v].family /\ worker'[v].who = worker[v].who
        /\ worker'[v].kind = worker[v].kind /\ worker'[v].snap = worker[v].snap
        /\ worker'[v].pending = worker[v].pending /\ worker'[v].now = worker[v].now
    BY <1>1, <1>3 DEF WorkerState
  <2>3. Shape(worker'[v])
    BY <1>1, <2>1, <2>2 DEF Shape
  <2> QED BY <2>2, <2>3 DEF InTx, Held
<1> QED BY <1>2, <1>3 DEF Aside

LEMMA WorkerBooksKept ==
  ASSUME Books, NEW w \in Workers, Foot(w), issued' \in Nat, issued' >= issued
  PROVE  Shapes' /\ Families' /\ Locks' /\ AtBooks'
<1>0. issued \in Nat
  BY OAuthTokensAssumption DEF Books, TypeOK
<1>1. Shapes'
  BY AsideFields DEF Shapes, Foot
<1>2. Families'
  <2>1. \A v \in Workers : worker'[v].op \in {"rotate", "revoke"} => worker'[v].family \in 1..issued
    BY AsideFields DEF Books, Families, Foot
  <2>2. 1..issued \subseteq 1..issued'
    BY <1>0
  <2> QED BY <2>1, <2>2 DEF Families
<1>3. Locks'
  <2>1. ASSUME NEW u \in Workers, NEW v \in Workers, u # v
        PROVE  Held(u)' \cap Held(v)' = {}
    <3>1. CASE u = w
      BY <2>1, <3>1, AsideFields DEF Foot, LocksFrom
    <3>2. CASE v = w
      BY <2>1, <3>2, AsideFields DEF Foot, LocksFrom
    <3>3. CASE u # w /\ v # w
      BY <2>1, <3>3, AsideFields DEF Foot, Books, Locks
    <3> QED BY <3>1, <3>2, <3>3
  <2> QED BY <2>1 DEF Locks
<1>4. AtBooks'
  <2>1. ASSUME NEW v \in Workers \ {w} PROVE AtOK(v)'
    <3>1. Aside(v) /\ (InTx(v) => row'[worker[v].at] = row[worker[v].at])
      BY DEF Foot, KeptLocked, Same
    <3>2. AtOK(v)
      BY DEF AtOK, Books, AtBooks
    <3>3. worker[v].op = "exchange" \/ worker[v].pc = "commit" => InTx(v)
      BY DEF Books, TypeOK, Shapes, Shape, WorkerState, InTx, Idle
    <3> QED BY <3>1, <3>2, <3>3, AsideFields DEF AtOK
  <2>2. AtOK(w)'
    BY DEF Foot
  <2> QED BY <2>1, <2>2 DEF AtBooks, AtOK
<1> QED BY <1>1, <1>2, <1>3, <1>4

(* a step no request takes leaves the locked rows alone                    *)
LEMMA QuietBooksKept ==
  ASSUME Books, worker' = worker, issued' = issued,
         \A v \in Workers : InTx(v) => Same(worker[v].at)
  PROVE  Shapes' /\ Families' /\ Locks' /\ AtBooks'
<1>1. Shapes' /\ Families' /\ Locks'
  BY DEF Books, Shapes, Families, Locks, Held, InTx
<1>2. AtBooks'
  <2>1. ASSUME NEW v \in Workers PROVE AtOK(v)'
    <3>2. AtOK(v)
      BY DEF AtOK, Books, AtBooks
    <3>3. worker[v].op = "exchange" \/ worker[v].pc = "commit" => InTx(v)
      BY DEF Books, TypeOK, Shapes, Shape, WorkerState, InTx, Idle
    <3> QED BY <3>2, <3>3 DEF AtOK, InTx, Same
  <2> QED BY <2>1 DEF AtBooks, AtOK
<1> QED BY <1>1, <1>2

(* the ways a step can treat the rows                                      *)
Writes ==
  \/ row' = row /\ issued' = issued /\ spent' = spent
  \/ \E c \in Codes, p \in Principals : IssueCode(c, p)
  \/ \E X, t : Ending(X, t) /\ issued' = issued /\ spent' = spent
  \/ \E w \in Workers : IssueTokens(w)
  \/ CleanupOAuthRows

LEMMA StepWrites ==
  ASSUME Books, Next
  PROVE  Writes
<1>0. clock \in 1..MaxTime
  BY DEF Books, TypeOK
<1>1. ASSUME NEW w \in Workers, RequestStep(w) PROVE Writes
  <2>1. CASE \E x \in Rows : RevokeToken(w, x)
    BY <1>0, <2>1 DEF RevokeToken, Ending, Writes, ghosts
  <2>2. CASE Update(w)
    <3>1. worker[w].now \in 1..MaxTime
      BY <2>2, OAuthTokensAssumption DEF Update, Books, TypeOK, Shapes, Shape, WorkerState
    <3> QED BY <2>2, <3>1 DEF Update, Ending, Writes, ghosts
  <2>3. CASE CloseFamily(w)
    <3>1. worker[w].now \in 1..MaxTime
      BY <2>3, OAuthTokensAssumption DEF CloseFamily, Books, TypeOK, Shapes, Shape, WorkerState
    <3> QED BY <2>3, <3>1 DEF CloseFamily, Ending, Writes
  <2>4. CASE IssueTokens(w)
    BY <2>4 DEF Writes
  <2>5. CASE \/ \E c \in Codes : SelectCode(w, c)
             \/ \E n \in Ids : SelectRefresh(w, n)
             \/ \E p \in Principals : ReadIdentity(w, p)
             \/ Check(w) \/ Refuse(w) \/ DenyIdentity(w) \/ Snap(w) \/ RevokeKeys(w) \/ Victim(w) \/ Die(w)
    BY <2>5 DEF SelectCode, SelectRefresh, ReadIdentity, Check, Refuse, DenyIdentity, Snap, RevokeKeys, Victim,
                Die, Writes, ghosts
  <2> QED BY <1>1, <2>1, <2>2, <2>3, <2>4, <2>5 DEF RequestStep, Step
<1>2. CASE \E p \in Principals : RestoreIdentity(p) \/ RevokeKey(p)
  BY <1>2 DEF RestoreIdentity, RevokeKey, Writes, ghosts
<1>3. CASE Tick
  BY <1>3 DEF Tick, Writes, ghosts
<1>4. CASE (\E c \in Codes, p \in Principals : IssueCode(c, p)) \/ CleanupOAuthRows
  BY <1>4 DEF Writes
<1> QED BY <1>1, <1>2, <1>3, <1>4 DEF Next, RequestStep

LEMMA RowTypes ==
  ASSUME Books, Writes
  PROVE  row' \in [Rows -> RowState]
<1>0. row \in [Rows -> RowState] /\ clock \in Nat
  BY OAuthTokensAssumption DEF Books, TypeOK
<1>1. CASE row' = row
  BY <1>0, <1>1
<1>2. ASSUME NEW c \in Codes, NEW p \in Principals, IssueCode(c, p) PROVE row' \in [Rows -> RowState]
  <2> DEFINE r == [present |-> TRUE, principal |-> p, origin |-> c, family |-> 0, expires |-> clock + CodeTtl, ended |-> 0]
  <2>0. clock + CodeTtl \in Nat
    BY <1>0, OAuthTokensAssumption
  <2>1. r \in RowState
    BY <2>0, OAuthTokensAssumption DEF RowState, Codes
  <2>2. row' = [row EXCEPT ![<<"code", c>>] = r]
    BY <1>2 DEF IssueCode
  <2> HIDE DEF r
  <2> QED BY <1>0, <2>1, <2>2
<1>3. ASSUME NEW X, NEW t, Ending(X, t) PROVE row' \in [Rows -> RowState]
  <2>1. t \in 1..MaxTime /\ row' = Ended(X, t)
    BY <1>3 DEF Ending
  <2> QED BY <1>0, <2>1, EndedRows
<1>4. ASSUME NEW w \in Workers, IssueTokens(w) PROVE row' \in [Rows -> RowState]
  BY <1>4, IssueFacts DEF Issues
<1>5. CASE CleanupOAuthRows
  <2>1. \A x \in Rows : [row[x] EXCEPT !.present = FALSE] \in RowState
    BY <1>0 DEF RowState
  <2> QED BY <1>0, <1>5, <2>1 DEF CleanupOAuthRows
<1> QED BY <1>1, <1>2, <1>3, <1>4, <1>5 DEF Writes

(* a row that is written is kept, ended or forgotten                       *)
LEMMA RowFate ==
  ASSUME Books, Writes, NEW x \in Rows
  PROVE  Same(x) \/ Closes(x) \/ Forgotten(x) \/ row[x] = Unwritten
<1>0. row \in [Rows -> RowState]
  BY DEF Books, TypeOK
<1>1. CASE row' = row
  BY <1>1 DEF Same
<1>2. ASSUME NEW c \in Codes, NEW p \in Principals, IssueCode(c, p) PROVE Same(x) \/ row[x] = Unwritten
  <2>1. CASE x = <<"code", c>>
    BY <1>2, <2>1 DEF IssueCode, Books, CodeBooks
  <2>2. CASE x # <<"code", c>>
    BY <1>0, <1>2, <2>2 DEF IssueCode, Same
  <2> QED BY <2>1, <2>2
<1>3. ASSUME NEW X, NEW t, Ending(X, t) PROVE Same(x) \/ Closes(x)
  <2>1. t \in 1..MaxTime /\ row' = Ended(X, t)
    BY <1>3 DEF Ending
  <2>2. CASE x \in X /\ Live(x)
    <3>1. row'[x] = [row[x] EXCEPT !.ended = t]
      BY <1>0, <2>1, <2>2 DEF Ended
    <3> QED BY <2>1, <2>2, <3>1 DEF Closes
  <2>3. CASE ~(x \in X /\ Live(x))
    BY <1>0, <2>1, <2>3 DEF Ended, Same
  <2> QED BY <2>2, <2>3
<1>4. ASSUME NEW w \in Workers, IssueTokens(w) PROVE Same(x) \/ Closes(x) \/ row[x] = Unwritten
  <2>1. PICK n, y, f : Issues(w, n, y, f)
    BY <1>4, IssueFacts
  <2>2. CASE x = y
    BY <2>1, <2>2 DEF Issues, Closes
  <2>3. CASE x \in Pair(n)
    BY <2>1, <2>3 DEF Issues
  <2>4. CASE x # y /\ x \notin Pair(n)
    BY <2>1, <2>4 DEF Issues, Same
  <2> QED BY <2>2, <2>3, <2>4
<1>5. CASE CleanupOAuthRows
  BY <1>0, <1>5 DEF CleanupOAuthRows, Same, Forgotten
<1> QED BY <1>1, <1>2, <1>3, <1>4, <1>5 DEF Writes

(* what stays of a written row                                             *)
LEMMA WrittenStays ==
  ASSUME Books, Writes, NEW x \in Rows, row[x] # Unwritten
  PROVE  /\ row'[x] # Unwritten
         /\ row[x].expires # 0
         /\ row'[x].family = row[x].family /\ row'[x].origin = row[x].origin
         /\ row'[x].expires = row[x].expires /\ row'[x].principal = row[x].principal
         /\ row'[x].ended = row[x].ended \/ (row[x].ended = 0 /\ row'[x].ended \in 1..MaxTime)
         /\ Live(x)' => Live(x)
         /\ row'[x].present => row[x].present
<1>1. row[x] \in RowState
  BY DEF Books, TypeOK
<1>2. row[x].expires # 0
  <2>1. CASE x \in TokenRows
    BY <2>1 DEF Books, TokenBooks
  <2>2. CASE x[2] \in Codes /\ x = <<"code", x[2]>>
    BY <2>2 DEF Books, CodeBooks
  <2> QED BY <2>1, <2>2, RowKinds
<1>3. Same(x) \/ Closes(x) \/ Forgotten(x)
  BY RowFate
<1>4. CASE Same(x)
  BY <1>2, <1>4 DEF Same, Live
<1>5. CASE Closes(x)
  <2>1. PICK t \in 1..MaxTime : row'[x] = [row[x] EXCEPT !.ended = t]
    BY <1>5 DEF Closes
  <2>2. /\ row'[x].family = row[x].family /\ row'[x].origin = row[x].origin
        /\ row'[x].expires = row[x].expires /\ row'[x].principal = row[x].principal
        /\ row'[x].ended = t /\ row'[x].present = row[x].present
    BY <1>1, <2>1 DEF RowState
  <2>3. row[x].ended = 0 /\ t # 0
    BY <1>5 DEF Closes, Live
  <2> QED BY <1>2, <2>2, <2>3 DEF Live, Unwritten
<1>6. CASE Forgotten(x)
  <2>2. /\ row'[x].family = row[x].family /\ row'[x].origin = row[x].origin
        /\ row'[x].expires = row[x].expires /\ row'[x].principal = row[x].principal
        /\ row'[x].ended = row[x].ended /\ row'[x].present = FALSE
    BY <1>1, <1>6 DEF RowState, Forgotten
  <2> QED BY <1>2, <2>2 DEF Live, Unwritten
<1> QED BY <1>3, <1>4, <1>5, <1>6

(* a row appears as a code of the consent, or in the pair of a commit      *)
Appears(x) ==
  \/ \E c \in Codes, p \in Principals : IssueCode(c, p) /\ x = <<"code", c>>
  \/ \E w \in Workers : IssueTokens(w) /\ \E n, y, f : Issues(w, n, y, f) /\ x \in Pair(n)

LEMMA RowOrigin ==
  ASSUME Books, Writes, NEW x \in Rows, row[x] = Unwritten
  PROVE  row'[x] = Unwritten \/ Appears(x)
<1>0. row \in [Rows -> RowState]
  BY DEF Books, TypeOK
<1>00. ~Live(x) /\ ~row[x].present
  BY DEF Unwritten, Live
<1>1. CASE row' = row
  BY <1>1
<1>2. ASSUME NEW c \in Codes, NEW p \in Principals, IssueCode(c, p) PROVE row'[x] = Unwritten \/ Appears(x)
  <2>1. CASE x = <<"code", c>>
    BY <1>2, <2>1 DEF Appears
  <2>2. CASE x # <<"code", c>>
    BY <1>0, <1>2, <2>2 DEF IssueCode
  <2> QED BY <2>1, <2>2
<1>3. ASSUME NEW X, NEW t, Ending(X, t) PROVE row'[x] = Unwritten
  BY <1>0, <1>00, <1>3 DEF Ending, Ended
<1>4. ASSUME NEW w \in Workers, IssueTokens(w) PROVE row'[x] = Unwritten \/ Appears(x)
  <2>1. PICK n, y, f : Issues(w, n, y, f)
    BY <1>4, IssueFacts
  <2>2. CASE x = y
    BY <2>1, <2>2 DEF Issues
  <2>3. CASE x \in Pair(n)
    BY <1>4, <2>1, <2>3 DEF Appears
  <2>4. CASE x # y /\ x \notin Pair(n)
    BY <2>1, <2>4 DEF Issues
  <2> QED BY <2>2, <2>3, <2>4
<1>5. CASE CleanupOAuthRows
  BY <1>0, <1>00, <1>5 DEF CleanupOAuthRows, Sweepable
<1> QED BY <1>1, <1>2, <1>3, <1>4, <1>5 DEF Writes

(* the pairs issued are counted                                            *)
LEMMA IssuedGrows ==
  ASSUME Books, Writes
  PROVE  /\ issued \in Nat /\ issued' \in 0..MaxTokens /\ issued' >= issued
         /\ issued' = issued \/ issued' = issued + 1
<1>1. issued \in 0..MaxTokens /\ MaxTokens \in Nat
  BY OAuthTokensAssumption DEF Books, TypeOK
<1>2. issued' = issued \/ (issued' = issued + 1 /\ issued + 1 \in Ids)
  BY DEF Writes, IssueCode, IssueTokens, CleanupOAuthRows
<1> QED BY <1>1, <1>2 DEF Ids

(* what a new token carries                                                *)
Inherits(x, n, y, f) ==
  /\ row'[x].principal = row[y].principal /\ row'[x].principal \in Principals
  /\ row'[x].origin = row[y].origin /\ row'[x].origin \in Codes
  /\ row'[x].family = f /\ f \in 1..(issued + 1)
  /\ row'[x].expires # 0 /\ row'[x].present /\ row'[x].ended = 0
  /\ row'[<<"code", row[y].origin>>].ended # 0
  /\ row'[<<"code", row[y].origin>>].expires # 0
  /\ x \in TokenRows /\ x[2] = n /\ x[2] \in 1..(issued + 1)

LEMMA NewToken ==
  ASSUME Books, NEW w \in Workers, IssueTokens(w), NEW n, NEW y, NEW f, Issues(w, n, y, f),
         NEW x \in Pair(n), row'[x] # Unwritten
  PROVE  Inherits(x, n, y, f)
<1>0. /\ row \in [Rows -> RowState] /\ clock \in Nat /\ clock >= 1 /\ issued \in Nat
      /\ AccessTtl \in Nat /\ RefreshTtl \in Nat
  BY OAuthTokensAssumption DEF Books, TypeOK
<1>1. y \in Rows /\ row[y] # Unwritten /\ row[y].present /\ n = issued + 1 /\ n \in Ids
  BY DEF Issues, Live
<1>2. PICK ttl \in Nat : row'[x] = Token(y, f, ttl)
  BY <1>0 DEF Issues, Pair
<1>3. /\ row'[x].principal = row[y].principal /\ row'[x].origin = row[y].origin /\ row'[x].family = f
      /\ row'[x].expires = clock + ttl /\ row'[x].present = TRUE /\ row'[x].ended = 0
  BY <1>2 DEF Token
<1>4. clock + ttl # 0
  BY <1>0
<1>5. row[y].principal \in Principals
  BY <1>1, WrittenPrincipal
<1>6. x \in TokenRows /\ x[2] = n /\ n \in 1..(issued + 1)
  <2>1. x = <<"access", n>> \/ x = <<"refresh", n>>
    BY DEF Pair
  <2>2. x \in TokenRows /\ x[2] = n
    BY <1>1, <2>1 DEF TokenRows
  <2>3. n \in 1..(issued + 1)
    BY <1>0, <1>1
  <2> QED BY <2>2, <2>3
<1>7. Writes
  BY DEF Writes
<1>8. CASE worker[w].op = "exchange"
  <2>1. y \in {"code"} \X Codes
    BY <1>8 DEF Issues
  <2>2. PICK c \in Codes : y = <<"code", c>>
    BY <2>1
  <2>3. row[y].origin = c /\ row[y].expires # 0
    BY <1>1, <2>2 DEF Books, CodeBooks
  <2>4. row'[y] = [row[y] EXCEPT !.ended = worker[w].now] /\ worker[w].now # 0
    BY DEF Issues
  <2>5. row'[y].ended # 0 /\ row'[y].expires # 0
    BY <1>0, <1>1, <2>3, <2>4 DEF RowState
  <2>6. f \in 1..(issued + 1)
    BY <1>0, <1>8 DEF Issues
  <2> QED BY <1>3, <1>4, <1>5, <1>6, <2>2, <2>3, <2>5, <2>6 DEF Inherits
<1>9. CASE worker[w].op # "exchange"
  <2>1. y \in {"refresh"} \X Ids /\ f = row[y].family
    BY <1>9 DEF Issues, InTx
  <2>2. y \in TokenRows
    BY <2>1 DEF TokenRows
  <2>3. /\ row[y].family \in 1..issued
        /\ row[y].origin \in Codes
        /\ row[<<"code", row[y].origin>>].ended # 0
        /\ row[<<"code", row[y].origin>>].expires # 0
    BY <1>1, <2>2 DEF Books, TokenBooks
  <2> DEFINE z == <<"code", row[y].origin>>
  <2>4. z \in Rows /\ row[z] # Unwritten
    BY <2>3, RowKinds DEF Unwritten
  <2>5. row'[z].ended # 0 /\ row'[z].expires # 0
    <3> HIDE DEF z
    <3>1. row[z].ended # 0
      BY <2>3 DEF z
    <3> QED BY <1>7, <2>4, <3>1, WrittenStays
  <2>6. f \in 1..(issued + 1)
    BY <1>0, <2>1, <2>3
  <2> QED BY <1>3, <1>4, <1>5, <1>6, <2>3, <2>5, <2>6 DEF Inherits
<1> QED BY <1>8, <1>9

LEMMA CodeBooksKept ==
  ASSUME Books, Writes
  PROVE  CodeBooks'
<1> SUFFICES ASSUME NEW c \in Codes
             PROVE  LET r == row'[<<"code", c>>] IN
                      r = Unwritten \/ (r.family = 0 /\ r.origin = c /\ r.expires # 0 /\ r.principal \in Principals)
  BY DEF CodeBooks
<1> DEFINE x == <<"code", c>>
<1>1. x \in Rows /\ x \notin TokenRows
  BY RowKinds
<1>2. CASE row[x] # Unwritten
  <2>1. row[x].family = 0 /\ row[x].origin = c /\ row[x].expires # 0 /\ row[x].principal \in Principals
    BY <1>2 DEF Books, CodeBooks
  <2> HIDE DEF x
  <2>2. /\ row'[x].family = row[x].family /\ row'[x].origin = row[x].origin
        /\ row'[x].expires = row[x].expires /\ row'[x].principal = row[x].principal
    BY <1>1, <1>2, WrittenStays
  <2> QED BY <2>1, <2>2 DEF x
<1>3. CASE row[x] = Unwritten /\ Appears(x)
  <2>1. ASSUME NEW d \in Codes, NEW p \in Principals, IssueCode(d, p), x = <<"code", d>>
        PROVE  row'[x].family = 0 /\ row'[x].origin = c /\ row'[x].expires # 0 /\ row'[x].principal \in Principals
    <3>1. c = d
      BY <2>1
    <3>2. clock \in Nat /\ clock >= 1 /\ CodeTtl \in Nat /\ row \in [Rows -> RowState]
      BY OAuthTokensAssumption DEF Books, TypeOK
    <3>3. row'[x] = [present |-> TRUE, principal |-> p, origin |-> d, family |-> 0, expires |-> clock + CodeTtl, ended |-> 0]
      BY <1>1, <2>1, <3>2 DEF IssueCode
    <3>4. clock + CodeTtl # 0
      BY <3>2
    <3> QED BY <3>1, <3>3, <3>4
  <2>2. ASSUME NEW w \in Workers, NEW n, NEW y, NEW f, Issues(w, n, y, f), x \in Pair(n) PROVE FALSE
    BY <1>1, <2>2, RowKinds DEF Issues, Pair
  <2> QED BY <1>3, <2>1, <2>2 DEF Appears
<1> QED BY <1>1, <1>2, <1>3, RowOrigin

LEMMA TokenBooksKept ==
  ASSUME Books, Writes
  PROVE  TokenBooks'
<1> DEFINE Known(x, i) == /\ x[2] \in 1..i
                          /\ row'[x].family \in 1..i
                          /\ row'[x].expires # 0
                          /\ row'[x].principal \in Principals
                          /\ row'[x].origin \in Codes
                          /\ row'[<<"code", row'[x].origin>>].ended # 0
                          /\ row'[<<"code", row'[x].origin>>].expires # 0
<1> SUFFICES ASSUME NEW x \in TokenRows
             PROVE  row'[x] = Unwritten \/ Known(x, issued')
  BY DEF TokenBooks
<1>1. x \in Rows
  BY RowKinds
<1>2. CASE row[x] # Unwritten
  <2>1. /\ x[2] \in 1..issued /\ row[x].family \in 1..issued /\ row[x].expires # 0
        /\ row[x].principal \in Principals /\ row[x].origin \in Codes
        /\ row[<<"code", row[x].origin>>].ended # 0 /\ row[<<"code", row[x].origin>>].expires # 0
    BY <1>2 DEF Books, TokenBooks
  <2>2. /\ row'[x].family = row[x].family /\ row'[x].origin = row[x].origin
        /\ row'[x].expires = row[x].expires /\ row'[x].principal = row[x].principal
    BY <1>1, <1>2, WrittenStays
  <2>3. PICK z \in Rows : z = <<"code", row[x].origin>>
    BY <2>1, RowKinds
  <2>4. row[z].ended # 0 /\ row[z] # Unwritten
    BY <2>1, <2>3 DEF Unwritten
  <2>5. row'[z].ended # 0 /\ row'[z].expires # 0
    BY <2>4, WrittenStays
  <2>6. 1..issued \subseteq 1..issued'
    BY IssuedGrows
  <2> QED BY <2>1, <2>2, <2>3, <2>5, <2>6
<1>3. CASE row[x] = Unwritten /\ Appears(x) /\ row'[x] # Unwritten
  <2>1. \A d \in Codes : x # <<"code", d>>
    BY RowKinds
  <2>7. PICK w \in Workers : IssueTokens(w) /\ \E n, y, f : Issues(w, n, y, f) /\ x \in Pair(n)
    BY <1>3, <2>1 DEF Appears
  <2>2. PICK n, y, f : IssueTokens(w) /\ Issues(w, n, y, f) /\ x \in Pair(n)
    BY <2>7
  <2>3. issued' = issued + 1
    BY <2>2 DEF IssueTokens
  <2>4. Inherits(x, n, y, f)
    BY <1>3, <2>2, NewToken
  <2> QED BY <2>3, <2>4 DEF Inherits
<1> QED BY <1>1, <1>2, <1>3, RowOrigin

(* most steps leave the clock, the grants and the ghosts alone             *)
Quiet == UNCHANGED <<clock, issued, grant, spent, closed, raced, complete, slipped>>

LEMMA WhoTouches ==
  ASSUME Next
  PROVE  /\ requests' = requests \/ Request
         /\ \/ Quiet
            \/ Tick
            \/ \E w \in Workers : IssueTokens(w) \/ DenyIdentity(w) \/ CloseFamily(w) \/ RevokeKeys(w)
            \/ \E p \in Principals : RestoreIdentity(p) \/ RevokeKey(p)
<1> DEFINE Polite == requests' = requests \/ Request
<1>1. ASSUME NEW w \in Workers, NEW c \in Codes, SelectCode(w, c) PROVE Quiet /\ Polite
  BY <1>1 DEF SelectCode, Arrive, Quiet, ghosts
<1>2. ASSUME NEW w \in Workers, NEW n \in Ids, SelectRefresh(w, n) PROVE Quiet /\ Polite
  BY <1>2 DEF SelectRefresh, Arrive, Quiet, ghosts
<1>3. ASSUME NEW w \in Workers, NEW x \in Rows, RevokeToken(w, x) PROVE Quiet /\ Polite
  BY <1>3 DEF RevokeToken, Arrive, Quiet, ghosts
<1>4. ASSUME NEW w \in Workers, NEW p \in Principals, ReadIdentity(w, p) PROVE Quiet /\ Polite
  BY <1>4 DEF ReadIdentity, Arrive, Quiet, ghosts
<1>5. ASSUME NEW w \in Workers, Check(w) \/ Refuse(w) \/ Snap(w) \/ Update(w) \/ Victim(w) \/ Die(w)
      PROVE  Quiet /\ Polite
  BY <1>5 DEF Check, Refuse, Snap, Update, Victim, Die, Quiet, ghosts
<1>6. ASSUME NEW c \in Codes, NEW p \in Principals, IssueCode(c, p) PROVE Quiet /\ Polite
  BY <1>6 DEF IssueCode, Quiet, ghosts
<1>7. ASSUME CleanupOAuthRows PROVE Quiet /\ Polite
  BY <1>7 DEF CleanupOAuthRows, Quiet, ghosts
<1>8. ASSUME NEW w \in Workers, IssueTokens(w) \/ DenyIdentity(w) \/ CloseFamily(w) \/ RevokeKeys(w) PROVE Polite
  BY <1>8 DEF IssueTokens, DenyIdentity, CloseFamily, RevokeKeys
<1>9. ASSUME NEW p \in Principals, RestoreIdentity(p) \/ RevokeKey(p) PROVE Polite
  BY <1>9 DEF RestoreIdentity, RevokeKey
<1>10. ASSUME Tick PROVE Polite
  BY <1>10 DEF Tick
<1> HIDE DEF Polite
<1>11. /\ Polite
       /\ \/ Quiet
          \/ Tick
          \/ \E w \in Workers : IssueTokens(w) \/ DenyIdentity(w) \/ CloseFamily(w) \/ RevokeKeys(w)
          \/ \E p \in Principals : RestoreIdentity(p) \/ RevokeKey(p)
  BY <1>1, <1>2, <1>3, <1>4, <1>5, <1>6, <1>7, <1>8, <1>9, <1>10 DEF Next, Step
<1> QED BY <1>11 DEF Polite

(* the counters and the ghosts keep their types                            *)
LEMMA CountTypes ==
  ASSUME Books, Next
  PROVE  /\ clock' \in 1..MaxTime /\ grant' \in [Principals -> BOOLEAN] /\ requests' \in 0..MaxRequests
         /\ spent' \in [Ids -> 0..MaxTime] /\ closed' \subseteq Ids /\ raced' \subseteq Rows
         /\ complete' \subseteq Identities /\ slipped' \subseteq Ids
<1> USE OAuthTokensAssumption
<1>0. TypeOK
  BY DEF Books
<1>1. clock' \in 1..MaxTime
  <2>1. clock' = clock \/ (clock < MaxTime /\ clock' = clock + 1)
    BY WhoTouches DEF Quiet, IssueTokens, DenyIdentity, CloseFamily, RevokeKeys, RestoreIdentity, RevokeKey, Tick, ghosts
  <2> QED BY <1>0, <2>1 DEF TypeOK
<1>2. requests' \in 0..MaxRequests
  <2>1. requests' = requests \/ Request
    BY WhoTouches
  <2> QED BY <1>0, <2>1 DEF TypeOK, Request
<1>3. ASSUME NEW w \in Workers, IssueTokens(w)
      PROVE  spent' \in [Ids -> 0..MaxTime] /\ raced' \subseteq Rows /\ slipped' \subseteq Ids
  <2>1. PICK n, y, f : Issues(w, n, y, f)
    BY <1>3, IssueFacts
  <2>2. worker[w].now \in 0..MaxTime /\ n \in Ids /\ n = issued + 1 /\ y = worker[w].at
    BY <2>1 DEF Issues
  <2>3. spent' \in [Ids -> 0..MaxTime]
    BY <1>0, <1>3, <2>2 DEF IssueTokens, TypeOK
  <2>4. \A g, z : Unseen(g, n, z) \subseteq Rows
    BY <2>2 DEF Unseen, Rows
  <2>5. raced' \subseteq Rows
    BY <1>0, <1>3, <2>2, <2>4 DEF IssueTokens, TypeOK
  <2>6. slipped' \subseteq Ids
    BY <1>0, <1>3, <2>2 DEF IssueTokens, TypeOK
  <2> QED BY <2>3, <2>5, <2>6
<1>4. spent' \in [Ids -> 0..MaxTime] /\ raced' \subseteq Rows /\ slipped' \subseteq Ids
  <2>1. (spent' = spent /\ raced' = raced /\ slipped' = slipped) \/ \E w \in Workers : IssueTokens(w)
    BY WhoTouches DEF Quiet, DenyIdentity, CloseFamily, RevokeKeys, RestoreIdentity, RevokeKey, Tick, ghosts
  <2> QED BY <1>0, <1>3, <2>1 DEF TypeOK
<1>5. closed' \subseteq Ids
  <2>1. ASSUME NEW w \in Workers, CloseFamily(w) PROVE closed' \subseteq Ids
    <3>1. worker[w].op \in {"rotate", "revoke"}
      BY <2>1 DEF CloseFamily, Books, TypeOK, Shapes, Shape, WorkerState, Idle
    <3>2. worker[w].family \in Ids
      BY <1>0, <3>1 DEF Books, Families, Ids, TypeOK
    <3> QED BY <1>0, <2>1, <3>2 DEF CloseFamily, TypeOK
  <2>2. closed' = closed \/ \E w \in Workers : CloseFamily(w)
    BY WhoTouches DEF Quiet, IssueTokens, DenyIdentity, RevokeKeys, RestoreIdentity, RevokeKey, Tick, ghosts
  <2> QED BY <1>0, <2>1, <2>2 DEF TypeOK
<1>6. grant' \in [Principals -> BOOLEAN] /\ complete' \subseteq Identities
  <2>1. ASSUME NEW w \in Workers, RevokeKeys(w) PROVE grant' \in [Principals -> BOOLEAN] /\ complete' \subseteq Identities
    <3>1. worker[w].op = "admin"
      BY <2>1 DEF RevokeKeys, Books, TypeOK, Shapes, Shape, WorkerState, Idle
    <3>2. worker[w].who \in Identities
      BY <3>1 DEF Books, Shapes, Shape
    <3>3. \A k \in Principals : (grant[k] /\ k \notin KeysOf[worker[w].who]) \in BOOLEAN
      OBVIOUS
    <3> QED BY <1>0, <2>1, <3>2, <3>3 DEF RevokeKeys, TypeOK
  <2>2. ASSUME NEW w \in Workers, DenyIdentity(w) PROVE grant' \in [Principals -> BOOLEAN] /\ complete' \subseteq Identities
    BY <1>0, <2>2 DEF DenyIdentity, TypeOK
  <2>3. ASSUME NEW p \in Principals, RestoreIdentity(p) \/ RevokeKey(p)
        PROVE  grant' \in [Principals -> BOOLEAN] /\ complete' \subseteq Identities
    BY <1>0, <2>3 DEF RestoreIdentity, RevokeKey, TypeOK, ghosts
  <2>4. \/ grant' = grant /\ complete' = complete
        \/ \E w \in Workers : RevokeKeys(w) \/ DenyIdentity(w)
        \/ \E p \in Principals : RestoreIdentity(p) \/ RevokeKey(p)
    BY WhoTouches DEF Quiet, IssueTokens, CloseFamily, Tick, ghosts
  <2> QED BY <1>0, <2>1, <2>2, <2>3, <2>4 DEF TypeOK
<1> QED BY <1>1, <1>2, <1>4, <1>5, <1>6

LEMMA BooksKept ==
  ASSUME Books, [Next]_vars
  PROVE  Books'
<1>1. CASE UNCHANGED vars
  <2>1. TypeOK'
    BY <1>1 DEF Books, TypeOK, vars
  <2>2. Shapes' /\ Families' /\ Locks'
    BY <1>1 DEF Books, Shapes, Families, Locks, Held, InTx, vars
  <2>3. AtBooks' /\ CodeBooks' /\ TokenBooks'
    BY <1>1 DEF Books, AtBooks, InTx, CodeBooks, TokenBooks, vars
  <2> QED BY <2>1, <2>2, <2>3 DEF Books
<1>2. CASE Next
  <2>1. Writes
    BY <1>2, StepWrites
  <2>2. /\ issued \in Nat /\ issued' \in 0..MaxTokens /\ issued' >= issued /\ issued' \in Nat
        /\ row' \in [Rows -> RowState] /\ CodeBooks' /\ TokenBooks'
    BY <2>1, IssuedGrows, RowTypes, CodeBooksKept, TokenBooksKept, OAuthTokensAssumption
  <2>3. ASSUME NEW w \in Workers, RequestStep(w)
        PROVE  worker' \in [Workers -> WorkerState] /\ Shapes' /\ Families' /\ Locks' /\ AtBooks'
    <3>1. Foot(w)
      BY <2>3, Footprint
    <3> QED BY <2>2, <3>1, WorkerBooksKept DEF Foot
  <2>4. ASSUME \/ \E c \in Codes, p \in Principals : IssueCode(c, p)
               \/ \E p \in Principals : RestoreIdentity(p) \/ RevokeKey(p)
               \/ CleanupOAuthRows
               \/ Tick
        PROVE  worker' \in [Workers -> WorkerState] /\ Shapes' /\ Families' /\ Locks' /\ AtBooks'
    <3>1. worker' = worker /\ issued' = issued /\ worker \in [Workers -> WorkerState] /\ row \in [Rows -> RowState]
      BY <2>4 DEF IssueCode, RestoreIdentity, RevokeKey, CleanupOAuthRows, Tick, Books, TypeOK
    <3>2. ASSUME NEW v \in Workers, InTx(v) PROVE Same(worker[v].at)
      <4>1. worker[v].at \in Rows /\ row[worker[v].at].present
        BY <3>2, HeldAlone
      <4>2. row[worker[v].at] # Unwritten
        BY <4>1 DEF Unwritten
      <4>3. ASSUME NEW c \in Codes, NEW p \in Principals, IssueCode(c, p) PROVE Same(worker[v].at)
        <5>1. row[worker[v].at].expires # 0
          BY <2>1, <4>1, <4>2, WrittenStays
        <5> QED BY <3>1, <4>1, <4>3, <5>1 DEF IssueCode, Same
      <4>4. CASE CleanupOAuthRows
        <5>1. worker[v].at \in Held(v)
          BY <3>2 DEF Held
        <5>2. ~Sweepable(worker[v].at)
          BY <4>1, <4>4, <5>1 DEF CleanupOAuthRows
        <5> QED BY <4>1, <4>4, <5>2 DEF CleanupOAuthRows, Same
      <4>5. CASE (\E p \in Principals : RestoreIdentity(p) \/ RevokeKey(p)) \/ Tick
        BY <4>5 DEF RestoreIdentity, RevokeKey, Tick, Same
      <4> QED BY <2>4, <4>3, <4>4, <4>5
    <3> QED BY <3>1, <3>2, QuietBooksKept
  <2>5. worker' \in [Workers -> WorkerState] /\ Shapes' /\ Families' /\ Locks' /\ AtBooks'
    BY <1>2, <2>3, <2>4 DEF Next, RequestStep
  <2>6. TypeOK'
    BY <1>2, <2>2, <2>5, CountTypes DEF TypeOK
  <2> QED BY <2>2, <2>5, <2>6 DEF Books
<1> QED BY <1>1, <1>2

LEMMA BooksInit ==
  ASSUME Init
  PROVE  Books
<1> USE OAuthTokensAssumption
<1>1. TypeOK
  BY IdleShape, UnwrittenShape DEF Init, TypeOK
<1>2. Shapes /\ Families /\ Locks /\ AtBooks
  BY IdleShape DEF Init, Shapes, Families, Locks, AtBooks, Held, InTx, Idle
<1>3. CodeBooks /\ TokenBooks
  BY RowKinds DEF Init, CodeBooks, TokenBooks
<1> QED BY <1>1, <1>2, <1>3 DEF Books

(* The requests, the rows and the locks are always in order: no row is     *)
(* locked twice, the row a transaction has read FOR UPDATE is as it was    *)
(* when it was checked, every token goes back to a used code.              *)
THEOREM TokenLedger == Spec => []Books
<1>1. Init => Books
  BY BooksInit
<1>2. Books /\ [Next]_vars => Books'
  BY BooksKept
<1> QED BY <1>1, <1>2, PTL DEF Spec

-----------------------------------------------------------------------------
(* Single use and the memory of replays *)

LEMMA OriginsKept ==
  ASSUME Books, OriginBooks, Writes
  PROVE  OriginBooks'
<1>1. ASSUME NEW x \in TokenRows, row[x] # Unwritten
      PROVE  row'[x].origin = row[x].origin /\ row'[x].family = row[x].family
  BY <1>1, WrittenStays, RowKinds
<1>2. ASSUME NEW x \in TokenRows, row[x] = Unwritten, row'[x] # Unwritten
      PROVE  \E w \in Workers : \E n, y, f : IssueTokens(w) /\ Issues(w, n, y, f) /\ x \in Pair(n)
  BY <1>2, RowOrigin, RowKinds DEF Appears
<1>3. ASSUME NEW x \in TokenRows, NEW z \in TokenRows, row'[x].origin = row'[z].origin,
             row[x] = Unwritten, row'[x] # Unwritten, row'[z] # Unwritten
      PROVE  row'[x].family = row'[z].family
  <2>1w. PICK w \in Workers : \E n, y, f : IssueTokens(w) /\ Issues(w, n, y, f) /\ x \in Pair(n)
    BY <1>2, <1>3
  <2>1. PICK n, y, f : IssueTokens(w) /\ Issues(w, n, y, f) /\ x \in Pair(n)
    BY <2>1w
  <2>2. row'[x].family = f /\ row'[x].origin = row[y].origin
    <3>1. Inherits(x, n, y, f)
      BY <1>3, <2>1, NewToken
    <3> QED BY <3>1 DEF Inherits
  <2>3. CASE z \in Pair(n)
    <3>1. Inherits(z, n, y, f)
      BY <1>3, <2>1, <2>3, NewToken
    <3> QED BY <2>2, <3>1 DEF Inherits
  <2>4. CASE z \notin Pair(n)
    <3>1. row[z] # Unwritten
      <4>1. CASE z = y
        BY <2>1, <4>1 DEF Issues
      <4>2. CASE z # y
        BY <1>3, <2>1, <2>4, <4>2, RowKinds DEF Issues
      <4> QED BY <4>1, <4>2
    <3>2. row'[z].origin = row[z].origin /\ row'[z].family = row[z].family
      BY <1>1, <3>1
    <3>3. row[z].origin = row[y].origin
      BY <1>3, <2>2, <3>2
    <3>4. row[z].origin \in Codes /\ row[<<"code", row[z].origin>>].ended # 0
      BY <3>1 DEF Books, TokenBooks
    <3>5. worker[w].op # "exchange"
      <4> SUFFICES ASSUME worker[w].op = "exchange" PROVE FALSE
        OBVIOUS
      <4>1. y \in {"code"} \X Codes /\ row[y] # Unwritten /\ row[y].ended = 0
        BY <2>1 DEF Issues, Live
      <4>2. PICK c \in Codes : y = <<"code", c>>
        BY <4>1
      <4>3. row[y].origin = c
        BY <4>1, <4>2 DEF Books, CodeBooks
      <4> QED BY <3>3, <3>4, <4>1, <4>2, <4>3
    <3>6. y \in TokenRows /\ f = row[y].family
      BY <2>1, <3>5 DEF Issues, InTx, TokenRows
    <3>7. row[z].origin # 0
      BY <3>4, OAuthTokensAssumption DEF Codes
    <3>8. row[z].family = row[y].family
      BY <3>3, <3>6, <3>7 DEF OriginBooks
    <3> QED BY <2>2, <3>2, <3>6, <3>8
  <2> QED BY <2>3, <2>4
<1>4. \A x \in TokenRows : row'[x].origin # 0 => row'[x] # Unwritten
  BY DEF Unwritten
<1>5. ASSUME NEW x \in TokenRows, NEW z \in TokenRows, row'[x].origin # 0, row'[x].origin = row'[z].origin
      PROVE  row'[x].family = row'[z].family
  <2>1. row'[x] # Unwritten /\ row'[z] # Unwritten
    BY <1>4, <1>5
  <2>2. CASE row[x] # Unwritten /\ row[z] # Unwritten
    BY <1>1, <1>5, <2>2 DEF OriginBooks
  <2>3. CASE row[x] = Unwritten
    BY <1>3, <1>5, <2>1, <2>3
  <2>4. CASE row[z] = Unwritten
    BY <1>3, <1>5, <2>1, <2>4
  <2> QED BY <2>2, <2>3, <2>4
<1> QED BY <1>5 DEF OriginBooks

(* a live token was live, or is of a pair just issued                      *)
LEMMA LiveOrigin ==
  ASSUME Books, Writes, NEW x \in TokenRows, Live(x)'
  PROVE  \/ row[x] # Unwritten /\ Live(x) /\ row'[x].family = row[x].family
         \/ \E w \in Workers : \E n, y, f :
              row[x] = Unwritten /\ IssueTokens(w) /\ Issues(w, n, y, f) /\ x \in Pair(n) /\ Inherits(x, n, y, f)
<1>0. x \in Rows
  BY RowKinds
<1>1. CASE row[x] # Unwritten
  BY <1>0, <1>1, WrittenStays
<1>2. CASE row[x] = Unwritten
  <2>1. row'[x] # Unwritten
    BY DEF Live, Unwritten
  <2>2. \A c \in Codes : x # <<"code", c>>
    BY RowKinds
  <2>3w. PICK w \in Workers : \E n, y, f : IssueTokens(w) /\ Issues(w, n, y, f) /\ x \in Pair(n)
    BY <1>0, <1>2, <2>1, <2>2, RowOrigin DEF Appears
  <2>3. PICK n, y, f : IssueTokens(w) /\ Issues(w, n, y, f) /\ x \in Pair(n)
    BY <2>3w
  <2>4. Inherits(x, n, y, f)
    BY <2>1, <2>3, NewToken
  <2> QED BY <1>2, <2>3, <2>4
<1> QED BY <1>1, <1>2

(* the refresh token a rotation spends was the family's live one           *)
LEMMA SpendsTheLiveOne ==
  ASSUME Books, NEW w \in Workers, NEW n, NEW y, NEW f, Issues(w, n, y, f), f \in 1..issued
  PROVE  \E j \in Ids : y = <<"refresh", j>> /\ j \in LiveRefresh(f) /\ j \notin LiveRefresh(f)'
<1>0. issued \in Nat
  BY OAuthTokensAssumption DEF Books, TypeOK
<1>1. worker[w].op # "exchange"
  BY <1>0 DEF Issues
<1>2. y \in {"refresh"} \X Ids /\ f = row[y].family /\ Live(y)
  BY <1>1 DEF Issues, InTx
<1>3. PICK j \in Ids : y = <<"refresh", j>>
  BY <1>2
<1>4. row'[y].ended # 0
  <2>1. row'[y] = [row[y] EXCEPT !.ended = worker[w].now] /\ worker[w].now # 0 /\ row[y] \in RowState
    BY DEF Issues, Books, TypeOK
  <2> QED BY <2>1 DEF RowState
<1> QED BY <1>2, <1>3, <1>4 DEF LiveRefresh, Live

LEMMA OneLiveKept ==
  ASSUME Books, OneLiveRefresh, Writes
  PROVE  OneLiveRefresh'
<1> SUFFICES ASSUME NEW f \in Ids, NEW m \in LiveRefresh(f)', NEW k \in LiveRefresh(f)'
             PROVE  m = k
  BY DEF OneLiveRefresh
<1>1. /\ m \in Ids /\ Live(<<"refresh", m>>)' /\ row'[<<"refresh", m>>].family = f
      /\ k \in Ids /\ Live(<<"refresh", k>>)' /\ row'[<<"refresh", k>>].family = f
      /\ <<"refresh", m>> \in TokenRows /\ <<"refresh", k>> \in TokenRows
  BY RowKinds DEF LiveRefresh
<1>2. ASSUME NEW i \in Ids, i \in LiveRefresh(f)', row[<<"refresh", i>>] # Unwritten
      PROVE  i \in LiveRefresh(f) /\ f \in 1..issued
  <2>1. <<"refresh", i>> \in TokenRows /\ Live(<<"refresh", i>>)' /\ row'[<<"refresh", i>>].family = f
    BY <1>2, RowKinds DEF LiveRefresh
  <2>2. Live(<<"refresh", i>>) /\ row[<<"refresh", i>>].family = f
    BY <1>2, <2>1, LiveOrigin
  <2>3. f \in 1..issued
    BY <1>2, <2>1, <2>2 DEF Books, TokenBooks
  <2> QED BY <2>2, <2>3 DEF LiveRefresh
<1>3. ASSUME NEW i \in Ids, NEW j \in Ids, i \in LiveRefresh(f)', j \in LiveRefresh(f)',
             row[<<"refresh", i>>] = Unwritten
      PROVE  i = j
  <2>1. <<"refresh", i>> \in TokenRows /\ Live(<<"refresh", i>>)' /\ row'[<<"refresh", i>>].family = f
    BY <1>3, RowKinds DEF LiveRefresh
  <2>2w. PICK w \in Workers : \E n, y, g : /\ IssueTokens(w) /\ Issues(w, n, y, g)
                                           /\ <<"refresh", i>> \in Pair(n) /\ Inherits(<<"refresh", i>>, n, y, g)
    BY <1>3, <2>1, LiveOrigin
  <2>2. PICK n, y, g : /\ IssueTokens(w) /\ Issues(w, n, y, g)
                       /\ <<"refresh", i>> \in Pair(n) /\ Inherits(<<"refresh", i>>, n, y, g)
    BY <2>2w
  <2>3. g = f /\ i = n
    BY <2>1, <2>2 DEF Inherits, Pair
  <2>4. CASE row[<<"refresh", j>>] = Unwritten
    <3>1. <<"refresh", j>> \in TokenRows /\ Live(<<"refresh", j>>)'
      BY <1>3, RowKinds DEF LiveRefresh
    <3>2w. PICK v \in Workers : \E l, z, h : /\ Issues(v, l, z, h) /\ <<"refresh", j>> \in Pair(l)
      BY <2>4, <3>1, LiveOrigin
    <3>2. PICK l, z, h : /\ Issues(v, l, z, h) /\ <<"refresh", j>> \in Pair(l)
      BY <3>2w
    <3>3. j = l /\ l = issued + 1 /\ n = issued + 1
      BY <2>2, <3>2 DEF Issues, Pair
    <3> QED BY <2>3, <3>3
  <2>5. CASE row[<<"refresh", j>>] # Unwritten
    <3>1. j \in LiveRefresh(f) /\ f \in 1..issued
      BY <1>2, <1>3, <2>5
    <3>2. PICK l \in Ids : l \in LiveRefresh(f) /\ l \notin LiveRefresh(f)'
      BY <2>2, <2>3, <3>1, SpendsTheLiveOne
    <3>3. j = l
      BY <3>1, <3>2 DEF OneLiveRefresh
    <3> QED BY <1>3, <3>2, <3>3
  <2> QED BY <2>4, <2>5
<1>4. CASE row[<<"refresh", m>>] = Unwritten
  BY <1>1, <1>3, <1>4
<1>5. CASE row[<<"refresh", k>>] = Unwritten
  BY <1>1, <1>3, <1>5
<1>6. CASE row[<<"refresh", m>>] # Unwritten /\ row[<<"refresh", k>>] # Unwritten
  BY <1>1, <1>2, <1>6 DEF OneLiveRefresh
<1> QED BY <1>4, <1>5, <1>6

LEMMA SpentKept ==
  ASSUME Books, SpentBooks, Next
  PROVE  SpentBooks'
<1>0. /\ clock \in Nat /\ clock' \in Nat /\ Retention \in Nat
      /\ spent \in [Ids -> 0..MaxTime] /\ row \in [Rows -> RowState] /\ MaxTime \in Nat
  BY OAuthTokensAssumption, CountTypes DEF Books, TypeOK
<1>1. clock' >= clock
  <2>1. clock' = clock \/ clock' = clock + 1
    BY WhoTouches DEF Quiet, IssueTokens, DenyIdentity, CloseFamily, RevokeKeys, RestoreIdentity, RevokeKey, Tick, ghosts
  <2> QED BY <1>0, <2>1
<1>2. Writes
  BY StepWrites
<1> DEFINE Remembered(n, t) == LET r == row'[<<"refresh", n>>] IN
             r.ended = t /\ r.expires > t /\ (r.present \/ clock' > t + Retention)
<1> SUFFICES ASSUME NEW n \in Ids, spent'[n] # 0
             PROVE  Remembered(n, spent'[n])
  BY DEF SpentBooks
<1> DEFINE x == <<"refresh", n>>
<1>3. x \in Rows /\ row[x] \in RowState
  BY <1>0, RowKinds
<1>4. CASE spent'[n] = spent[n]
  <2>1. row[x].ended = spent[n] /\ row[x].expires > spent[n] /\ (row[x].present \/ clock > spent[n] + Retention)
    BY <1>4 DEF SpentBooks
  <2>2. spent[n] \in Nat /\ spent[n] # 0
    BY <1>0, <1>4
  <2>3. row[x] # Unwritten /\ ~Live(x)
    BY <2>1, <2>2 DEF Unwritten, Live
  <2>4. Same(x) \/ Forgotten(x)
    BY <1>2, <1>3, <2>3, RowFate DEF Closes
  <2>5. CASE Same(x)
    <3>1. row[x].present => row'[x].present
      BY <2>5 DEF Same
    <3>2. clock > spent[n] + Retention => clock' > spent[n] + Retention
      BY <1>0, <1>1, <2>2
    <3> QED BY <1>4, <2>1, <2>5, <3>1, <3>2 DEF Same
  <2>6. CASE Forgotten(x)
    <3>1. row'[x].ended = row[x].ended /\ row'[x].expires = row[x].expires
      BY <1>3, <2>6 DEF Forgotten, RowState
    <3>2. row[x].expires < clock - Retention \/ row[x].ended < clock - Retention
      BY <2>6 DEF Forgotten, Sweepable
    <3>3. row[x].expires \in Nat
      BY <1>3 DEF RowState
    <3>4. clock' > spent[n] + Retention
      BY <1>0, <1>1, <2>1, <2>2, <3>2, <3>3
    <3> QED BY <1>4, <2>1, <3>1, <3>4
  <2> QED BY <2>4, <2>5, <2>6
<1>5. CASE spent'[n] # spent[n]
  <2>1. PICK w \in Workers : IssueTokens(w)
    BY <1>2, <1>5 DEF Writes, IssueCode, CleanupOAuthRows, ghosts
  <2>2. PICK m, y, f : Issues(w, m, y, f)
    BY <2>1, IssueFacts
  <2>3. y = worker[w].at /\ (y[1] = "refresh" => spent' = [spent EXCEPT ![y[2]] = worker[w].now])
    BY <2>1, <2>2 DEF IssueTokens, Issues
  <2>4. y[1] = "refresh" /\ y[2] = n /\ spent'[n] = worker[w].now
    BY <1>0, <1>5, <2>1, <2>3 DEF IssueTokens
  <2>5. worker[w].op = "rotate"
    BY <2>2, <2>4 DEF Issues, InTx
  <2>6. y \in {"refresh"} \X Ids /\ row[y].expires > worker[w].now
    BY <2>2, <2>5 DEF Issues
  <2>7. y = x
    BY <2>4, <2>6
  <2>8. row'[x] = [row[x] EXCEPT !.ended = worker[w].now] /\ row[x].present
    BY <2>2, <2>7 DEF Issues, Live
  <2>9. row'[x].ended = worker[w].now /\ row'[x].expires = row[x].expires /\ row'[x].present
    BY <1>3, <2>8 DEF RowState
  <2> QED BY <2>4, <2>6, <2>7, <2>9
<1> QED BY <1>4, <1>5

Single == Books /\ OriginBooks /\ OneLiveRefresh /\ SpentBooks

LEMMA SingleInductive ==
  /\ Init => Single
  /\ Single /\ [Next]_vars => Single'
<1>1. Init => OriginBooks /\ OneLiveRefresh /\ SpentBooks
  <2> SUFFICES ASSUME Init PROVE OriginBooks /\ OneLiveRefresh /\ SpentBooks
    OBVIOUS
  <2>1. \A x \in Rows : row[x].origin = 0 /\ row[x].present = FALSE
    BY DEF Init, Unwritten
  <2>2. \A n \in Ids : <<"refresh", n>> \in Rows /\ ~Live(<<"refresh", n>>) /\ spent[n] = 0
    BY <2>1, RowKinds DEF Live, Init
  <2> QED BY <2>1, <2>2, RowKinds DEF OriginBooks, OneLiveRefresh, LiveRefresh, SpentBooks
<1>2. Single /\ Next => OriginBooks' /\ OneLiveRefresh' /\ SpentBooks'
  BY StepWrites, OriginsKept, OneLiveKept, SpentKept DEF Single
<1>3. Single /\ UNCHANGED vars => OriginBooks' /\ OneLiveRefresh' /\ SpentBooks'
  <2>1. Single /\ UNCHANGED vars => OriginBooks'
    BY DEF Single, OriginBooks, vars
  <2>2. Single /\ UNCHANGED vars => OneLiveRefresh'
    BY DEF Single, OneLiveRefresh, LiveRefresh, Live, vars
  <2>3. Single /\ UNCHANGED vars => SpentBooks'
    BY DEF Single, SpentBooks, vars
  <2> QED BY <2>1, <2>2, <2>3
<1> QED BY <1>1, <1>2, <1>3, BooksInit, BooksKept DEF Single

LEMMA SingleIsTokenInv == Single => TokenInv
<1> SUFFICES ASSUME Single PROVE TokenInv
  OBVIOUS
<1>1. TypeOK /\ OneLiveRefresh
  BY DEF Single, Books
<1>2. OneFamilyPerCode
  BY RowKinds DEF Single, OriginBooks, OneFamilyPerCode
<1>3. ReplayRemembered
  <2> SUFFICES ASSUME NEW n \in Ids, spent[n] # 0, clock <= spent[n] + Retention
               PROVE  row[<<"refresh", n>>].present
    BY DEF ReplayRemembered
  <2>1. row[<<"refresh", n>>].present \/ clock > spent[n] + Retention
    BY DEF Single, SpentBooks
  <2>2. clock \in Nat /\ spent[n] \in Nat /\ Retention \in Nat
    BY <1>1, OAuthTokensAssumption DEF TypeOK
  <2> QED BY <2>1, <2>2
<1> QED BY <1>1, <1>2, <1>3 DEF TokenInv

(* However many requests race, a code starts one family, a family has one  *)
(* refresh token that is not revoked, and a rotated refresh token is       *)
(* recognised for the whole retention after the instant it was rotated     *)
(* (server.ts 1574-1702, cleanup.ts 1-29).                                 *)
THEOREM SingleUse == Spec => []TokenInv
<1>1. Init => Single
  BY SingleInductive
<1>2. Single /\ [Next]_vars => Single'
  BY SingleInductive
<1> QED BY <1>1, <1>2, SingleIsTokenInv, PTL DEF Spec

LEMMA NoNewLiveRefresh ==
  ASSUME Books, [Next]_vars, NEW f \in 1..issued, LiveRefresh(f) = {}
  PROVE  LiveRefresh(f)' = {}
<1> SUFFICES ASSUME NEW m \in LiveRefresh(f)' PROVE FALSE
  OBVIOUS
<1>1. CASE UNCHANGED vars
  BY <1>1 DEF LiveRefresh, Live, vars
<1>2. CASE Next
  <2>1. /\ m \in Ids /\ Live(<<"refresh", m>>)' /\ row'[<<"refresh", m>>].family = f
        /\ <<"refresh", m>> \in TokenRows
    BY RowKinds DEF LiveRefresh
  <2>2. Writes
    BY <1>2, StepWrites
  <2>3. row[<<"refresh", m>>] = Unwritten \/ ~Live(<<"refresh", m>>) \/ row[<<"refresh", m>>].family # f
    BY <2>1 DEF LiveRefresh
  <2>4w. PICK w \in Workers : \E n, y, g : /\ Issues(w, n, y, g)
                                           /\ <<"refresh", m>> \in Pair(n) /\ Inherits(<<"refresh", m>>, n, y, g)
    BY <2>1, <2>2, <2>3, LiveOrigin
  <2>4. PICK n, y, g : /\ Issues(w, n, y, g)
                       /\ <<"refresh", m>> \in Pair(n) /\ Inherits(<<"refresh", m>>, n, y, g)
    BY <2>4w
  <2>5. g = f
    BY <2>1, <2>4 DEF Inherits
  <2> QED BY <2>4, <2>5, SpendsTheLiveOne
<1> QED BY <1>1, <1>2

(* A family whose last refresh token is gone never gets another, whatever  *)
(* was in flight when it ended: a rotation commits only on the live token  *)
(* it has locked (server.ts 1635-1702).                                    *)
THEOREM NoResurrection == Spec => DeadFamilyStaysDead
<1>1. Books /\ [Next]_vars => [\A f \in 1..issued : LiveRefresh(f) = {} => LiveRefresh(f)' = {}]_vars
  BY NoNewLiveRefresh
<1> QED BY <1>1, TokenLedger, PTL DEF Spec, DeadFamilyStaysDead

-----------------------------------------------------------------------------
(* Revocations reach what they promise to reach *)

(* a revocation under way has in hand, or has ended, every live token of   *)
(* its family of the kinds it has picked, but for those that raced it      *)
EndSeen ==
  \A v \in Workers, x \in TokenRows :
    ( /\ worker[v].op \in {"rotate", "revoke"}
      /\ Live(x)
      /\ row[x].family = worker[v].family
      /\ HasPicked(v, x[1]) ) => x \in raced \cup worker[v].snap \cup worker[v].pending

(* has the identity's revocation already picked its tokens of this kind    *)
AdminPicked(v, kind) ==
  \/ worker[v].pc = "keys"
  \/ worker[v].pc = "wait" /\ worker[v].kind = kind
  \/ worker[v].pc \in {"snap", "wait"} /\ worker[v].kind = "code"
  \/ worker[v].pc \in {"snap", "wait"} /\ worker[v].kind = "refresh" /\ kind = "access"

AdminSeen ==
  \A v \in Workers, x \in TokenRows :
    ( /\ worker[v].op = "admin"
      /\ worker[v].clean
      /\ ~grant[worker[v].who]
      /\ Live(x)
      /\ row[x].principal = worker[v].who
      /\ AdminPicked(v, x[1]) ) => x[2] \in slipped \/ x \in worker[v].snap

(* a request about to issue to an identity saw its grant                   *)
CommitClean ==
  \A w \in Workers :
    (worker[w].pc = "commit" /\ row[worker[w].at].principal \in Identities) => worker[w].clean

(* a step is a request's, or moves no request                              *)
LEMMA WhoMoves ==
  ASSUME Books, Next
  PROVE  \/ worker' = worker
         \/ \E w \in Workers : RequestStep(w) /\ Foot(w)
<1>1. (\E w \in Workers : RequestStep(w)) => \E w \in Workers : RequestStep(w) /\ Foot(w)
  BY Footprint
<1> QED BY <1>1 DEF Next, RequestStep, IssueCode, RestoreIdentity, RevokeKey, CleanupOAuthRows, Tick

LEMMA GhostsGrow ==
  ASSUME Next
  PROVE  raced \subseteq raced' /\ slipped \subseteq slipped'
BY WhoTouches DEF Quiet, IssueTokens, DenyIdentity, CloseFamily, RevokeKeys, RestoreIdentity, RevokeKey, Tick, ghosts

(* what ending rows leaves alive                                           *)
LEMMA EndedAreDead ==
  ASSUME Books, NEW X, NEW t, Ending(X, t), NEW x \in Rows, x \in X
  PROVE  ~Live(x)'
<1>1. row \in [Rows -> RowState] /\ t \in 1..MaxTime /\ t # 0 /\ row' = Ended(X, t)
  BY DEF Books, TypeOK, Ending
<1>2. CASE Live(x)
  <2>1. row'[x] = [row[x] EXCEPT !.ended = t] /\ row[x] \in RowState
    BY <1>1, <1>2 DEF Ended
  <2>2. row'[x].ended = t
    BY <2>1 DEF RowState
  <2> QED BY <1>1, <2>2 DEF Live
<1>3. CASE ~Live(x)
  <2>1. row'[x] = row[x]
    BY <1>1, <1>3 DEF Ended
  <2> QED BY <1>3, <2>1 DEF Live
<1> QED BY <1>2, <1>3

(* an UPDATE that has waited: in a transaction its rows are pending,       *)
(* outside one they are ended                                              *)
LEMMA UpdateFacts ==
  ASSUME Books, NEW w \in Workers, Update(w)
  PROVE  /\ worker[w].pc = "wait"
         /\ worker'[w].op = worker[w].op /\ worker'[w].family = worker[w].family
         /\ worker'[w].who = worker[w].who /\ worker'[w].clean = worker[w].clean
         /\ worker'[w].kind = Following(w).kind /\ worker'[w].pc = Following(w).pc
         /\ worker'[w].snap = {}
         /\ worker[w].op = "rotate" => worker'[w].pending = worker[w].pending \cup worker[w].snap
         /\ worker[w].op # "rotate" => worker[w].pending = {} /\ Ending(worker[w].snap, worker[w].now)
<1>1. worker[w] \in WorkerState /\ Shape(worker[w]) /\ worker[w].pc = "wait" /\ worker \in [Workers -> WorkerState]
  BY DEF Update, Books, TypeOK, Shapes
<1>2. worker[w].now \in 1..MaxTime
  BY <1>1, OAuthTokensAssumption DEF WorkerState, Shape
<1>3. worker[w].op \in {"rotate", "revoke", "admin"}
  BY <1>1, FollowingFacts
<1>4. /\ worker'[w].op = worker[w].op /\ worker'[w].family = worker[w].family
      /\ worker'[w].who = worker[w].who /\ worker'[w].clean = worker[w].clean
      /\ worker'[w].kind = Following(w).kind /\ worker'[w].pc = Following(w).pc
      /\ worker'[w].snap = {}
      /\ InTx(w) => worker'[w].pending = worker[w].pending \cup worker[w].snap
  BY <1>1 DEF Update, WorkerState
<1>5. worker[w].op = "rotate" => InTx(w)
  BY DEF InTx
<1>6. worker[w].op # "rotate" => ~InTx(w)
  BY <1>3 DEF InTx
<1>7. worker[w].op # "rotate" => worker[w].pending = {}
  BY <1>1 DEF Shape
<1>8. ~InTx(w) => row' = Ended(worker[w].snap, worker[w].now)
  BY DEF Update
<1> QED BY <1>1, <1>2, <1>4, <1>5, <1>6, <1>7, <1>8 DEF Ending

LEMMA SnapFacts ==
  ASSUME Books, NEW w \in Workers, Snap(w)
  PROVE  /\ worker[w].pc = "snap" /\ worker'[w].pc = "wait" /\ row' = row
         /\ worker'[w].op = worker[w].op /\ worker'[w].family = worker[w].family
         /\ worker'[w].who = worker[w].who /\ worker'[w].clean = worker[w].clean
         /\ worker'[w].kind = worker[w].kind /\ worker'[w].pending = worker[w].pending
         /\ worker[w].snap = {}
         /\ worker'[w].snap = Picked(w)
<1>1. worker[w] \in WorkerState /\ Shape(worker[w]) /\ worker[w].pc = "snap" /\ worker \in [Workers -> WorkerState]
  BY DEF Snap, Books, TypeOK, Shapes
<1>2. worker[w].snap = {}
  BY <1>1 DEF Shape
<1>3. row' = row
  BY DEF Snap
<1> QED BY <1>1, <1>2, <1>3 DEF Snap, WorkerState

(* a revocation has picked rows only by its own statements                 *)
LEMMA PicksByUpdate ==
  ASSUME Books, NEW w \in Workers, RequestStep(w), NEW kind,
         \/ worker'[w].op \in {"rotate", "revoke"} /\ HasPicked(w, kind)'
         \/ worker'[w].op = "admin" /\ AdminPicked(w, kind)'
  PROVE  Snap(w) \/ Update(w)
<1>0. worker \in [Workers -> WorkerState] /\ worker[w] \in WorkerState /\ Shape(worker[w])
  BY DEF Books, TypeOK, Shapes
<1>1. worker'[w].op # "idle" /\ worker'[w].pc \in {"snap", "wait", "close", "keys"}
      /\ (worker'[w].pc = "snap" => worker'[w].kind # "access")
  BY DEF HasPicked, AdminPicked
<1>2. ASSUME worker'[w] = Idle PROVE FALSE
  BY <1>1, <1>2 DEF Idle
<1>3. ASSUME NEW c \in Codes, SelectCode(w, c) PROVE FALSE
  BY <1>0, <1>1, <1>3 DEF SelectCode, Idle
<1>4. ASSUME NEW n \in Ids, SelectRefresh(w, n) PROVE FALSE
  BY <1>0, <1>1, <1>4 DEF SelectRefresh, Idle
<1>5. ASSUME NEW x \in Rows, RevokeToken(w, x) PROVE FALSE
  BY <1>0, <1>1, <1>2, <1>5 DEF RevokeToken, Idle
<1>6. ASSUME NEW p \in Principals, ReadIdentity(w, p) PROVE FALSE
  <2>1. worker'[w].kind = "access" /\ worker'[w].pc \in {"deny", "snap"}
    BY <1>0, <1>6 DEF ReadIdentity, Idle
  <2> QED BY <1>1, <2>1
<1>7. ASSUME Check(w) PROVE FALSE
  <2>1. worker[w].kind = "access"
    BY <1>0, <1>7 DEF Check, Shape
  <2>2. worker'[w].kind = worker[w].kind /\ worker'[w].pc \in {"commit", "snap"}
    BY <1>0, <1>7 DEF Check, WorkerState
  <2> QED BY <1>1, <2>1, <2>2
<1>8. ASSUME DenyIdentity(w) PROVE FALSE
  <2>1. worker[w].kind = "access"
    BY <1>0, <1>8 DEF DenyIdentity, Shape
  <2>2. worker'[w].kind = worker[w].kind /\ worker'[w].pc = "snap"
    BY <1>0, <1>8 DEF DenyIdentity, WorkerState
  <2> QED BY <1>1, <2>1, <2>2
<1>9. ASSUME Refuse(w) \/ IssueTokens(w) \/ CloseFamily(w) \/ RevokeKeys(w) \/ Victim(w) \/ Die(w) PROVE FALSE
  <2>1. worker'[w] = Idle
    BY <1>0, <1>9 DEF Refuse, IssueTokens, CloseFamily, RevokeKeys, Victim, Die
  <2> QED BY <1>2, <2>1
<1> QED BY <1>3, <1>4, <1>5, <1>6, <1>7, <1>8, <1>9 DEF RequestStep, Step

(* the pair of a rotation is raced when an end of its family has passed it *)
LEMMA RacedPair ==
  ASSUME Books, NEW w \in Workers, IssueTokens(w), NEW n, NEW y, NEW f, Issues(w, n, y, f), NEW x \in Pair(n)
  PROVE  /\ y \in raced => x \in raced'
         /\ \A v \in Workers :
              (worker[v].op \in {"rotate", "revoke"} /\ worker[v].family = f /\ HasPicked(v, x[1])) => x \in raced'
         /\ (worker[w].clean /\ ~grant[row[y].principal]) => n \in slipped'
<1>1. x \in {"access", "refresh"} \X {n}
  BY DEF Pair
<1>2. y = worker[w].at /\ n = issued + 1 /\ f = IF worker[w].op = "exchange" THEN n ELSE row[y].family
  BY DEF Issues
<1>3. raced' = raced \cup Unseen(f, n, y)
  BY <1>2 DEF IssueTokens
<1>4. (worker[w].clean /\ ~grant[row[y].principal]) => n \in slipped'
  BY <1>2 DEF IssueTokens, PrincipalAt
<1> QED BY <1>1, <1>3, <1>4 DEF Unseen

LEMMA EndSeenKept ==
  ASSUME Books, EndSeen, Next
  PROVE  EndSeen'
<1>0. Writes /\ raced \subseteq raced'
  BY StepWrites, GhostsGrow
<1> SUFFICES ASSUME NEW v \in Workers, NEW x \in TokenRows,
                    worker'[v].op \in {"rotate", "revoke"},
                    Live(x)',
                    row'[x].family = worker'[v].family,
                    HasPicked(v, x[1])'
             PROVE  x \in raced' \cup worker'[v].snap \cup worker'[v].pending
  BY DEF EndSeen
<1>1. CASE worker' = worker \/ \E w \in Workers \ {v} : RequestStep(w) /\ Foot(w)
  <2>1. /\ worker[v].op \in {"rotate", "revoke"} /\ HasPicked(v, x[1])
        /\ worker'[v].family = worker[v].family /\ worker'[v].snap = worker[v].snap
        /\ worker'[v].pending = worker[v].pending
    <3>1. CASE worker' = worker
      BY <3>1 DEF HasPicked
    <3>2. CASE \E w \in Workers \ {v} : RequestStep(w) /\ Foot(w)
      <4>1. Aside(v)
        BY <3>2 DEF Foot
      <4> QED BY <4>1, AsideFields DEF HasPicked
    <3> QED BY <1>1, <3>1, <3>2
  <2>2. CASE row[x] # Unwritten /\ Live(x) /\ row'[x].family = row[x].family
    BY <1>0, <2>1, <2>2 DEF EndSeen
  <2>3. CASE \E w \in Workers : \E n, y, f :
               row[x] = Unwritten /\ IssueTokens(w) /\ Issues(w, n, y, f) /\ x \in Pair(n) /\ Inherits(x, n, y, f)
    <3>1w. PICK w \in Workers : \E n, y, f : IssueTokens(w) /\ Issues(w, n, y, f) /\ x \in Pair(n) /\ Inherits(x, n, y, f)
      BY <2>3
    <3>1. PICK n, y, f : IssueTokens(w) /\ Issues(w, n, y, f) /\ x \in Pair(n) /\ Inherits(x, n, y, f)
      BY <3>1w
    <3>2. worker[v].family = f
      BY <2>1, <3>1 DEF Inherits
    <3>3. x \in raced'
      BY <2>1, <3>1, <3>2, RacedPair
    <3> QED BY <3>3
  <2> QED BY <1>0, <2>2, <2>3, LiveOrigin
<1>2. CASE RequestStep(v)
  <2>0. Snap(v) \/ Update(v)
    BY <1>2, PicksByUpdate
  <2>1. row[x] # Unwritten /\ Live(x) /\ row'[x].family = row[x].family /\ x \in Rows
    <3>1. row' = row \/ \E X, t : Ending(X, t)
      BY <2>0, SnapFacts, UpdateFacts DEF Update, InTx
    <3>2. row[x] # Unwritten
      <4>1. x \in Rows
        BY RowKinds
      <4>2. row[x] = Unwritten => ~Live(x)
        BY DEF Unwritten, Live
      <4>3. CASE row' = row
        BY <4>2, <4>3 DEF Live
      <4>4. ASSUME NEW X, NEW t, Ending(X, t) PROVE row[x] # Unwritten
        <5>1. ~Live(x) => row'[x] = row[x]
          BY <4>1, <4>4 DEF Ending, Ended
        <5> QED BY <4>2, <5>1 DEF Live
      <4> QED BY <3>1, <4>3, <4>4
    <3> QED BY <1>0, <3>2, LiveOrigin, RowKinds
  <2>2. CASE Snap(v)
    <3>1. /\ worker[v].pc = "snap" /\ worker'[v].pc = "wait"
          /\ worker'[v].op = worker[v].op /\ worker'[v].family = worker[v].family
          /\ worker'[v].kind = worker[v].kind /\ worker'[v].pending = worker[v].pending
          /\ worker[v].snap = {} /\ worker'[v].snap = Picked(v)
      BY <2>2, SnapFacts
    <3>2. x[1] = worker[v].kind \/ worker[v].kind = "refresh"
      BY <3>1 DEF HasPicked
    <3>3. CASE x[1] = worker[v].kind
      <4>1. Picked(v) = FamilyRows(worker[v].kind, worker[v].family)
        BY <3>1 DEF Picked
      <4> QED BY <2>1, <3>1, <3>3, <4>1 DEF FamilyRows, Live
    <3>4. CASE worker[v].kind = "refresh" /\ x[1] # "refresh"
      <4>1. x[1] = "access"
        BY <3>4, RowKinds
      <4>2. HasPicked(v, x[1])
        BY <3>1, <3>4, <4>1 DEF HasPicked
      <4> QED BY <1>0, <2>1, <3>1, <4>2 DEF EndSeen
    <3> QED BY <3>2, <3>3, <3>4
  <2>3. CASE Update(v)
    <3>1. /\ worker[v].pc = "wait"
          /\ worker'[v].op = worker[v].op /\ worker'[v].family = worker[v].family
          /\ worker'[v].kind = Following(v).kind /\ worker'[v].pc = Following(v).pc
          /\ worker'[v].snap = {}
          /\ worker[v].op = "rotate" => worker'[v].pending = worker[v].pending \cup worker[v].snap
          /\ worker[v].op # "rotate" => worker[v].pending = {} /\ Ending(worker[v].snap, worker[v].now)
      BY <2>3, UpdateFacts
    <3>2. HasPicked(v, x[1])
      <4>1. worker[v].op # "admin" /\ worker[v].kind \in {"access", "refresh"}
        BY <3>1, FollowingFacts
      <4>2. CASE worker[v].kind = "refresh"
        BY <3>1, <4>2 DEF HasPicked
      <4>3. CASE worker[v].kind = "access"
        <5>1. worker'[v].pc = "snap"
          BY <3>1, <4>1, <4>3, FollowingFacts
        <5>2. x[1] = "access"
          BY <5>1 DEF HasPicked
        <5> QED BY <3>1, <4>3, <5>2 DEF HasPicked
      <4> QED BY <4>1, <4>2, <4>3
    <3>3. x \in raced \cup worker[v].snap \cup worker[v].pending
      BY <2>1, <3>1, <3>2 DEF EndSeen
    <3>4. CASE worker[v].op = "rotate"
      BY <1>0, <3>1, <3>3, <3>4
    <3>5. CASE worker[v].op # "rotate"
      <4>1. x \notin worker[v].snap
        BY <2>1, <3>1, <3>5, EndedAreDead
      <4> QED BY <1>0, <3>1, <3>3, <3>5, <4>1
    <3> QED BY <3>4, <3>5
  <2> QED BY <2>0, <2>2, <2>3
<1> QED BY <1>1, <1>2, WhoMoves

(* only families that exist are ended                                      *)
ClosedKnown == closed \subseteq 1..issued

LEMMA ClosedKnownKept ==
  ASSUME Books, ClosedKnown, Next
  PROVE  ClosedKnown'
<1>1. 1..issued \subseteq 1..issued'
  BY StepWrites, IssuedGrows
<1>2. closed' = closed \/ \E w \in Workers : CloseFamily(w)
  BY WhoTouches DEF Quiet, IssueTokens, DenyIdentity, RevokeKeys, RestoreIdentity, RevokeKey, Tick, ghosts
<1>3. ASSUME NEW w \in Workers, CloseFamily(w) PROVE closed' \subseteq 1..issued
  <2>1. worker[w].op \in {"rotate", "revoke"}
    BY <1>3 DEF CloseFamily, Books, TypeOK, Shapes, Shape, WorkerState, Idle
  <2>2. worker[w].family \in 1..issued
    BY <2>1 DEF Books, Families
  <2> QED BY <1>3, <2>2 DEF CloseFamily, ClosedKnown
<1> QED BY <1>1, <1>2, <1>3 DEF ClosedKnown

LEMMA FamiliesStayEnded ==
  ASSUME Books, EndSeen, ClosedKnown, FamilyRevocationHolds, Next
  PROVE  FamilyRevocationHolds'
<1>0. Writes /\ raced \subseteq raced' /\ Books'
  BY StepWrites, GhostsGrow, BooksKept
<1> SUFFICES ASSUME NEW x \in Rows, Live(x)', row'[x].family \in closed'
             PROVE  x \in raced'
  BY DEF FamilyRevocationHolds
<1>1. x \in TokenRows
  <2>1. row'[x].family # 0
    BY <1>0, OAuthTokensAssumption DEF Books, TypeOK, Ids
  <2>2. \A c \in Codes : row'[<<"code", c>>].family = 0
    <3>1. \A c \in Codes : row'[<<"code", c>>] = Unwritten \/ row'[<<"code", c>>].family = 0
      BY <1>0 DEF Books, CodeBooks
    <3>2. Unwritten.family = 0
      BY DEF Unwritten
    <3> QED BY <3>1, <3>2
  <2> QED BY <2>1, <2>2, RowKinds
<1>2. CASE row[x] # Unwritten /\ Live(x) /\ row'[x].family = row[x].family
  <2>1. CASE row[x].family \in closed
    BY <1>0, <1>2, <2>1 DEF FamilyRevocationHolds
  <2>2. CASE row[x].family \notin closed
    <3>1. closed' = closed \/ \E w \in Workers : CloseFamily(w)
      BY WhoTouches DEF Quiet, IssueTokens, DenyIdentity, RevokeKeys, RestoreIdentity, RevokeKey, Tick, ghosts
    <3>2. PICK w \in Workers : CloseFamily(w)
      BY <1>2, <2>2, <3>1
    <3>3. worker[w].pc = "close" /\ worker[w].family = row[x].family /\ raced' = raced
      BY <1>2, <2>2, <3>2 DEF CloseFamily
    <3>4. worker[w] \in WorkerState /\ Shape(worker[w])
      BY DEF Books, TypeOK, Shapes
    <3>5. worker[w].op \in {"rotate", "revoke"} /\ worker[w].snap = {}
      BY <3>3, <3>4 DEF Shape, WorkerState, Idle
    <3>6. HasPicked(w, x[1])
      BY <3>3 DEF HasPicked
    <3>7. x \in raced \/ x \in worker[w].pending
      BY <1>1, <1>2, <3>3, <3>5, <3>6 DEF EndSeen
    <3>8. Ending(worker[w].pending, worker[w].now)
      BY <3>2, <3>3, <3>4, OAuthTokensAssumption DEF CloseFamily, Ending, WorkerState, Shape
    <3>9. x \notin worker[w].pending
      BY <3>8, EndedAreDead
    <3> QED BY <3>3, <3>7, <3>9
  <2> QED BY <2>1, <2>2
<1>3. CASE \E w \in Workers : \E n, y, f :
             row[x] = Unwritten /\ IssueTokens(w) /\ Issues(w, n, y, f) /\ x \in Pair(n) /\ Inherits(x, n, y, f)
  <2>1w. PICK w \in Workers : \E n, y, f : IssueTokens(w) /\ Issues(w, n, y, f) /\ x \in Pair(n) /\ Inherits(x, n, y, f)
    BY <1>3
  <2>1. PICK n, y, f : IssueTokens(w) /\ Issues(w, n, y, f) /\ x \in Pair(n) /\ Inherits(x, n, y, f)
    BY <2>1w
  <2>a. row'[x].family = f
    BY <2>1 DEF Inherits
  <2>b. closed' = closed
    BY <2>1 DEF IssueTokens
  <2>c. issued \in Nat
    BY OAuthTokensAssumption DEF Books, TypeOK
  <2>2. row'[x].family = f /\ closed' = closed /\ issued \in Nat
    BY <2>a, <2>b, <2>c
  <2>3. CASE worker[w].op = "exchange"
    <3>1. f = issued + 1
      BY <2>1, <2>3 DEF Issues
    <3>2. f \notin closed
      BY <2>2, <3>1 DEF ClosedKnown
    <3> QED BY <2>2, <3>2
  <2>4. CASE worker[w].op # "exchange"
    <3>1. y \in Rows /\ Live(y) /\ row[y].family = f
      BY <2>1, <2>4 DEF Issues
    <3>2. y \in raced
      BY <2>2, <3>1 DEF FamilyRevocationHolds
    <3> QED BY <2>1, <3>2, RacedPair
  <2> QED BY <2>3, <2>4
<1> QED BY <1>0, <1>1, <1>2, <1>3, LiveOrigin

LEMMA CommitCleanKept ==
  ASSUME Books, CommitClean, Next
  PROVE  CommitClean'
<1>0. Writes /\ worker \in [Workers -> WorkerState]
  BY StepWrites DEF Books, TypeOK
<1> SUFFICES ASSUME NEW v \in Workers, worker'[v].pc = "commit", row'[worker'[v].at].principal \in Identities
             PROVE  worker'[v].clean
  BY DEF CommitClean
<1>1. ASSUME worker[v].pc = "commit", worker'[v] = worker[v]
      PROVE  worker'[v].clean
  <2>1. InTx(v)
    BY <1>1 DEF Books, TypeOK, Shapes, Shape, WorkerState, InTx, Idle
  <2>2. worker[v].at \in Rows /\ row[worker[v].at].present
    BY <2>1, HeldAlone
  <2>3. row[worker[v].at] # Unwritten
    BY <2>2 DEF Unwritten
  <2>4. row'[worker[v].at].principal = row[worker[v].at].principal
    BY <1>0, <2>2, <2>3, WrittenStays
  <2> QED BY <1>1, <2>4 DEF CommitClean
<1>2. CASE worker' = worker
  BY <1>1, <1>2
<1>3. CASE \E w \in Workers \ {v} : RequestStep(w) /\ Foot(w)
  <2>1. Aside(v)
    BY <1>3 DEF Foot
  <2>2. worker[v].pc = "commit"
    BY <2>1, AsideFields
  <2>3. worker[v].who \notin Identities
    BY <2>2, OAuthTokensAssumption DEF Books, TypeOK, Shapes, Shape, WorkerState
  <2> QED BY <1>1, <2>1, <2>2, <2>3 DEF Aside
<1>4. CASE RequestStep(v)
  <2>1. Check(v)
    <3>1. ASSUME worker'[v] = Idle PROVE FALSE
      BY <3>1 DEF Idle
    <3>2. ASSUME NEW c \in Codes, SelectCode(v, c) PROVE FALSE
      BY <1>0, <3>2 DEF SelectCode, Idle
    <3>3. ASSUME NEW n \in Ids, SelectRefresh(v, n) PROVE FALSE
      BY <1>0, <3>3 DEF SelectRefresh, Idle
    <3>4. ASSUME NEW x \in Rows, RevokeToken(v, x) PROVE FALSE
      BY <1>0, <3>1, <3>4 DEF RevokeToken, Idle
    <3>5. ASSUME NEW p \in Principals, ReadIdentity(v, p) PROVE FALSE
      <4>1. worker'[v].pc \in {"deny", "snap"}
        BY <1>0, <3>5 DEF ReadIdentity, Idle
      <4> QED BY <4>1
    <3>6. ASSUME DenyIdentity(v) PROVE FALSE
      BY <1>0, <3>6 DEF DenyIdentity, WorkerState
    <3>7. ASSUME Snap(v) PROVE FALSE
      BY <3>7, SnapFacts
    <3>8. ASSUME Update(v) PROVE FALSE
      BY <3>8, UpdateFacts, FollowingFacts
    <3>9. ASSUME Refuse(v) \/ IssueTokens(v) \/ CloseFamily(v) \/ RevokeKeys(v) \/ Victim(v) \/ Die(v) PROVE FALSE
      BY <1>0, <3>1, <3>9 DEF Refuse, IssueTokens, CloseFamily, RevokeKeys, Victim, Die
    <3> QED BY <1>4, <3>2, <3>3, <3>4, <3>5, <3>6, <3>7, <3>8, <3>9 DEF RequestStep, Step
  <2>2. worker'[v].at = worker[v].at /\ row' = row /\ worker'[v].clean = grant[row[worker[v].at].principal]
    BY <1>0, <2>1 DEF Check, PrincipalAt, WorkerState
  <2>3. row[worker[v].at].principal \notin Identities \/ grant[row[worker[v].at].principal]
    BY <2>1 DEF Check, IdentityGrantIsCurrent, PrincipalAt
  <2> QED BY <2>2, <2>3
<1> QED BY <1>2, <1>3, <1>4, WhoMoves

(* a revoked identity's grant comes back only by a restore, and goes only  *)
(* by the revocation                                                       *)
LEMMA GrantMoves ==
  ASSUME Books, Next, NEW p \in Identities
  PROVE  \/ grant'[p] = grant[p]
         \/ \E w \in Workers : DenyIdentity(w) /\ worker[w].who = p
         \/ grant'[p]
<1>0. grant \in [Principals -> BOOLEAN] /\ p \in Principals /\ Identities \subseteq Principals
  BY OAuthTokensAssumption DEF Books, TypeOK
<1>1. ASSUME NEW w \in Workers, RevokeKeys(w) PROVE grant'[p] = grant[p]
  <2>1. worker[w].op = "admin"
    BY <1>1 DEF RevokeKeys, Books, TypeOK, Shapes, Shape, WorkerState, Idle
  <2>2. worker[w].who \in Identities
    BY <2>1 DEF Books, Shapes, Shape
  <2>3. p \notin KeysOf[worker[w].who]
    BY <2>2, OAuthTokensAssumption
  <2> QED BY <1>0, <1>1, <2>3 DEF RevokeKeys
<1>2. ASSUME NEW w \in Workers, DenyIdentity(w), worker[w].who # p PROVE grant'[p] = grant[p]
  BY <1>0, <1>2 DEF DenyIdentity
<1>3. ASSUME NEW q \in Principals, RestoreIdentity(q) PROVE grant'[p] = grant[p] \/ grant'[p]
  BY <1>0, <1>3 DEF RestoreIdentity
<1>4. ASSUME NEW q \in Principals, RevokeKey(q) PROVE grant'[p] = grant[p]
  BY <1>0, <1>4 DEF RevokeKey
<1>5. \/ grant' = grant
      \/ \E w \in Workers : RevokeKeys(w) \/ DenyIdentity(w)
      \/ \E q \in Principals : RestoreIdentity(q) \/ RevokeKey(q)
  BY WhoTouches DEF Quiet, IssueTokens, CloseFamily, Tick, ghosts
<1> QED BY <1>1, <1>2, <1>3, <1>4, <1>5

(* whatever is issued to an identity whose grant is gone has slipped       *)
LEMMA SlippedPair ==
  ASSUME Books, CommitClean, NEW w \in Workers, IssueTokens(w), NEW n, NEW y, NEW f, Issues(w, n, y, f),
         NEW x \in Pair(n), Inherits(x, n, y, f),
         row'[x].principal \in Identities, ~grant[row'[x].principal]
  PROVE  x[2] \in slipped'
<1>1. row'[x].principal = row[y].principal /\ x[2] = n
  BY DEF Inherits
<1>2. y = worker[w].at /\ worker[w].pc = "commit"
  BY DEF Issues, IssueTokens
<1>3. worker[w].clean
  BY <1>1, <1>2 DEF CommitClean
<1> QED BY <1>1, <1>3, RacedPair

(* one identity's revocation, seen from a step that is not the denial      *)
LEMMA AdminSeenKept ==
  ASSUME Books, CommitClean, AdminSeen, Next
  PROVE  AdminSeen'
<1>0. Writes /\ slipped \subseteq slipped' /\ worker \in [Workers -> WorkerState] /\ Books'
  BY StepWrites, GhostsGrow, BooksKept DEF Books, TypeOK
<1> SUFFICES ASSUME NEW v \in Workers, NEW x \in TokenRows,
                    worker'[v].op = "admin",
                    worker'[v].clean,
                    ~grant'[worker'[v].who],
                    Live(x)',
                    row'[x].principal = worker'[v].who,
                    AdminPicked(v, x[1])'
             PROVE  x[2] \in slipped' \/ x \in worker'[v].snap
  BY DEF AdminSeen
<1>1. x \in Rows
  BY RowKinds
<1>2. PICK p \in Identities : p = worker'[v].who
  BY <1>0 DEF Books, Shapes, Shape
<1>3. ASSUME NEW w \in Workers, DenyIdentity(w), worker[w].who = p PROVE FALSE
  <2>1. CASE v = w
    <3>1. worker[w].kind = "access"
      BY <1>3 DEF DenyIdentity, Books, Shapes, Shape
    <3>2. worker'[w].kind = "access" /\ worker'[w].pc = "snap"
      BY <1>0, <1>3, <3>1 DEF DenyIdentity, WorkerState
    <3> QED BY <2>1, <3>2 DEF AdminPicked
  <2>2. CASE v # w
    <3>1. worker'[v] = worker[v] \/ worker'[v] = [worker[v] EXCEPT !.clean = FALSE]
      BY <1>3, <2>2 DEF DenyIdentity
    <3>2. worker[v].who = p
      BY <1>0, <1>2, <3>1 DEF WorkerState
    <3>3. worker'[v] = [worker[v] EXCEPT !.clean = FALSE]
      BY <1>3, <2>2, <3>2 DEF DenyIdentity
    <3>4. worker'[v].clean = FALSE
      BY <1>0, <3>3 DEF WorkerState
    <3> QED BY <3>4
  <2> QED BY <2>1, <2>2
<1>4. ~grant[p]
  BY <1>2, <1>3, GrantMoves
<1>5. CASE \E w \in Workers : \E n, y, f :
             row[x] = Unwritten /\ IssueTokens(w) /\ Issues(w, n, y, f) /\ x \in Pair(n) /\ Inherits(x, n, y, f)
  <2>1w. PICK w \in Workers : \E n, y, f : IssueTokens(w) /\ Issues(w, n, y, f) /\ x \in Pair(n) /\ Inherits(x, n, y, f)
    BY <1>5
  <2>1. PICK n, y, f : IssueTokens(w) /\ Issues(w, n, y, f) /\ x \in Pair(n) /\ Inherits(x, n, y, f)
    BY <2>1w
  <2> QED BY <1>2, <1>4, <2>1, SlippedPair
<1>6. CASE row[x] # Unwritten /\ Live(x) /\ row'[x].family = row[x].family
  <2>0. row[x].principal = p
    BY <1>0, <1>1, <1>2, <1>6, WrittenStays
  <2>1. ASSUME worker'[v] = worker[v] PROVE x[2] \in slipped' \/ x \in worker'[v].snap
    <3>1. worker[v].op = "admin" /\ worker[v].clean /\ worker[v].who = p /\ AdminPicked(v, x[1])
      BY <1>2, <2>1 DEF AdminPicked
    <3> QED BY <1>0, <1>4, <1>6, <2>0, <2>1, <3>1 DEF AdminSeen
  <2>2. CASE worker' = worker
    BY <2>1, <2>2
  <2>3. CASE \E w \in Workers \ {v} : RequestStep(w) /\ Foot(w)
    <3>1. Aside(v)
      BY <2>3 DEF Foot
    <3>2. worker'[v] # [worker[v] EXCEPT !.clean = FALSE]
      BY <1>0 DEF WorkerState
    <3> QED BY <2>1, <3>1, <3>2 DEF Aside
  <2>4. CASE Snap(v)
    <3>1. /\ worker[v].pc = "snap" /\ worker'[v].pc = "wait"
          /\ worker[v].op = "admin" /\ worker[v].clean
          /\ worker'[v].who = worker[v].who /\ worker'[v].kind = worker[v].kind
          /\ worker[v].snap = {} /\ worker'[v].snap = Picked(v)
      BY <2>4, SnapFacts
    <3>2. CASE x[1] = worker[v].kind
      <4>1. Picked(v) = PrincipalRows(worker[v].kind, worker[v].who)
        BY <3>1 DEF Picked
      <4> QED BY <1>1, <1>2, <1>6, <2>0, <3>1, <3>2, <4>1 DEF PrincipalRows, PrincipalAt, Live
    <3>3. CASE x[1] # worker[v].kind
      <4>1. AdminPicked(v, x[1])
        BY <3>1, <3>3 DEF AdminPicked
      <4> QED BY <1>0, <1>2, <1>4, <1>6, <2>0, <3>1, <4>1 DEF AdminSeen
    <3> QED BY <3>2, <3>3
  <2>5. CASE Update(v)
    <3>1. /\ worker[v].pc = "wait" /\ worker[v].op = "admin" /\ worker[v].clean
          /\ worker'[v].who = worker[v].who
          /\ worker'[v].kind = Following(v).kind /\ worker'[v].pc = Following(v).pc
          /\ worker'[v].snap = {}
          /\ Ending(worker[v].snap, worker[v].now)
      BY <2>5, UpdateFacts
    <3>2. AdminPicked(v, x[1])
      <4>1. worker[v].kind \in {"access", "refresh", "code"} /\ x[1] \in {"access", "refresh"}
        BY <1>0, RowKinds DEF WorkerState
      <4>2. CASE worker[v].kind = "access"
        <5>1. worker'[v].pc = "snap" /\ worker'[v].kind = "refresh"
          BY <3>1, <4>2, FollowingFacts
        <5>2. x[1] = "access"
          BY <5>1 DEF AdminPicked
        <5> QED BY <3>1, <4>2, <5>2 DEF AdminPicked
      <4>3. CASE worker[v].kind = "refresh"
        BY <3>1, <4>1, <4>3 DEF AdminPicked
      <4>4. CASE worker[v].kind = "code"
        BY <3>1, <4>4 DEF AdminPicked
      <4> QED BY <4>1, <4>2, <4>3, <4>4
    <3>3. x[2] \in slipped \/ x \in worker[v].snap
      BY <1>2, <1>4, <1>6, <2>0, <3>1, <3>2 DEF AdminSeen
    <3>4. x \notin worker[v].snap
      BY <1>1, <3>1, EndedAreDead
    <3> QED BY <1>0, <3>3, <3>4
  <2>6. CASE RequestStep(v)
    BY <2>4, <2>5, <2>6, PicksByUpdate
  <2> QED BY <2>2, <2>3, <2>6, WhoMoves
<1> QED BY <1>0, <1>5, <1>6, LiveOrigin

LEMMA ReachKept ==
  ASSUME Books, CommitClean, AdminSeen, RevocationReachesAll, Next
  PROVE  RevocationReachesAll'
<1>0. Writes /\ slipped \subseteq slipped' /\ Books'
  BY StepWrites, GhostsGrow, BooksKept
<1> SUFFICES ASSUME NEW x \in Rows, x[1] # "code", Live(x)',
                    row'[x].principal \in complete', ~grant'[row'[x].principal]
             PROVE  x[2] \in slipped'
  BY DEF RevocationReachesAll, PrincipalAt
<1>1. x \in TokenRows
  BY RowKinds
<1>2. PICK p \in Identities : p = row'[x].principal
  BY <1>0 DEF Books, TypeOK
<1>3. ASSUME NEW w \in Workers, DenyIdentity(w), worker[w].who = p PROVE FALSE
  BY <1>2, <1>3 DEF DenyIdentity
<1>4. ~grant[p]
  BY <1>2, <1>3, GrantMoves
<1>5. CASE \E w \in Workers : \E n, y, f :
             row[x] = Unwritten /\ IssueTokens(w) /\ Issues(w, n, y, f) /\ x \in Pair(n) /\ Inherits(x, n, y, f)
  <2>1w. PICK w \in Workers : \E n, y, f : IssueTokens(w) /\ Issues(w, n, y, f) /\ x \in Pair(n) /\ Inherits(x, n, y, f)
    BY <1>5
  <2>1. PICK n, y, f : IssueTokens(w) /\ Issues(w, n, y, f) /\ x \in Pair(n) /\ Inherits(x, n, y, f)
    BY <2>1w
  <2> QED BY <1>2, <1>4, <2>1, SlippedPair
<1>6. CASE row[x] # Unwritten /\ Live(x) /\ row'[x].family = row[x].family
  <2>0. row[x].principal = p
    BY <1>0, <1>2, <1>6, WrittenStays
  <2>1. CASE p \in complete
    BY <1>0, <1>4, <1>6, <2>0, <2>1 DEF RevocationReachesAll, PrincipalAt
  <2>2. CASE p \notin complete
    <3>1. complete' \subseteq complete \/ \E w \in Workers : RevokeKeys(w)
      BY WhoTouches DEF Quiet, IssueTokens, DenyIdentity, CloseFamily, RestoreIdentity, RevokeKey, Tick, ghosts
    <3>2. PICK w \in Workers : RevokeKeys(w)
      BY <1>2, <2>2, <3>1
    <3>3. worker[w].pc = "keys" /\ worker[w].clean /\ worker[w].who = p
      BY <1>2, <2>2, <3>2 DEF RevokeKeys
    <3>4. worker[w].op = "admin" /\ worker[w].snap = {}
      BY <3>3 DEF Books, TypeOK, Shapes, Shape, WorkerState, Idle
    <3>5. AdminPicked(w, x[1])
      BY <3>3 DEF AdminPicked
    <3> QED BY <1>0, <1>1, <1>4, <1>6, <2>0, <3>3, <3>4, <3>5 DEF AdminSeen
  <2> QED BY <2>1, <2>2
<1> QED BY <1>0, <1>1, <1>5, <1>6, LiveOrigin

(* whoever waits in a ring is a replay                                     *)
LEMMA RingsAreReplays == Books => DeadlockSparesRevocations
<1> SUFFICES ASSUME Books, NEW w \in Workers, Deadlocked(w) PROVE worker[w].op = "rotate"
  BY DEF DeadlockSparesRevocations
<1>1. PICK C \in SUBSET Workers : /\ w \in C
                                  /\ \E next \in [C -> C] : /\ \A v \in C : WaitsFor(v, next[v])
                                                            /\ \A u \in C : \E v \in C : next[v] = u
  BY DEF Deadlocked
<1>2. PICK next \in [C -> C] : (\A v \in C : WaitsFor(v, next[v])) /\ (\A u \in C : \E v \in C : next[v] = u)
  BY <1>1
<1>3. PICK v \in C : next[v] = w
  BY <1>1, <1>2
<1>4. WaitsFor(v, w) /\ WaitsFor(w, next[w])
  BY <1>1, <1>2, <1>3
<1>5. InTx(w) /\ worker[w].pc = "wait"
  BY <1>4 DEF WaitsFor, Held
<1> QED BY <1>5 DEF InTx, Books, Shapes, Shape

Revoking == Books /\ EndSeen /\ ClosedKnown /\ FamilyRevocationHolds /\ CommitClean /\ AdminSeen /\ RevocationReachesAll

LEMMA RevokingInductive ==
  /\ Init => Revoking
  /\ Revoking /\ [Next]_vars => Revoking'
<1>1. Init => Revoking
  <2> SUFFICES ASSUME Init PROVE Revoking
    OBVIOUS
  <2>1. \A x \in Rows : ~Live(x)
    BY DEF Init, Unwritten, Live
  <2>2. \A v \in Workers : worker[v].op = "idle" /\ worker[v].pc = "idle"
    BY DEF Init, Idle
  <2>3. closed = {}
    BY DEF Init
  <2>4. EndSeen /\ ClosedKnown /\ FamilyRevocationHolds
    BY <2>1, <2>2, <2>3 DEF EndSeen, ClosedKnown, FamilyRevocationHolds
  <2>5. CommitClean /\ AdminSeen /\ RevocationReachesAll
    BY <2>1, <2>2 DEF CommitClean, AdminSeen, RevocationReachesAll
  <2> QED BY <2>4, <2>5, BooksInit DEF Revoking
<1>2. Revoking /\ Next => Revoking'
  BY BooksKept, EndSeenKept, ClosedKnownKept, FamiliesStayEnded, CommitCleanKept, AdminSeenKept, ReachKept DEF Revoking
<1>3. Revoking /\ UNCHANGED vars => Revoking'
  <2> SUFFICES ASSUME Revoking, UNCHANGED vars PROVE Revoking'
    OBVIOUS
  <2>1. Books'
    BY BooksKept DEF Revoking
  <2>2. EndSeen' /\ ClosedKnown'
    BY DEF Revoking, EndSeen, HasPicked, Live, ClosedKnown, vars
  <2>3. FamilyRevocationHolds' /\ CommitClean'
    BY DEF Revoking, FamilyRevocationHolds, Live, CommitClean, vars
  <2>4. AdminSeen'
    BY DEF Revoking, AdminSeen, AdminPicked, Live, vars
  <2>5. RevocationReachesAll'
    BY DEF Revoking, RevocationReachesAll, PrincipalAt, Live, vars
  <2> QED BY <2>1, <2>2, <2>3, <2>4, <2>5 DEF Revoking
<1> QED BY <1>1, <1>2, <1>3

(* A finished revocation, of a family (server.ts 391-404, 1705-1724) or of *)
(* an identity (routes.ts 2623-2671), has reached every token but those of *)
(* requests that were past their checks when it picked its rows, for any   *)
(* number of requests in flight; and only replays can deadlock, so that no *)
(* revocation is given up to resolve one.                                  *)
THEOREM RevocationsReach == Spec => []RevocationHolds
<1>1. Init => Revoking
  BY RevokingInductive
<1>2. Revoking /\ [Next]_vars => Revoking'
  BY RevokingInductive
<1>3. Revoking => RevocationHolds
  BY RingsAreReplays DEF Revoking, RevocationHolds
<1> QED BY <1>1, <1>2, <1>3, PTL DEF Spec

=============================================================================
