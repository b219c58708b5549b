------------------------- MODULE McpSessionsProofs -------------------------
(***************************************************************************)
(* The books of the session manager, for any number of sessions, requests  *)
(* and proposals and any limits.                                           *)
(*                                                                         *)
(* A step changes at most one request, seen from the session manager       *)
(* (Becomes), and what it does to the leases is one of a few moves: the    *)
(* lemmas of the first half say what each of the books needs of a step,    *)
(* the second half goes through the actions.                               *)
(***************************************************************************)
EXTENDS McpSessions, FiniteSetTheorems, WellFoundedInduction, TLAPS

-----------------------------------------------------------------------------
(* The inductive invariant. *)

(* What a request tells of its session.  One that is connected to a server  *)
(* of its own waits for initialize; any other that has passed the handler's *)
(* checks is about a session that was in the map; a body that somebody      *)
(* pulls holds its retain.                                                  *)
ReqOK(r) ==
  LET k == req[r]
  IN /\ k.pc \in {"idle", "auth"} => ~k.fresh
     /\ k.pc = "connect" => k.fresh
     /\ k.pc \in {"connect", "handling", "stream"} => k.sess \in Sids
     /\ k.pc \in {"connect", "handling"} /\ k.fresh => lease[k.sess].place = "fresh"
     /\ k.pc = "stream" \/ (k.pc = "handling" /\ ~k.fresh)
          => lease[k.sess].place \notin {"none", "fresh"}
     /\ k.pc = "stream" /\ k.started => k.held

(* The request that will register or close a fresh server of session s.     *)
Founder(r, s) == req[r].fresh /\ req[r].sess = s /\ req[r].pc \in {"connect", "handling"}

FoundedOnce == \A q, r \in Reqs, s \in Sids : Founder(q, s) /\ Founder(r, s) => q = r

RequestsOK == (\A r \in Reqs : ReqOK(r)) /\ FoundedOnce

(* The registry: its shape and bound, whom it serves, and the account of    *)
(* every elicitation that was ever registered.                              *)
RegistryTyped ==
  /\ verdict \in [Proposals -> Verdicts]
  /\ completing \subseteq Proposals
  /\ elicited \in Nat
  /\ DOMAIN registry \subseteq 1..elicited
  /\ registry \in [DOMAIN registry -> Entry]
  /\ Cardinality(DOMAIN registry) <= MaxPending

(* What stays registered is not decided over REST, waits for its complete() *)
(* to come by, or was opened after it.                                      *)
EntriesAwait ==
  \A i \in DOMAIN registry :
    LET e == registry[i]
    IN verdict[e.prop] # "rest" \/ e.prop \in completing \/ e.late

Accounted ==
  /\ opened \in [1..elicited -> Entry]
  /\ told \subseteq 1..elicited
  /\ evicted \subseteq 1..elicited
  /\ \A i \in DOMAIN registry : registry[i] = opened[i]
  /\ \A i \in 1..elicited : i \in DOMAIN registry \cup told \cup evicted \/ lease[opened[i].sess].place \in Ends
  /\ \A i \in evicted : elicited - i >= MaxPending

RegistryOK == RegistryTyped /\ RegistryServesLive /\ EntriesAwait /\ Accounted

(* A session that has ended does not come back.                             *)
EndsStay == \A s \in Sids : lease[s].place \in Ends => lease'[s].place \in Ends

LeasesTyped == lease \in [Sids -> LeaseState] /\ req \in [Reqs -> ReqState]

MarksTyped ==
  /\ seen \subseteq Sids \X Sids
  /\ expired \subseteq Sids
  /\ sweeper \in BOOLEAN
  /\ requests \in Nat
  /\ stopped \in BOOLEAN

McpInv ==
  /\ LeasesTyped /\ MarksTyped
  /\ RequestsOK /\ RetainsBalance /\ NoLeakedServer
  /\ SweeperWatches
  /\ RegistryOK

-----------------------------------------------------------------------------
(* Counting retains. *)

LEMMA HoldersCount ==
  ASSUME NEW s \in Sids
  PROVE  IsFiniteSet(Holders(s)) /\ Cardinality(Holders(s)) \in Nat
<1>1. Holders(s) \in SUBSET Reqs
  BY DEF Holders
<1>2. IsFiniteSet(Holders(s))
  BY <1>1, McpAssumption, FS_Subset
<1> QED
  BY <1>2, FS_CardinalityType

(* A step that leaves the counter of s and the requests that hold it.       *)
BalanceKeeps(s) == Holders(s)' = Holders(s) /\ lease'[s].inFlight = lease[s].inFlight

(* Request r takes, or gives back, a retain of s.                           *)
BalanceTakes(r, s) ==
  /\ r \notin Holders(s) /\ Holders(s)' = Holders(s) \cup {r}
  /\ lease'[s].inFlight = lease[s].inFlight + 1
BalanceGives(r, s) ==
  /\ r \in Holders(s) /\ Holders(s)' = Holders(s) \ {r}
  /\ lease'[s].inFlight = IF lease[s].inFlight > 0 THEN lease[s].inFlight - 1 ELSE 0

LEMMA BalanceStep ==
  ASSUME RetainsBalance,
         \A s \in Sids : BalanceKeeps(s) \/ \E r \in Reqs : BalanceTakes(r, s) \/ BalanceGives(r, s)
  PROVE  RetainsBalance'
<1> SUFFICES ASSUME NEW s \in Sids PROVE lease'[s].inFlight = Cardinality(Holders(s)')
  BY DEF RetainsBalance
<1>1. lease[s].inFlight = Cardinality(Holders(s))
  BY DEF RetainsBalance
<1>2. IsFiniteSet(Holders(s)) /\ Cardinality(Holders(s)) \in Nat
  BY HoldersCount
<1>3. CASE BalanceKeeps(s)
  BY <1>1, <1>3 DEF BalanceKeeps
<1>4. ASSUME NEW r \in Reqs, BalanceTakes(r, s) PROVE lease'[s].inFlight = Cardinality(Holders(s)')
  <2>1. Cardinality(Holders(s) \cup {r}) = Cardinality(Holders(s)) + 1
    BY <1>2, <1>4, FS_AddElement DEF BalanceTakes
  <2> QED
    BY <1>1, <1>4, <2>1 DEF BalanceTakes
<1>5. ASSUME NEW r \in Reqs, BalanceGives(r, s) PROVE lease'[s].inFlight = Cardinality(Holders(s)')
  <2>1. Cardinality(Holders(s) \ {r}) = Cardinality(Holders(s)) - 1
    BY <1>2, <1>5, FS_RemoveElement DEF BalanceGives
  <2>2. Cardinality(Holders(s)) > 0
    <3>1. Holders(s) # {}
      BY <1>5 DEF BalanceGives
    <3>2. Cardinality(Holders(s)) # 0
      BY <1>2, <3>1, FS_EmptySet
    <3> QED
      BY <1>2, <3>2
  <2> QED
    BY <1>1, <1>2, <1>5, <2>1, <2>2 DEF BalanceGives
<1> QED
  BY <1>3, <1>4, <1>5

-----------------------------------------------------------------------------
(* One request moves. *)

(* What the session manager sees of request q stays as it is.               *)
Same(q) ==
  /\ req'[q].pc = req[q].pc /\ req'[q].sess = req[q].sess /\ req'[q].fresh = req[q].fresh
  /\ req'[q].started = req[q].started /\ req'[q].held = req[q].held

Becomes(r, pc, s, fresh, started, held) ==
  /\ req'[r].pc = pc /\ req'[r].sess = s /\ req'[r].fresh = fresh
  /\ req'[r].started = started /\ req'[r].held = held
  /\ \A q \in Reqs : q # r => Same(q)

Holds(r) == req[r].pc = "handling" \/ (req[r].pc = "stream" /\ req[r].held)

(* A session stays where it is, or leaves the map.                          *)
Leaves(s) ==
  \/ lease'[s].place = lease[s].place
  \/ lease[s].place = "mapped" /\ lease'[s].place \in Ends

LEMMA SameHolders ==
  ASSUME NEW s \in Sids, \A q \in Reqs : Same(q)
  PROVE  Holders(s)' = Holders(s)
BY DEF Same, Holders

(* Request r alone may begin or cease to hold.                              *)
LEMMA OneHolder ==
  ASSUME NEW r \in Reqs, \A q \in Reqs : q # r => Same(q), NEW s \in Sids
  PROVE  /\ r \in Holders(s) <=> req[r].sess = s /\ Holds(r)
         /\ (req'[r].sess = s /\ Holds(r)') => Holders(s)' = Holders(s) \cup {r}
         /\ ~(req'[r].sess = s /\ Holds(r)') => Holders(s)' = Holders(s) \ {r}
<1>1. \A q \in Reqs : q \in Holders(s) <=> req[q].sess = s /\ Holds(q)
  BY DEF Holders, Holds
<1>2. \A q \in Reqs : q \in Holders(s)' <=> req'[q].sess = s /\ Holds(q)'
  BY DEF Holders, Holds
<1>3. \A q \in Reqs : q # r => (q \in Holders(s)' <=> q \in Holders(s))
  BY DEF Same, Holders
<1>4. Holders(s) \subseteq Reqs /\ Holders(s)' \subseteq Reqs
  BY DEF Holders
<1> QED
  BY <1>1, <1>2, <1>3, <1>4

(* The requests of sessions that only leave the map stay in order.          *)
LEMMA OthersOK ==
  ASSUME RequestsOK, NEW q \in Reqs, Same(q),
         req[q].sess \in Sids => \/ Leaves(req[q].sess)
                                 \/ req[q].pc \in {"idle", "auth"}
                                 \/ /\ ~Founder(q, req[q].sess)
                                    /\ lease'[req[q].sess].place \notin {"none", "fresh"}
  PROVE  ReqOK(q)'
<1>1. ReqOK(q)
  BY DEF RequestsOK
<1>2. /\ req'[q].pc = req[q].pc /\ req'[q].sess = req[q].sess /\ req'[q].fresh = req[q].fresh
      /\ req'[q].started = req[q].started /\ req'[q].held = req[q].held
  BY DEF Same
<1> DEFINE s == req[q].sess
<1>3. CASE req[q].pc \in {"idle", "auth"}
  BY <1>1, <1>2, <1>3 DEF ReqOK
<1>4. CASE s \in Sids /\ Leaves(s)
  <2>1. lease[s].place = "fresh" => lease'[s].place = "fresh"
    BY <1>4 DEF Leaves
  <2>2. lease[s].place \notin {"none", "fresh"} => lease'[s].place \notin {"none", "fresh"}
    BY <1>4 DEF Leaves, Ends
  <2> QED
    BY <1>1, <1>2, <2>1, <2>2 DEF ReqOK
<1>5. CASE ~Founder(q, s) /\ lease'[s].place \notin {"none", "fresh"}
  BY <1>1, <1>2, <1>5 DEF ReqOK, Founder
<1>6. CASE s \notin Sids
  BY <1>1, <1>2, <1>6 DEF ReqOK
<1> QED
  BY <1>3, <1>4, <1>5, <1>6

(* Steps that change no request in the eyes of the manager.                 *)
Still ==
  /\ LeasesTyped'
  /\ \A q \in Reqs : Same(q)
  /\ \A s \in Sids : Leaves(s) /\ lease'[s].inFlight = lease[s].inFlight

LEMMA StillStep ==
  ASSUME McpInv, Still
  PROVE  RequestsOK' /\ RetainsBalance' /\ NoLeakedServer'
<1>1. ASSUME NEW q \in Reqs PROVE ReqOK(q)'
  BY OthersOK DEF McpInv, Still
<1>2. \A q \in Reqs, s \in Sids : Founder(q, s)' <=> Founder(q, s)
  BY DEF Still, Same, Founder
<1>3. FoundedOnce'
  BY <1>2 DEF McpInv, RequestsOK, FoundedOnce
<1>4. \A s \in Sids : BalanceKeeps(s)
  BY SameHolders DEF Still, BalanceKeeps
<1>5. RetainsBalance'
  BY <1>4, BalanceStep DEF McpInv
<1>6. ASSUME NEW s \in Sids, lease'[s].place = "fresh" PROVE \E r \in Reqs : Founder(r, s)'
  <2>1. lease[s].place = "fresh"
    BY <1>6 DEF Still, Leaves, Ends
  <2> QED
    BY <1>2, <2>1 DEF McpInv, NoLeakedServer, Founder
<1>7. NoLeakedServer'
  BY <1>6 DEF NoLeakedServer, Founder
<1> QED
  BY <1>1, <1>3, <1>5, <1>7 DEF RequestsOK

(* Request r moves, and no session but its own does more than leave.        *)
Moves(r) ==
  /\ LeasesTyped'
  /\ \A q \in Reqs : q # r => Same(q)
  /\ ReqOK(r)'
  /\ \A s \in Sids : \/ BalanceKeeps(s)
                     \/ BalanceTakes(r, s)
                     \/ BalanceGives(r, s)

(* ... it founds nothing, and its session leaves at most ...                *)
LEMMA PlainMove ==
  ASSUME McpInv, NEW r \in Reqs, Moves(r),
         \A s \in Sids : ~Founder(r, s) /\ ~Founder(r, s)',
         \A s \in Sids : Leaves(s)
  PROVE  RequestsOK' /\ RetainsBalance' /\ NoLeakedServer'
<1>1. ASSUME NEW q \in Reqs PROVE ReqOK(q)'
  BY OthersOK DEF McpInv, Moves
<1>2. \A q \in Reqs, s \in Sids : Founder(q, s)' <=> Founder(q, s)
  BY DEF Moves, Same, Founder
<1>3. FoundedOnce'
  BY <1>2 DEF McpInv, RequestsOK, FoundedOnce
<1>4. RetainsBalance'
  BY BalanceStep DEF McpInv, Moves
<1>5. ASSUME NEW s \in Sids, lease'[s].place = "fresh" PROVE \E q \in Reqs : Founder(q, s)'
  <2>1. lease[s].place = "fresh"
    BY <1>5 DEF Leaves, Ends
  <2> QED
    BY <1>2, <2>1 DEF McpInv, NoLeakedServer, Founder
<1>6. NoLeakedServer'
  BY <1>5 DEF NoLeakedServer, Founder
<1> QED
  BY <1>1, <1>3, <1>4, <1>6 DEF RequestsOK

(* ... it goes on founding its session ...                                  *)
LEMMA FoundingMove ==
  ASSUME McpInv, NEW r \in Reqs, Moves(r), NEW s \in Sids, Founder(r, s), Founder(r, s)',
         \A t \in Sids : Leaves(t)
  PROVE  RequestsOK' /\ RetainsBalance' /\ NoLeakedServer'
<1>1. ASSUME NEW q \in Reqs PROVE ReqOK(q)'
  BY OthersOK DEF McpInv, Moves
<1>2. \A q \in Reqs, t \in Sids : Founder(q, t)' <=> Founder(q, t)
  BY DEF Moves, Same, Founder
<1>3. FoundedOnce'
  BY <1>2 DEF McpInv, RequestsOK, FoundedOnce
<1>4. RetainsBalance'
  BY BalanceStep DEF McpInv, Moves
<1>5. ASSUME NEW t \in Sids, lease'[t].place = "fresh" PROVE \E q \in Reqs : Founder(q, t)'
  <2>1. lease[t].place = "fresh"
    BY <1>5 DEF Leaves, Ends
  <2> QED
    BY <1>2, <2>1 DEF McpInv, NoLeakedServer, Founder
<1>6. NoLeakedServer'
  BY <1>5 DEF NoLeakedServer, Founder
<1> QED
  BY <1>1, <1>3, <1>4, <1>6 DEF RequestsOK

(* ... it registers or closes the server it founded ...                     *)
LEMMA FoundedMove ==
  ASSUME McpInv, NEW r \in Reqs, Moves(r), NEW s \in Sids, Founder(r, s), \A t \in Sids : ~Founder(r, t)',
         lease'[s].place \notin {"none", "fresh"},
         \A t \in Sids : t # s => Leaves(t)
  PROVE  RequestsOK' /\ RetainsBalance' /\ NoLeakedServer'
<1>1. ASSUME NEW q \in Reqs PROVE ReqOK(q)'
  <2>1. CASE q = r
    BY <2>1 DEF Moves
  <2>2. CASE q # r
    <3>1. ~Founder(q, s)
      BY <2>2 DEF McpInv, RequestsOK, FoundedOnce
    <3> QED
      BY <2>2, <3>1, OthersOK DEF McpInv, Moves
  <2> QED
    BY <2>1, <2>2
<1>2. \A q \in Reqs, t \in Sids : Founder(q, t)' <=> q # r /\ Founder(q, t)
  BY DEF Moves, Same, Founder
<1>3. FoundedOnce'
  BY <1>2 DEF McpInv, RequestsOK, FoundedOnce
<1>4. RetainsBalance'
  BY BalanceStep DEF McpInv, Moves
<1>5. ASSUME NEW t \in Sids, lease'[t].place = "fresh" PROVE \E q \in Reqs : Founder(q, t)'
  <2>1. t # s /\ lease[t].place = "fresh"
    BY <1>5 DEF Leaves, Ends
  <2>2. PICK q \in Reqs : Founder(q, t)
    BY <2>1 DEF McpInv, NoLeakedServer, Founder
  <2>3. q # r
    BY <2>1, <2>2 DEF Founder
  <2> QED
    BY <1>2, <2>2, <2>3
<1>6. NoLeakedServer'
  BY <1>5 DEF NoLeakedServer, Founder
<1> QED
  BY <1>1, <1>3, <1>4, <1>6 DEF RequestsOK

(* ... or it founds a session that was none.                                *)
LEMMA NewFounder ==
  ASSUME McpInv, NEW r \in Reqs, Moves(r), NEW s \in Sids, Founder(r, s)', \A t \in Sids : ~Founder(r, t),
         lease[s].place = "none",
         \A t \in Sids : t # s => lease'[t].place = lease[t].place
  PROVE  RequestsOK' /\ RetainsBalance' /\ NoLeakedServer'
<1>0. \A q \in Reqs : req[q].sess = s => req[q].pc \in {"idle", "auth"}
  BY DEF McpInv, RequestsOK, ReqOK, LeasesTyped, ReqState
<1>1. ASSUME NEW q \in Reqs PROVE ReqOK(q)'
  <2>1. CASE q = r
    BY <2>1 DEF Moves
  <2>2. CASE q # r
    BY <1>0, <2>2, OthersOK DEF McpInv, Moves, Leaves
  <2> QED
    BY <2>1, <2>2
<1>2. \A q \in Reqs, t \in Sids : Founder(q, t)' <=> IF q = r THEN t = s ELSE Founder(q, t)
  BY DEF Moves, Same, Founder
<1>3. FoundedOnce'
  <2>1. \A q \in Reqs : ~Founder(q, s)
    BY <1>0 DEF Founder
  <2> QED
    BY <1>2, <2>1 DEF McpInv, RequestsOK, FoundedOnce
<1>4. RetainsBalance'
  BY BalanceStep DEF McpInv, Moves
<1>5. ASSUME NEW t \in Sids, lease'[t].place = "fresh" PROVE \E q \in Reqs : Founder(q, t)'
  <2>1. CASE t = s
    BY <2>1
  <2>2. CASE t # s
    <3>1. PICK q \in Reqs : Founder(q, t)
      BY <1>5, <2>2 DEF McpInv, NoLeakedServer, Founder
    <3> QED
      BY <1>2, <3>1
  <2> QED
    BY <2>1, <2>2
<1>6. NoLeakedServer'
  BY <1>5 DEF NoLeakedServer, Founder
<1> QED
  BY <1>1, <1>3, <1>4, <1>6 DEF RequestsOK

-----------------------------------------------------------------------------
(* The registry of URL reviews. *)

LEMMA RegistryFinite ==
  ASSUME RegistryTyped
  PROVE  IsFiniteSet(DOMAIN registry) /\ Cardinality(DOMAIN registry) \in Nat
<1>1. IsFiniteSet(1..elicited)
  <2>1. 1 \in Int /\ elicited \in Int
    BY DEF RegistryTyped
  <2> QED
    BY <2>1, FS_Interval
<1>2. DOMAIN registry \in SUBSET (1..elicited)
  BY DEF RegistryTyped
<1>3. IsFiniteSet(DOMAIN registry)
  BY <1>1, <1>2, FS_Subset
<1> QED
  BY <1>3, FS_CardinalityType

(* Entries are dropped, told or with their session; those that stay are of  *)
(* sessions that stay, and a decision over REST drops its entries or is     *)
(* under way.                                                               *)
LEMMA RegistryShrinks ==
  ASSUME RegistryOK, NEW I \in SUBSET (DOMAIN registry), registry' = Only(I), elicited' = elicited,
         UNCHANGED <<opened, evicted>>, told \subseteq told', told' \subseteq 1..elicited, EndsStay,
         \A i \in DOMAIN registry \ I : i \in told' \/ lease'[registry[i].sess].place \in Ends,
         verdict' \in [Proposals -> Verdicts], completing' \subseteq Proposals,
         \A i \in I : /\ registry[i].sess \in Mapped'
                      /\ \/ verdict'[registry[i].prop] # "rest"
                         \/ registry[i].prop \in completing'
                         \/ registry[i].late
  PROVE  RegistryOK'
<1>1. DOMAIN registry' = I /\ \A i \in I : registry'[i] = registry[i]
  BY DEF Only
<1>2. RegistryTyped'
  <2>1. DOMAIN registry' \subseteq 1..elicited' /\ elicited' \in Nat
    BY <1>1 DEF RegistryOK, RegistryTyped
  <2>2. registry' \in [DOMAIN registry' -> Entry]
    <3>1. \A i \in I : registry[i] \in Entry
      BY DEF RegistryOK, RegistryTyped
    <3> QED
      BY <1>1, <3>1 DEF Only
  <2>3. Cardinality(DOMAIN registry') <= MaxPending
    <3>1. IsFiniteSet(DOMAIN registry) /\ Cardinality(DOMAIN registry) \in Nat
      BY RegistryFinite DEF RegistryOK
    <3>2. Cardinality(I) <= Cardinality(DOMAIN registry) /\ IsFiniteSet(I)
      BY <3>1, FS_Subset
    <3>3. Cardinality(I) \in Nat
      BY <3>2, FS_CardinalityType
    <3>4. Cardinality(DOMAIN registry) <= MaxPending /\ MaxPending \in Nat
      BY McpAssumption DEF RegistryOK, RegistryTyped
    <3> QED
      BY <1>1, <3>1, <3>2, <3>3, <3>4
  <2> QED
    BY <2>1, <2>2, <2>3 DEF RegistryTyped
<1>3. RegistryServesLive' /\ EntriesAwait'
  BY <1>1 DEF RegistryServesLive, EntriesAwait
<1>4. Accounted'
  <2>1. Accounted /\ \A i \in 1..elicited : opened[i].sess \in Sids
    BY DEF RegistryOK, Accounted, Entry
  <2>2. ASSUME NEW i \in 1..elicited
        PROVE  i \in DOMAIN registry' \cup told' \cup evicted' \/ lease'[opened'[i].sess].place \in Ends
    <3>1. CASE i \in DOMAIN registry
      <4>1. registry[i] = opened[i]
        BY <2>1, <3>1 DEF Accounted
      <4> QED
        BY <1>1, <3>1, <4>1
    <3>2. CASE i \in told \cup evicted
      BY <3>2
    <3>3. CASE lease[opened[i].sess].place \in Ends
      BY <2>1, <3>3 DEF EndsStay
    <3> QED
      BY <2>1, <3>1, <3>2, <3>3 DEF Accounted
  <2> QED
    BY <1>1, <2>1, <2>2 DEF Accounted
<1> QED
  BY <1>2, <1>3, <1>4 DEF RegistryOK

LEMMA RegistryStays ==
  ASSUME RegistryOK, UNCHANGED reviews, Mapped \subseteq Mapped', EndsStay
  PROVE  RegistryOK'
<1>1. UNCHANGED <<verdict, completing, registry, elicited, opened, told, evicted>>
  BY DEF reviews, urls, history
<1>2. RegistryTyped'
  BY <1>1 DEF RegistryOK, RegistryTyped
<1>3. RegistryServesLive' /\ EntriesAwait'
  BY <1>1 DEF RegistryOK, RegistryServesLive, EntriesAwait
<1>4. Accounted'
  <2>1. Accounted /\ \A i \in 1..elicited : opened[i].sess \in Sids
    BY DEF RegistryOK, Accounted, Entry
  <2> QED
    BY <1>1, <2>1 DEF Accounted, EndsStay
<1> QED
  BY <1>2, <1>3, <1>4 DEF RegistryOK

LEMMA RegistryPruned ==
  ASSUME RegistryOK, NEW V, registry' = Pruned(V), UNCHANGED <<verdict, completing, elicited, history>>,
         Mapped \ V \subseteq Mapped', EndsStay, \A s \in V \cap Sids : lease'[s].place \in Ends
  PROVE  RegistryOK'
<1> DEFINE I == {i \in DOMAIN registry : registry[i].sess \notin V}
<1>1. I \in SUBSET (DOMAIN registry) /\ registry' = Only(I)
  BY DEF Pruned
<1>2. \A i \in I : /\ registry[i].sess \in Mapped'
                   /\ \/ verdict'[registry[i].prop] # "rest"
                      \/ registry[i].prop \in completing'
                      \/ registry[i].late
  BY DEF RegistryOK, RegistryServesLive, EntriesAwait
<1>3. verdict' \in [Proposals -> Verdicts] /\ completing' \subseteq Proposals
  BY DEF RegistryOK, RegistryTyped
<1>4. UNCHANGED <<opened, evicted>> /\ told \subseteq told' /\ told' \subseteq 1..elicited
  BY DEF history, RegistryOK, Accounted
<1>5. \A i \in DOMAIN registry \ I : i \in told' \/ lease'[registry[i].sess].place \in Ends
  BY DEF RegistryOK, RegistryTyped, Entry
<1> HIDE DEF I
<1> QED
  BY <1>1, <1>2, <1>3, <1>4, <1>5, RegistryShrinks

LEMMA LeastNatural ==
  ASSUME NEW S \in SUBSET Nat, S # {}
  PROVE  \E m \in S : \A n \in S : m <= n
<1> DEFINE R == {ss \in Nat \X Nat : ss[1] < ss[2]}
<1>1. IsWellFoundedOn(R, Nat)
  BY NatLessThanWellFounded DEF OpToRel
<1>2. PICK m \in S : \A n \in S : ~(<<n, m>> \in R)
  BY <1>1, WFMin
<1>3. ASSUME NEW n \in S PROVE m <= n
  <2>1. m \in Nat /\ n \in Nat /\ ~(n < m)
    BY <1>2
  <2> QED
    BY <2>1
<1> QED
  BY <1>3

(* register makes room for one more: the oldest goes when the limit is met. *)
LEMMA RoomIsMade ==
  ASSUME RegistryTyped
  PROVE  IsFiniteSet(Roomy) /\ Cardinality(Roomy) \in Nat /\ Cardinality(Roomy) < MaxPending
<1> DEFINE D == DOMAIN registry
<1>0. IsFiniteSet(D) /\ Cardinality(D) \in Nat /\ Cardinality(D) <= MaxPending /\ MaxPending \in Nat \ {0}
  BY RegistryFinite, McpAssumption DEF RegistryTyped
<1>1. Roomy \in SUBSET D
  BY DEF Roomy
<1>2. IsFiniteSet(Roomy) /\ Cardinality(Roomy) <= Cardinality(D)
  BY <1>0, <1>1, FS_Subset
<1>3. Cardinality(Roomy) \in Nat
  BY <1>2, FS_CardinalityType
<1>4. CASE Cardinality(D) < MaxPending
  BY <1>0, <1>2, <1>3, <1>4
<1>5. CASE Cardinality(D) = MaxPending
  <2>1. D # {} /\ D \in SUBSET Nat
    <3>1. Cardinality(D) # 0
      BY <1>0, <1>5
    <3> QED
      BY <1>0, <3>1, FS_EmptySet DEF RegistryTyped
  <2>2. PICK m \in D : \A n \in D : m <= n
    BY <2>1, LeastNatural
  <2>3. {j \in D : j > m} = D \ {m}
    BY <2>1, <2>2
  <2>4. Cardinality(D \ {m}) = Cardinality(D) - 1 /\ IsFiniteSet(D \ {m})
    BY <1>0, <2>2, FS_RemoveElement
  <2>5. m \notin Roomy
    BY <1>0, <1>5, <2>3, <2>4 DEF Roomy
  <2>6. Roomy \in SUBSET (D \ {m})
    BY <1>1, <2>5
  <2>7. Cardinality(Roomy) <= Cardinality(D \ {m})
    BY <2>4, <2>6, FS_Subset
  <2> QED
    BY <1>0, <1>2, <1>3, <1>5, <2>4, <2>7
<1> QED
  BY <1>0, <1>2, <1>3, <1>4, <1>5

(* What makes room is the entry with MaxPending - 1 later ones behind it.   *)
LEMMA OldestGoes ==
  ASSUME RegistryTyped, NEW i \in DOMAIN registry \ Roomy
  PROVE  elicited + 1 - i >= MaxPending
<1> DEFINE L == {j \in DOMAIN registry : j > i}
<1>1. elicited \in Nat /\ i \in 1..elicited /\ MaxPending \in Nat \ {0}
  BY McpAssumption DEF RegistryTyped
<1>2. L \in SUBSET ((i + 1)..elicited)
  BY <1>1 DEF RegistryTyped
<1>3. /\ IsFiniteSet((i + 1)..elicited)
      /\ Cardinality((i + 1)..elicited) = IF i + 1 > elicited THEN 0 ELSE elicited - (i + 1) + 1
  <2>1. i + 1 \in Int /\ elicited \in Int
    BY <1>1
  <2> QED
    BY <2>1, FS_Interval
<1>4. IsFiniteSet(L) /\ Cardinality(L) <= Cardinality((i + 1)..elicited)
  BY <1>2, <1>3, FS_Subset
<1>5. Cardinality(L) \in Nat
  BY <1>4, FS_CardinalityType
<1>6. ~(Cardinality(L) < MaxPending - 1)
  BY DEF Roomy
<1> HIDE DEF L
<1> QED
  BY <1>1, <1>3, <1>4, <1>5, <1>6

LEMMA RegistryGrows ==
  ASSUME RegistryOK, NEW e \in Entry, registry' = Registered(e), elicited' = elicited + 1,
         opened' = [i \in 1..elicited + 1 |-> IF i <= elicited THEN opened[i] ELSE e],
         evicted' = evicted \cup (DOMAIN registry \ Roomy), told' = told, lease' = lease,
         UNCHANGED <<verdict, completing>>, Mapped' = Mapped, e.sess \in Mapped,
         verdict[e.prop] # "rest" \/ e.prop \in completing \/ e.late
  PROVE  RegistryOK'
<1> DEFINE n == elicited + 1
           K == Roomy \cup {n}
<1>0. RegistryTyped /\ Roomy \subseteq DOMAIN registry /\ elicited \in Nat
  BY DEF RegistryOK, Roomy, RegistryTyped
<1>1. DOMAIN registry' = K /\ \A i \in K : registry'[i] = IF i = n THEN e ELSE registry[i]
  BY DEF Registered
<1>2. \A i \in Roomy : registry[i] \in Entry
  BY <1>0 DEF RegistryTyped
<1>3. Cardinality(K) <= MaxPending
  <2>1. IsFiniteSet(Roomy) /\ Cardinality(Roomy) \in Nat /\ Cardinality(Roomy) < MaxPending
    BY <1>0, RoomIsMade
  <2>2. Cardinality(K) = IF n \in Roomy THEN Cardinality(Roomy) ELSE Cardinality(Roomy) + 1
    BY <2>1, FS_AddElement
  <2> QED
    BY <2>1, <2>2, McpAssumption
<1>4. RegistryTyped'
  <2>1. elicited' \in Nat /\ DOMAIN registry' \subseteq 1..elicited'
    BY <1>0, <1>1 DEF RegistryTyped
  <2>2. registry' \in [DOMAIN registry' -> Entry]
    <3>1. registry' = [i \in K |-> IF i = n THEN e ELSE registry[i]]
      BY DEF Registered
    <3>2. \A i \in K : (IF i = n THEN e ELSE registry[i]) \in Entry
      BY <1>2
    <3> HIDE DEF K, n
    <3> QED
      BY <3>1, <3>2
  <2> QED
    BY <1>0, <1>1, <1>3, <2>1, <2>2 DEF RegistryTyped
<1>5. RegistryServesLive'
  <2>1. \A i \in Roomy : registry[i].sess \in Mapped
    BY <1>0 DEF RegistryOK, RegistryServesLive
  <2> HIDE DEF n
  <2> QED
    BY <1>1, <2>1 DEF RegistryServesLive
<1>6. EntriesAwait'
  <2>1. \A i \in Roomy : LET f == registry[i]
                         IN  verdict[f.prop] # "rest" \/ f.prop \in completing \/ f.late
    BY <1>0 DEF RegistryOK, EntriesAwait
  <2> HIDE DEF n
  <2> QED
    BY <1>1, <2>1 DEF EntriesAwait
<1>7. Accounted'
  <2>1. Accounted /\ DOMAIN registry \subseteq 1..elicited
    BY <1>0 DEF RegistryOK, RegistryTyped
  <2>2. opened' \in [1..n -> Entry] /\ opened'[n] = e /\ \A i \in 1..elicited : opened'[i] = opened[i]
    BY <1>0, <2>1 DEF Accounted
  <2>3. 1..elicited \subseteq 1..n /\ n \in 1..n /\ n \notin 1..elicited /\ \A i \in 1..n : i = n \/ i \in 1..elicited
    BY <1>0
  <2>4. told' \subseteq 1..elicited' /\ evicted' \subseteq 1..elicited'
    <3>1. told' \subseteq 1..elicited /\ evicted' \subseteq 1..elicited
      BY <1>0, <2>1 DEF Accounted
    <3> QED
      BY <2>3, <3>1
  <2>5. \A i \in DOMAIN registry' : registry'[i] = opened'[i]
    <3>1. \A i \in Roomy : registry[i] = opened[i] /\ i \in 1..elicited
      BY <1>0, <2>1 DEF Accounted
    <3> HIDE DEF n
    <3> QED
      BY <1>1, <2>2, <2>3, <3>1
  <2>6. ASSUME NEW i \in 1..n
        PROVE  i \in DOMAIN registry' \cup told' \cup evicted' \/ lease'[opened'[i].sess].place \in Ends
    <3>1. CASE i = n
      BY <1>1, <3>1
    <3>2. CASE i \in 1..elicited
      <4>1. i \in DOMAIN registry \cup told \cup evicted \/ lease[opened[i].sess].place \in Ends
        BY <2>1, <3>2 DEF Accounted
      <4> HIDE DEF n
      <4> QED
        BY <1>1, <2>2, <3>2, <4>1
    <3> QED
      BY <2>3, <3>1, <3>2
  <2>7. ASSUME NEW i \in evicted' PROVE elicited' - i >= MaxPending
    <3>1. CASE i \in evicted
      <4>1. elicited - i >= MaxPending /\ i \in 1..elicited
        BY <2>1, <3>1 DEF Accounted
      <4> QED
        BY <1>0, <4>1, McpAssumption
    <3>2. CASE i \in DOMAIN registry \ Roomy
      <4>1. elicited + 1 - i >= MaxPending
        BY <1>0, <3>2, OldestGoes
      <4>2. elicited' = elicited + 1 /\ i \in Nat /\ MaxPending \in Nat
        BY <1>0, <3>2, McpAssumption DEF RegistryTyped
      <4> QED
        BY <1>0, <4>1, <4>2
    <3> QED
      BY <3>1, <3>2
  <2> QED
    BY <2>2, <2>4, <2>5, <2>6, <2>7 DEF Accounted
<1> QED
  BY <1>4, <1>5, <1>6, <1>7 DEF RegistryOK

-----------------------------------------------------------------------------
(* What the operations of the session manager do to the leases. *)

LEMMA RetainOp ==
  ASSUME lease \in [Sids -> LeaseState], NEW s \in Sids, lease' = Retained(s)
  PROVE  /\ lease' \in [Sids -> LeaseState]
         /\ \A t \in Sids : lease'[t].place = lease[t].place
         /\ \A t \in Sids : t # s => lease'[t].inFlight = lease[t].inFlight
         /\ lease'[s].inFlight = lease[s].inFlight + 1
<1> DEFINE k == [lease[s] EXCEPT !.inFlight = lease[s].inFlight + 1]
<1>1. lease[s] \in LeaseState
  OBVIOUS
<1>2. k \in LeaseState /\ k.place = lease[s].place /\ k.inFlight = lease[s].inFlight + 1
  BY <1>1 DEF LeaseState
<1>3. lease' = [lease EXCEPT ![s] = k]
  BY DEF Retained
<1> HIDE DEF k
<1> QED
  BY <1>2, <1>3

LEMMA ReleaseOp ==
  ASSUME lease \in [Sids -> LeaseState], NEW s \in Sids, lease' = Released(s)
  PROVE  /\ lease' \in [Sids -> LeaseState]
         /\ \A t \in Sids : lease'[t].place = lease[t].place
         /\ \A t \in Sids : t # s => lease'[t].inFlight = lease[t].inFlight
         /\ lease'[s].inFlight = IF lease[s].inFlight > 0 THEN lease[s].inFlight - 1 ELSE 0
<1> DEFINE n == IF lease[s].inFlight > 0 THEN lease[s].inFlight - 1 ELSE 0
           k == [lease[s] EXCEPT !.inFlight = n]
<1>1. lease[s] \in LeaseState
  OBVIOUS
<1>2. n \in Nat
  BY <1>1 DEF LeaseState
<1>3. k \in LeaseState /\ k.place = lease[s].place /\ k.inFlight = n
  <2> HIDE DEF n
  <2> QED
    BY <1>1, <1>2 DEF LeaseState
<1>4. lease' = [lease EXCEPT ![s] = k]
  BY DEF Released
<1> HIDE DEF k
<1> QED
  BY <1>3, <1>4

(* A release that also ends the session.                                    *)
LEMMA ReleaseEndOp ==
  ASSUME lease \in [Sids -> LeaseState], NEW s \in Sids, NEW place \in {"none", "fresh", "mapped"} \cup Ends,
         lease' = [Released(s) EXCEPT ![s].place = place]
  PROVE  /\ lease' \in [Sids -> LeaseState]
         /\ \A t \in Sids : t # s => lease'[t] = lease[t]
         /\ lease'[s].place = place
         /\ lease'[s].inFlight = IF lease[s].inFlight > 0 THEN lease[s].inFlight - 1 ELSE 0
<1> DEFINE n == IF lease[s].inFlight > 0 THEN lease[s].inFlight - 1 ELSE 0
           k == [lease[s] EXCEPT !.inFlight = n, !.place = place]
<1>1. lease[s] \in LeaseState
  OBVIOUS
<1>2. n \in Nat
  BY <1>1 DEF LeaseState
<1>3. k \in LeaseState /\ k.place = place /\ k.inFlight = n
  <2> HIDE DEF n
  <2> QED
    BY <1>1, <1>2 DEF LeaseState
<1>4. lease' = [lease EXCEPT ![s] = k]
  BY DEF Released
<1> HIDE DEF k
<1> QED
  BY <1>3, <1>4

LEMMA GoneOp ==
  ASSUME lease \in [Sids -> LeaseState], NEW V, NEW reason \in Ends
  PROVE  /\ Gone(lease, V, reason) \in [Sids -> LeaseState]
         /\ \A t \in Sids : Gone(lease, V, reason)[t].inFlight = lease[t].inFlight
         /\ \A t \in Sids \ V : Gone(lease, V, reason)[t] = lease[t]
         /\ \A t \in Sids \cap V : Gone(lease, V, reason)[t].place = reason
<1>1. ASSUME NEW t \in Sids
      PROVE  /\ [lease[t] EXCEPT !.place = reason] \in LeaseState
             /\ [lease[t] EXCEPT !.place = reason].inFlight = lease[t].inFlight
             /\ [lease[t] EXCEPT !.place = reason].place = reason
  <2>1. lease[t] \in LeaseState
    OBVIOUS
  <2> QED
    BY <2>1 DEF LeaseState
<1> QED
  BY <1>1 DEF Gone

LEMMA TouchOp ==
  ASSUME seen \subseteq Sids \X Sids, expired \subseteq Sids, NEW s \in Sids, Touch(s)
  PROVE  seen' \subseteq Sids \X Sids /\ expired' \subseteq Sids
<1>1. CASE Open(s)
  <2>1. seen' = SeenBut({s}) \cup {<<t, s>> : t \in {u \in Sids \ {s} : Open(u)}}
    BY <1>1 DEF Touch
  <2>2. SeenBut({s}) \subseteq Sids \X Sids
    BY DEF SeenBut
  <2>3. {<<t, s>> : t \in {u \in Sids \ {s} : Open(u)}} \subseteq Sids \X Sids
    OBVIOUS
  <2>4. expired' \subseteq Sids
    BY <1>1 DEF Touch
  <2> QED
    BY <2>1, <2>2, <2>3, <2>4
<1>2. CASE ~Open(s)
  BY <1>2 DEF Touch
<1> QED
  BY <1>1, <1>2

LEMMA ForgetOp ==
  ASSUME seen \subseteq Sids \X Sids, expired \subseteq Sids, NEW V, Forget(V)
  PROVE  seen' \subseteq Sids \X Sids /\ expired' \subseteq Sids
BY DEF Forget, SeenBut

-----------------------------------------------------------------------------
(* Retains, by what one request does. *)

LEMMA Takes ==
  ASSUME NEW r \in Reqs, NEW s \in Sids, \A q \in Reqs : q # r => Same(q),
         ~Holds(r), Holds(r)', req'[r].sess = s,
         \A t \in Sids : t # s => lease'[t].inFlight = lease[t].inFlight,
         lease'[s].inFlight = lease[s].inFlight + 1
  PROVE  \A t \in Sids : BalanceKeeps(t) \/ BalanceTakes(r, t)
<1>1. ASSUME NEW t \in Sids, t # s PROVE BalanceKeeps(t)
  <2>1. r \notin Holders(t) /\ Holders(t)' = Holders(t) \ {r}
    BY <1>1, OneHolder
  <2> QED
    BY <1>1, <2>1 DEF BalanceKeeps
<1>2. BalanceTakes(r, s)
  BY OneHolder DEF BalanceTakes
<1> QED
  BY <1>1, <1>2

LEMMA Gives ==
  ASSUME NEW r \in Reqs, NEW s \in Sids, \A q \in Reqs : q # r => Same(q),
         Holds(r), ~Holds(r)', req[r].sess = s,
         \A t \in Sids : t # s => lease'[t].inFlight = lease[t].inFlight,
         lease'[s].inFlight = IF lease[s].inFlight > 0 THEN lease[s].inFlight - 1 ELSE 0
  PROVE  \A t \in Sids : BalanceKeeps(t) \/ BalanceGives(r, t)
<1>1. ASSUME NEW t \in Sids, t # s PROVE BalanceKeeps(t)
  <2>1. r \notin Holders(t) /\ Holders(t)' = Holders(t) \ {r}
    BY <1>1, OneHolder
  <2> QED
    BY <1>1, <2>1 DEF BalanceKeeps
<1>2. BalanceGives(r, s)
  BY OneHolder DEF BalanceGives
<1> QED
  BY <1>1, <1>2

LEMMA Keeps ==
  ASSUME NEW r \in Reqs, \A q \in Reqs : q # r => Same(q),
         Holds(r)' <=> Holds(r), Holds(r) => req'[r].sess = req[r].sess,
         \A t \in Sids : lease'[t].inFlight = lease[t].inFlight
  PROVE  \A t \in Sids : BalanceKeeps(t)
<1> SUFFICES ASSUME NEW t \in Sids PROVE Holders(t)' = Holders(t)
  BY DEF BalanceKeeps
<1>1. CASE req[r].sess = t /\ Holds(r)
  BY <1>1, OneHolder
<1>2. CASE ~(req[r].sess = t /\ Holds(r))
  BY <1>2, OneHolder
<1> QED
  BY <1>1, <1>2

-----------------------------------------------------------------------------
(* The map of sessions. *)

LEMMA MappedKept ==
  ASSUME \A s \in Sids : lease'[s].place = lease[s].place
  PROVE  Mapped' = Mapped
BY DEF Mapped

(* A step that moves no session, arms or clears no sweeper and leaves the   *)
(* reviews alone.                                                           *)
LEMMA QuietStep ==
  ASSUME McpInv, \A s \in Sids : lease'[s].place = lease[s].place,
         sweeper' = sweeper, UNCHANGED reviews
  PROVE  SweeperWatches' /\ RegistryOK'
<1>1. Mapped' = Mapped
  BY MappedKept
<1>2. SweeperWatches'
  BY <1>1 DEF McpInv, SweeperWatches
<1>3. EndsStay
  BY DEF EndsStay
<1> QED
  BY <1>1, <1>2, <1>3, RegistryStays DEF McpInv

-----------------------------------------------------------------------------
(* Requests: one record is replaced, or the stage of a stream changes. *)

LEMMA ReqMove ==
  ASSUME req \in [Reqs -> ReqState], NEW r \in Reqs, NEW k \in ReqState, req' = [req EXCEPT ![r] = k]
  PROVE  req' \in [Reqs -> ReqState] /\ req'[r] = k /\ \A q \in Reqs : q # r => Same(q)
BY DEF Same

LEMMA NobodyThere ==
  Nobody \in ReqState /\ Nobody.pc = "idle" /\ ~Nobody.fresh /\ ~Nobody.started /\ ~Nobody.held
<1>1. (CHOOSE p \in Proposals : TRUE) \in Proposals
  BY McpAssumption
<1> QED
  BY <1>1 DEF Nobody, ReqState

LEMMA StageMove ==
  ASSUME req \in [Reqs -> ReqState], NEW r \in Reqs,
         NEW stage \in {"start", "form", "url", "open", "done"}, NEW asks \in 0..1,
         req' = [req EXCEPT ![r] = [req[r] EXCEPT !.stage = stage, !.asks = asks]]
  PROVE  req' \in [Reqs -> ReqState] /\ \A q \in Reqs : Same(q)
<1> DEFINE k == [req[r] EXCEPT !.stage = stage, !.asks = asks]
<1>1. req[r] \in ReqState
  OBVIOUS
<1>2. k \in ReqState /\ k.pc = req[r].pc /\ k.sess = req[r].sess /\ k.fresh = req[r].fresh
        /\ k.started = req[r].started /\ k.held = req[r].held
  BY <1>1 DEF ReqState
<1>3. req' = [req EXCEPT ![r] = k]
  OBVIOUS
<1> HIDE DEF k
<1> QED
  BY <1>2, <1>3 DEF Same

LEMMA StageOnly ==
  ASSUME req \in [Reqs -> ReqState], NEW r \in Reqs,
         NEW stage \in {"start", "form", "url", "open", "done"},
         req' = [req EXCEPT ![r].stage = stage]
  PROVE  req' \in [Reqs -> ReqState] /\ \A q \in Reqs : Same(q)
<1>1. req[r] \in ReqState
  OBVIOUS
<1>2. [req[r] EXCEPT !.stage = stage] = [req[r] EXCEPT !.stage = stage, !.asks = req[r].asks]
  BY <1>1 DEF ReqState
<1>3. req' = [req EXCEPT ![r] = [req[r] EXCEPT !.stage = stage, !.asks = req[r].asks]]
  BY <1>2
<1>4. req[r].asks \in 0..1
  BY <1>1 DEF ReqState
<1> QED
  BY <1>3, <1>4, StageMove

-----------------------------------------------------------------------------
(* The steps that move no request between the stages of the handler. *)

LEMMA QuietReview ==
  ASSUME McpInv, UNCHANGED <<leases, sweeper, requests, stopped>>,
         req' \in [Reqs -> ReqState], \A q \in Reqs : Same(q),
         RegistryOK'
  PROVE  McpInv'
<1>1. lease' = lease /\ seen' = seen /\ expired' = expired /\ UNCHANGED <<sweeper, requests, stopped>>
  BY DEF leases
<1>2. Still
  BY <1>1 DEF Still, LeasesTyped, Leaves, McpInv
<1>3. LeasesTyped' /\ MarksTyped' /\ SweeperWatches'
  BY <1>1 DEF McpInv, LeasesTyped, MarksTyped, SweeperWatches, Mapped
<1> QED
  BY <1>2, <1>3, StillStep DEF McpInv

LEMMA ReviewStep ==
  ASSUME McpInv, NEW r \in Reqs, Review(r)
  PROVE  McpInv'
<1>0. req \in [Reqs -> ReqState] /\ req[r] \in ReqState /\ lease \in [Sids -> LeaseState]
  BY DEF McpInv, LeasesTyped
<1>1. Mapped' = Mapped /\ lease' = lease /\ EndsStay /\ UNCHANGED <<leases, sweeper, requests, stopped>>
  <2>1. UNCHANGED <<leases, sweeper, requests, stopped>>
    BY DEF Review, ReadProposal, AskAgain, FastCancel, FormDecides, UrlAccepted, Abandon
  <2> QED
    BY <2>1 DEF leases, Mapped, EndsStay
<1>2. ASSUME NEW channel \in {"form", "url", "done"}, ReadProposal(r, channel) PROVE McpInv'
  <2>1. req' \in [Reqs -> ReqState] /\ \A q \in Reqs : Same(q)
    BY <1>0, <1>2, StageOnly DEF ReadProposal
  <2>2. RegistryOK'
    BY <1>1, <1>2, RegistryStays DEF McpInv, ReadProposal
  <2> QED
    BY <1>1, <2>1, <2>2, QuietReview
<1>3. CASE AskAgain(r)
  <2>1. [req[r] EXCEPT !.asks = 1] = [req[r] EXCEPT !.stage = req[r].stage, !.asks = 1]
    BY <1>0 DEF ReqState
  <2>2. req' = [req EXCEPT ![r] = [req[r] EXCEPT !.stage = req[r].stage, !.asks = 1]]
    BY <1>3, <2>1 DEF AskAgain
  <2>3. req[r].stage \in {"start", "form", "url", "open", "done"} /\ 1 \in 0..1
    BY <1>0 DEF ReqState
  <2>4. req' \in [Reqs -> ReqState] /\ \A q \in Reqs : Same(q)
    BY <1>0, <2>2, <2>3, StageMove
  <2>5. RegistryOK'
    BY <1>1, <1>3, RegistryStays DEF McpInv, AskAgain
  <2> QED
    BY <1>1, <2>4, <2>5, QuietReview
<1>4. CASE FastCancel(r)
  <2>1. req' \in [Reqs -> ReqState] /\ \A q \in Reqs : Same(q)
    BY <1>0, <1>4, StageOnly DEF FastCancel
  <2>2. RegistryOK'
    BY <1>1, <1>4, RegistryStays DEF McpInv, FastCancel
  <2> QED
    BY <1>1, <2>1, <2>2, QuietReview
<1>5. CASE FormDecides(r)
  <2>1. req' \in [Reqs -> ReqState] /\ \A q \in Reqs : Same(q)
    BY <1>0, <1>5, StageOnly DEF FormDecides, Answered
  <2>2. req[r].prop \in Proposals /\ verdict \in [Proposals -> Verdicts]
    BY <1>0 DEF ReqState, McpInv, RegistryOK, RegistryTyped
  <2>3. /\ verdict' \in [Proposals -> Verdicts]
        /\ \A p \in Proposals : verdict'[p] = "rest" => verdict[p] = "rest"
    BY <1>5, <2>2 DEF FormDecides, Verdicts
  <2>4. /\ registry' = registry /\ elicited' = elicited /\ completing' = completing
        /\ UNCHANGED <<opened, told, evicted>>
    BY <1>5 DEF FormDecides, urls, history
  <2>5. \A i \in DOMAIN registry : registry[i].prop \in Proposals
    BY DEF McpInv, RegistryOK, RegistryTyped, Entry
  <2>6. RegistryOK'
    <3>1. RegistryTyped'
      BY <2>3, <2>4 DEF McpInv, RegistryOK, RegistryTyped
    <3>2. RegistryServesLive'
      BY <1>1, <2>4 DEF McpInv, RegistryOK, RegistryServesLive
    <3>3. EntriesAwait'
      BY <2>3, <2>4, <2>5 DEF McpInv, RegistryOK, EntriesAwait
    <3>4. Accounted'
      BY <1>1, <2>4 DEF McpInv, RegistryOK, Accounted
    <3> QED
      BY <3>1, <3>2, <3>3, <3>4 DEF RegistryOK
  <2> QED
    BY <1>1, <2>1, <2>6, QuietReview
<1>6. CASE UrlAccepted(r)
  <2> DEFINE p == req[r].prop
             s == req[r].sess
             e == [prop |-> p, sess |-> s, late |-> verdict[p] = "rest" /\ p \notin completing]
  <2>1. req' \in [Reqs -> ReqState] /\ \A q \in Reqs : Same(q)
    BY <1>0, <1>6, StageOnly DEF UrlAccepted, Answered
  <2>2. p \in Proposals /\ s \in Sids /\ s \in Mapped
    <3>1. ReqOK(r)
      BY DEF McpInv, RequestsOK
    <3>2. req[r].pc = "stream" /\ Open(s)
      BY <1>6 DEF UrlAccepted, Asking
    <3> QED
      BY <1>0, <3>1, <3>2 DEF ReqOK, Open, Mapped, ReqState
  <2>3. /\ e \in Entry /\ e.sess = s /\ e.prop = p
        /\ (verdict[p] # "rest" \/ p \in completing \/ e.late)
    BY <2>2 DEF Entry
  <2>4. /\ registry' = Registered(e) /\ elicited' = elicited + 1 /\ UNCHANGED <<verdict, completing>>
        /\ opened' = [i \in 1..elicited + 1 |-> IF i <= elicited THEN opened[i] ELSE e]
        /\ evicted' = evicted \cup (DOMAIN registry \ Roomy) /\ told' = told
    BY <1>6 DEF UrlAccepted
  <2>5. RegistryOK'
    <3> HIDE DEF e, s, p
    <3> QED
      BY <1>1, <2>2, <2>3, <2>4, RegistryGrows DEF McpInv
  <2> QED
    BY <1>1, <2>1, <2>5, QuietReview
<1>7. CASE Abandon(r)
  <2>1. req' \in [Reqs -> ReqState] /\ \A q \in Reqs : Same(q)
    BY <1>0, <1>7, StageOnly DEF Abandon, Answered
  <2>2. RegistryOK'
    BY <1>1, <1>7, RegistryStays DEF McpInv, Abandon
  <2> QED
    BY <1>1, <2>1, <2>2, QuietReview
<1> QED
  BY <1>2, <1>3, <1>4, <1>5, <1>6, <1>7 DEF Review

(* A review ends over REST: the registry stays, and complete() is on its    *)
(* way unless the end was silent.                                           *)
LEMMA EndedOverRest ==
  ASSUME McpInv, NEW p \in Proposals, RestDecides(p) \/ RestEndsSilently(p)
  PROVE  RegistryOK'
<1>1. lease' = lease /\ Mapped' = Mapped
  BY DEF RestDecides, RestEndsSilently, leases, Mapped
<1>2. RegistryOK /\ RegistryTyped
  BY DEF McpInv, RegistryOK
<1>3. \A i \in DOMAIN registry : registry[i].prop \in Proposals
  BY <1>2 DEF RegistryTyped, Entry
<1>4. /\ verdict' \in [Proposals -> Verdicts] /\ completing' \subseteq Proposals
      /\ completing \subseteq completing' /\ (p \in completing' \/ verdict'[p] # "rest")
      /\ \A q \in Proposals : q # p => verdict'[q] = verdict[q]
  <2>1. CASE RestDecides(p)
    BY <1>2, <2>1 DEF RestDecides, RegistryTyped, Verdicts
  <2>2. CASE RestEndsSilently(p)
    BY <1>2, <2>2 DEF RestEndsSilently, RegistryTyped, Verdicts
  <2> QED
    BY <2>1, <2>2
<1>5. UNCHANGED <<registry, elicited, opened, told, evicted>>
  BY DEF RestDecides, RestEndsSilently, urls, history
<1>6. RegistryTyped'
  BY <1>2, <1>4, <1>5 DEF RegistryTyped
<1>7. RegistryServesLive'
  BY <1>1, <1>2, <1>5 DEF RegistryOK, RegistryServesLive
<1>8. EntriesAwait'
  BY <1>2, <1>3, <1>4, <1>5 DEF RegistryOK, EntriesAwait
<1>9. Accounted'
  BY <1>1, <1>2, <1>5 DEF RegistryOK, Accounted
<1> QED
  BY <1>6, <1>7, <1>8, <1>9 DEF RegistryOK

(* complete() takes one entry out and tells it.                             *)
LEMMA Notified ==
  ASSUME McpInv, NEW p \in Proposals, NEW i \in DOMAIN registry, Notify(p, i)
  PROVE  RegistryOK'
<1> DEFINE I == DOMAIN registry \ {i}
<1>1. lease' = lease /\ Mapped' = Mapped /\ EndsStay
  BY DEF Notify, leases, Mapped, EndsStay
<1>2. RegistryOK /\ RegistryTyped
  BY DEF McpInv, RegistryOK
<1>3. /\ registry' = Only(I) /\ told' = told \cup {i}
      /\ UNCHANGED <<verdict, completing, elicited, opened, evicted>>
  BY DEF Notify
<1>4. I \in SUBSET (DOMAIN registry) /\ \A j \in DOMAIN registry \ I : j \in told'
  BY <1>3
<1>5. told \subseteq told' /\ told' \subseteq 1..elicited
  BY <1>2, <1>3 DEF RegistryOK, RegistryTyped, Accounted
<1>6. \A j \in I : /\ registry[j].sess \in Mapped'
                   /\ \/ verdict'[registry[j].prop] # "rest"
                      \/ registry[j].prop \in completing'
                      \/ registry[j].late
  BY <1>1, <1>2, <1>3 DEF RegistryOK, RegistryServesLive, EntriesAwait
<1>7. verdict' \in [Proposals -> Verdicts] /\ completing' \subseteq Proposals
  BY <1>2, <1>3 DEF RegistryTyped
<1> HIDE DEF I
<1> QED
  BY <1>1, <1>2, <1>3, <1>4, <1>5, <1>6, <1>7, RegistryShrinks

(* complete() returns: it has left no entry of the proposal.                *)
LEMMA CompleteReturns ==
  ASSUME McpInv, NEW p \in Proposals, Completed(p)
  PROVE  RegistryOK'
<1>1. lease' = lease /\ Mapped' = Mapped
  BY DEF Completed, leases, Mapped
<1>2. RegistryOK /\ RegistryTyped
  BY DEF McpInv, RegistryOK
<1>3. /\ UNCHANGED <<verdict, registry, elicited, opened, told, evicted>>
      /\ completing' = completing \ {p}
  BY DEF Completed, urls, history
<1>4. \A i \in DOMAIN registry : registry[i].prop # p
  BY DEF Completed, Pending
<1>5. RegistryTyped'
  BY <1>2, <1>3 DEF RegistryTyped
<1>6. RegistryServesLive' /\ EntriesAwait'
  BY <1>1, <1>2, <1>3, <1>4 DEF RegistryOK, RegistryServesLive, EntriesAwait
<1>7. Accounted'
  BY <1>1, <1>2, <1>3 DEF RegistryOK, Accounted
<1> QED
  BY <1>5, <1>6, <1>7 DEF RegistryOK

LEMMA DecisionStep ==
  ASSUME McpInv, NEW p \in Proposals,
         \/ RestDecides(p) \/ RestEndsSilently(p) \/ Completed(p)
         \/ \E i \in DOMAIN registry : Notify(p, i)
  PROVE  McpInv'
<1>1. UNCHANGED <<leases, sweeper, req, requests, stopped>>
  BY DEF RestDecides, RestEndsSilently, Completed, Notify
<1>2. req' \in [Reqs -> ReqState] /\ \A q \in Reqs : Same(q)
  BY <1>1 DEF Same, McpInv, LeasesTyped
<1>3. RegistryOK'
  BY EndedOverRest, Notified, CompleteReturns
<1> QED
  BY <1>1, <1>2, <1>3, QuietReview

-----------------------------------------------------------------------------
(* The steps of the session manager's own. *)

LEMMA ManagerStep ==
  ASSUME McpInv, (\E s \in Sids : Age(s)) \/ Tick \/ Stop
  PROVE  McpInv'
<1>0. /\ lease \in [Sids -> LeaseState] /\ req \in [Reqs -> ReqState]
      /\ seen \subseteq Sids \X Sids /\ expired \subseteq Sids /\ MarksTyped /\ RegistryOK
  BY DEF McpInv, LeasesTyped, MarksTyped
<1>1. ASSUME NEW s \in Sids, Age(s) PROVE McpInv'
  <2>1. /\ UNCHANGED <<lease, seen, sweeper, req, requests, stopped, reviews>>
        /\ expired' = expired \cup {s}
    BY <1>1 DEF Age
  <2>2. Still
    BY <1>0, <2>1 DEF Still, LeasesTyped, Same, Leaves
  <2>3. LeasesTyped' /\ MarksTyped'
    BY <1>0, <2>1 DEF LeasesTyped, MarksTyped
  <2>4. SweeperWatches' /\ RegistryOK'
    BY <2>1, QuietStep
  <2> QED
    BY <2>2, <2>3, <2>4, StillStep DEF McpInv
<1>2. ASSUME NEW V \in SUBSET Mapped, NEW reason \in Ends,
             lease' = Gone(lease, V, reason), Forget(V), registry' = Pruned(V),
             UNCHANGED <<req, requests, verdict, completing, elicited, history>>,
             sweeper' \in BOOLEAN, stopped' \in BOOLEAN, Mapped \ V # {} => sweeper'
      PROVE  McpInv'
  <2>1. /\ lease' \in [Sids -> LeaseState]
        /\ \A t \in Sids : lease'[t].inFlight = lease[t].inFlight
        /\ \A t \in Sids \ V : lease'[t] = lease[t]
        /\ \A t \in Sids \cap V : lease'[t].place = reason
    BY <1>0, <1>2, GoneOp
  <2>2. \A t \in Sids : Leaves(t)
    BY <2>1 DEF Leaves, Mapped
  <2>3. Still
    BY <1>0, <1>2, <2>1, <2>2 DEF Still, LeasesTyped, Same
  <2>4. LeasesTyped' /\ MarksTyped'
    BY <1>0, <1>2, <2>1, ForgetOp DEF LeasesTyped, MarksTyped
  <2>5. Mapped' = Mapped \ V
    BY <2>1 DEF Mapped, Ends
  <2>6. SweeperWatches'
    BY <1>2, <2>5 DEF SweeperWatches
  <2>7. RegistryOK'
    <3>1. EndsStay /\ \A s \in V \cap Sids : lease'[s].place \in Ends
      BY <2>1 DEF EndsStay
    <3> QED
      BY <1>0, <1>2, <2>5, <3>1, RegistryPruned
  <2> QED
    BY <2>3, <2>4, <2>6, <2>7, StillStep DEF McpInv
<1>3. CASE Tick
  <2>1. Swept \in SUBSET Mapped /\ "idle_ttl" \in Ends
    BY DEF Swept, Idle, Ends
  <2>2. sweeper' \in BOOLEAN /\ stopped' \in BOOLEAN /\ (Mapped \ Swept # {} => sweeper')
    BY <1>0, <1>3 DEF Tick, MarksTyped
  <2> QED
    BY <1>2, <1>3, <2>1, <2>2 DEF Tick
<1>4. CASE Stop
  <2>1. Mapped \in SUBSET Mapped /\ "shutdown" \in Ends
    BY DEF Ends
  <2>2. sweeper' \in BOOLEAN /\ stopped' \in BOOLEAN /\ (Mapped \ Mapped # {} => sweeper')
    BY <1>4 DEF Stop
  <2> QED
    BY <1>2, <1>4, <2>1, <2>2 DEF Stop
<1> QED
  BY <1>1, <1>3, <1>4

-----------------------------------------------------------------------------
(* A request is received. *)

(* A move that leaves the sessions where they are and the reviews alone.    *)
LEMMA CarriedOut ==
  ASSUME McpInv, LeasesTyped', \A s \in Sids : lease'[s].place = lease[s].place,
         seen' \subseteq Sids \X Sids, expired' \subseteq Sids, requests' \in Nat,
         UNCHANGED <<sweeper, stopped, reviews>>,
         RequestsOK' /\ RetainsBalance' /\ NoLeakedServer'
  PROVE  McpInv'
<1>1. SweeperWatches' /\ RegistryOK'
  BY QuietStep
<1>2. MarksTyped'
  BY DEF McpInv, MarksTyped
<1> QED
  BY <1>1, <1>2 DEF McpInv

LEMMA ArriveStep ==
  ASSUME McpInv, NEW r \in Reqs, NEW kind \in Kinds, NEW s \in Sids \cup {NoSession}, NEW p \in Proposals,
         Arrive(r, kind, s, p)
  PROVE  McpInv'
<1> DEFINE k == [Nobody EXCEPT !.pc = "auth", !.kind = kind, !.sess = s, !.prop = p]
<1>0. req \in [Reqs -> ReqState] /\ lease \in [Sids -> LeaseState] /\ MarksTyped
  BY DEF McpInv, LeasesTyped
<1>1. k \in ReqState /\ k.pc = "auth" /\ ~k.fresh
  BY NobodyThere DEF ReqState, Kinds
<1>2. /\ req' = [req EXCEPT ![r] = k] /\ UNCHANGED <<leases, sweeper, stopped, reviews>>
      /\ req[r].pc = "idle" /\ requests' = requests + 1
  BY DEF Arrive
<1> HIDE DEF k
<1>3. req' \in [Reqs -> ReqState] /\ req'[r] = k /\ \A q \in Reqs : q # r => Same(q)
  BY <1>0, <1>1, <1>2, ReqMove
<1>4. lease' = lease /\ seen' = seen /\ expired' = expired
  BY <1>2 DEF leases
<1>5. \A t \in Sids : BalanceKeeps(t)
  BY <1>1, <1>2, <1>3, <1>4, Keeps DEF Holds
<1>6. Moves(r)
  BY <1>0, <1>1, <1>3, <1>4, <1>5 DEF Moves, LeasesTyped, ReqOK
<1>7. \A t \in Sids : ~Founder(r, t) /\ ~Founder(r, t)' /\ Leaves(t)
  BY <1>1, <1>2, <1>3, <1>4 DEF Founder, Leaves
<1>8. RequestsOK' /\ RetainsBalance' /\ NoLeakedServer'
  BY <1>6, <1>7, PlainMove
<1>9. /\ LeasesTyped' /\ \A t \in Sids : lease'[t].place = lease[t].place
      /\ seen' \subseteq Sids \X Sids /\ expired' \subseteq Sids /\ requests' \in Nat
  BY <1>0, <1>2, <1>3, <1>4 DEF LeasesTyped, MarksTyped
<1> QED
  BY <1>2, <1>8, <1>9, CarriedOut

LEMMA RefuseStep ==
  ASSUME McpInv, NEW r \in Reqs, Refuse(r)
  PROVE  McpInv'
<1>0. req \in [Reqs -> ReqState] /\ lease \in [Sids -> LeaseState] /\ MarksTyped
  BY DEF McpInv, LeasesTyped
<1>2. /\ req' = [req EXCEPT ![r] = Nobody] /\ UNCHANGED <<leases, sweeper, stopped, requests, reviews>>
      /\ req[r].pc = "auth"
  BY DEF Refuse
<1>3. req' \in [Reqs -> ReqState] /\ req'[r] = Nobody /\ \A q \in Reqs : q # r => Same(q)
  BY <1>0, <1>2, NobodyThere, ReqMove
<1>4. lease' = lease /\ seen' = seen /\ expired' = expired
  BY <1>2 DEF leases
<1>5. \A t \in Sids : BalanceKeeps(t)
  BY <1>2, <1>3, <1>4, NobodyThere, Keeps DEF Holds
<1>6. Moves(r)
  BY <1>0, <1>3, <1>4, <1>5, NobodyThere DEF Moves, LeasesTyped, ReqOK
<1>7. \A t \in Sids : ~Founder(r, t) /\ ~Founder(r, t)' /\ Leaves(t)
  BY <1>2, <1>3, <1>4, NobodyThere DEF Founder, Leaves
<1>8. RequestsOK' /\ RetainsBalance' /\ NoLeakedServer'
  BY <1>6, <1>7, PlainMove
<1>9. /\ LeasesTyped' /\ \A t \in Sids : lease'[t].place = lease[t].place
      /\ seen' \subseteq Sids \X Sids /\ expired' \subseteq Sids /\ requests' \in Nat
  BY <1>0, <1>2, <1>3, <1>4 DEF LeasesTyped, MarksTyped
<1> QED
  BY <1>2, <1>8, <1>9, CarriedOut

LEMMA EnterStep ==
  ASSUME McpInv, NEW r \in Reqs, Enter(r)
  PROVE  McpInv'
<1> DEFINE s == req[r].sess
           others == IF req[r].kind = "get" THEN StandaloneClosed(s) ELSE req
<1>0. req \in [Reqs -> ReqState] /\ lease \in [Sids -> LeaseState] /\ MarksTyped
  BY DEF McpInv, LeasesTyped
<1>1. /\ req[r].pc = "auth" /\ s \in Sids /\ lease[s].place = "mapped"
      /\ req' = [others EXCEPT ![r].pc = "handling"]
      /\ lease' = Retained(s) /\ Touch(s) /\ UNCHANGED <<sweeper, requests, stopped, reviews>>
  BY DEF Enter, Mapped
<1>2. others \in [Reqs -> ReqState] /\ others[r] = req[r] /\ req[r] \in ReqState
  <2>1. \A q \in Reqs : [req[q] EXCEPT !.stage = "done"] \in ReqState
    <3> TAKE q \in Reqs
    <3>1. req[q] \in ReqState
      BY <1>0
    <3> QED
      BY <3>1 DEF ReqState
  <2>2. StandaloneClosed(s) \in [Reqs -> ReqState] /\ StandaloneClosed(s)[r] = req[r]
    BY <1>0, <1>1, <2>1 DEF StandaloneClosed
  <2> QED
    BY <1>0, <2>2
<1>3. \A q \in Reqs : /\ others[q].pc = req[q].pc /\ others[q].sess = req[q].sess
                      /\ others[q].fresh = req[q].fresh /\ others[q].started = req[q].started
                      /\ others[q].held = req[q].held
  <2>1. \A q \in Reqs : LET k == [req[q] EXCEPT !.stage = "done"]
                        IN  /\ k.pc = req[q].pc /\ k.sess = req[q].sess
                            /\ k.fresh = req[q].fresh /\ k.started = req[q].started
                            /\ k.held = req[q].held
    <3> TAKE q \in Reqs
    <3>1. req[q] \in ReqState
      BY <1>0
    <3> QED
      BY <3>1 DEF ReqState
  <2> QED
    BY <2>1 DEF StandaloneClosed
<1> DEFINE k == [req[r] EXCEPT !.pc = "handling"]
<1>4. /\ k \in ReqState /\ k.pc = "handling" /\ k.sess = s /\ k.fresh = req[r].fresh
      /\ k.started = req[r].started /\ k.held = req[r].held
  BY <1>2 DEF ReqState
<1>5. req' = [others EXCEPT ![r] = k]
  BY <1>1, <1>2
<1>6. req' \in [Reqs -> ReqState] /\ req'[r] = k /\ \A q \in Reqs : q # r => Same(q)
  <2> HIDE DEF k, others
  <2> QED
    BY <1>2, <1>3, <1>4, <1>5 DEF Same
<1> HIDE DEF k, others, s
<1>7. /\ lease' \in [Sids -> LeaseState]
      /\ \A t \in Sids : lease'[t].place = lease[t].place
      /\ \A t \in Sids : t # s => lease'[t].inFlight = lease[t].inFlight
      /\ lease'[s].inFlight = lease[s].inFlight + 1
  BY <1>0, <1>1, RetainOp
<1>8. \A t \in Sids : BalanceKeeps(t) \/ BalanceTakes(r, t)
  BY <1>1, <1>4, <1>6, <1>7, Takes DEF Holds
<1>9. ~req[r].fresh /\ ~k.fresh
  BY <1>1, <1>4 DEF McpInv, RequestsOK, ReqOK
<1>10. Moves(r)
  BY <1>1, <1>4, <1>6, <1>7, <1>8, <1>9 DEF Moves, LeasesTyped, ReqOK
<1>11. \A t \in Sids : ~Founder(r, t) /\ ~Founder(r, t)' /\ Leaves(t)
  BY <1>6, <1>7, <1>9 DEF Founder, Leaves
<1>12. RequestsOK' /\ RetainsBalance' /\ NoLeakedServer'
  BY <1>10, <1>11, PlainMove
<1>13. /\ LeasesTyped' /\ seen' \subseteq Sids \X Sids /\ expired' \subseteq Sids /\ requests' \in Nat
  BY <1>0, <1>1, <1>6, <1>7, TouchOp DEF LeasesTyped, MarksTyped
<1> QED
  BY <1>1, <1>7, <1>12, <1>13, CarriedOut

LEMMA BuildStep ==
  ASSUME McpInv, NEW r \in Reqs, NEW s \in Sids, Build(r, s)
  PROVE  McpInv'
<1> DEFINE k == [req[r] EXCEPT !.pc = "connect", !.sess = s, !.fresh = TRUE]
           l == [lease[s] EXCEPT !.place = "fresh"]
<1>0. /\ req \in [Reqs -> ReqState] /\ lease \in [Sids -> LeaseState] /\ MarksTyped
      /\ req[r] \in ReqState /\ lease[s] \in LeaseState
  BY DEF McpInv, LeasesTyped
<1>1. k \in ReqState /\ k.pc = "connect" /\ k.sess = s /\ k.fresh
  BY <1>0 DEF ReqState
<1>2. l \in LeaseState /\ l.place = "fresh" /\ l.inFlight = lease[s].inFlight
  BY <1>0 DEF LeaseState
<1>3. /\ req[r].pc = "auth" /\ lease[s].place = "none"
      /\ req' = [req EXCEPT ![r] = k] /\ lease' = [lease EXCEPT ![s] = l]
      /\ UNCHANGED <<seen, expired, sweeper, requests, stopped, reviews>>
  BY <1>0 DEF Build
<1> HIDE DEF k, l
<1>4. req' \in [Reqs -> ReqState] /\ req'[r] = k /\ \A q \in Reqs : q # r => Same(q)
  BY <1>0, <1>1, <1>3, ReqMove
<1>5. /\ lease' \in [Sids -> LeaseState] /\ lease'[s].place = "fresh"
      /\ \A t \in Sids : t # s => lease'[t] = lease[t]
      /\ \A t \in Sids : lease'[t].inFlight = lease[t].inFlight
  BY <1>0, <1>2, <1>3
<1>6. \A t \in Sids : BalanceKeeps(t)
  BY <1>1, <1>3, <1>4, <1>5, Keeps DEF Holds
<1>7. Moves(r)
  BY <1>1, <1>4, <1>5, <1>6 DEF Moves, LeasesTyped, ReqOK
<1>8. Founder(r, s)' /\ \A t \in Sids : ~Founder(r, t)
  BY <1>1, <1>3, <1>4 DEF Founder
<1>9. RequestsOK' /\ RetainsBalance' /\ NoLeakedServer'
  BY <1>3, <1>5, <1>7, <1>8, NewFounder
<1>10. Mapped' = Mapped
  BY <1>3, <1>5 DEF Mapped
<1>11. LeasesTyped' /\ MarksTyped' /\ SweeperWatches'
  BY <1>0, <1>3, <1>4, <1>5, <1>10 DEF LeasesTyped, MarksTyped, SweeperWatches, McpInv
<1>12. RegistryOK'
  <2>1. EndsStay
    BY <1>3, <1>5 DEF EndsStay, Ends
  <2> QED
    BY <1>3, <1>10, <2>1, RegistryStays DEF McpInv
<1> QED
  BY <1>9, <1>11, <1>12 DEF McpInv

LEMMA ConnectedStep ==
  ASSUME McpInv, NEW r \in Reqs, Connected(r)
  PROVE  McpInv'
<1> DEFINE s == req[r].sess
           k == [req[r] EXCEPT !.pc = "handling"]
<1>0. /\ req \in [Reqs -> ReqState] /\ lease \in [Sids -> LeaseState] /\ MarksTyped
      /\ req[r] \in ReqState
  BY DEF McpInv, LeasesTyped
<1>1. k \in ReqState /\ k.pc = "handling" /\ k.sess = s /\ k.fresh = req[r].fresh
  BY <1>0 DEF ReqState
<1>2. /\ req[r].pc = "connect" /\ req' = [req EXCEPT ![r] = k]
      /\ lease' = Retained(s) /\ Touch(s) /\ UNCHANGED <<sweeper, requests, stopped, reviews>>
  BY <1>0 DEF Connected
<1>3. req[r].fresh /\ s \in Sids /\ lease[s].place = "fresh"
  BY <1>2 DEF McpInv, RequestsOK, ReqOK
<1> HIDE DEF k
<1>4. req' \in [Reqs -> ReqState] /\ req'[r] = k /\ \A q \in Reqs : q # r => Same(q)
  BY <1>0, <1>1, <1>2, ReqMove
<1> HIDE DEF s
<1>5. /\ lease' \in [Sids -> LeaseState]
      /\ \A t \in Sids : lease'[t].place = lease[t].place
      /\ \A t \in Sids : t # s => lease'[t].inFlight = lease[t].inFlight
      /\ lease'[s].inFlight = lease[s].inFlight + 1
  BY <1>0, <1>2, <1>3, RetainOp
<1>6. \A t \in Sids : BalanceKeeps(t) \/ BalanceTakes(r, t)
  BY <1>1, <1>2, <1>3, <1>4, <1>5, Takes DEF Holds
<1>7. Moves(r)
  BY <1>1, <1>3, <1>4, <1>5, <1>6 DEF Moves, LeasesTyped, ReqOK
<1>8. PICK f \in Sids : f = s
  BY <1>3
<1>11. Founder(r, f) /\ Founder(r, f)' /\ \A t \in Sids : Leaves(t)
  BY <1>1, <1>2, <1>3, <1>4, <1>5, <1>8 DEF Founder, Leaves, s
<1>9. RequestsOK' /\ RetainsBalance' /\ NoLeakedServer'
  BY <1>7, <1>11, FoundingMove
<1>10. /\ LeasesTyped' /\ seen' \subseteq Sids \X Sids /\ expired' \subseteq Sids /\ requests' \in Nat
  BY <1>0, <1>2, <1>3, <1>4, <1>5, TouchOp DEF LeasesTyped, MarksTyped
<1> QED
  BY <1>2, <1>5, <1>9, <1>10, CarriedOut

-----------------------------------------------------------------------------
(* A request of a session in the map moves on: its record, its hold and the *)
(* lease agree. *)

LEMMA StreamMove ==
  ASSUME McpInv, NEW r \in Reqs, NEW k \in ReqState, req' = [req EXCEPT ![r] = k],
         req[r].pc \in {"handling", "stream"}, req[r].pc = "handling" => ~req[r].fresh,
         k = Nobody \/ (k.pc = "stream" /\ k.sess = req[r].sess /\ (k.started => k.held)),
         \/ UNCHANGED leases /\ (Holds(r)' <=> Holds(r))
         \/ lease' = Retained(req[r].sess) /\ Touch(req[r].sess) /\ ~Holds(r) /\ k.pc = "stream" /\ k.held
         \/ lease' = Released(req[r].sess) /\ Touch(req[r].sess) /\ Holds(r) /\ ~(k.pc = "stream" /\ k.held),
         UNCHANGED <<sweeper, requests, stopped, reviews>>
  PROVE  McpInv'
<1> DEFINE s == req[r].sess
<1>0. /\ req \in [Reqs -> ReqState] /\ lease \in [Sids -> LeaseState] /\ MarksTyped
      /\ req[r] \in ReqState
  BY DEF McpInv, LeasesTyped
<1>1. s \in Sids /\ lease[s].place \notin {"none", "fresh"}
  BY DEF McpInv, RequestsOK, ReqOK
<1>2. req' \in [Reqs -> ReqState] /\ req'[r] = k /\ \A q \in Reqs : q # r => Same(q)
  BY <1>0, ReqMove
<1>3. k.pc \in {"idle", "stream"} /\ (k.pc = "idle" => ~k.fresh)
  BY NobodyThere
<1>4. Holds(r)' <=> k.pc = "stream" /\ k.held
  BY <1>2, <1>3 DEF Holds
<1> HIDE DEF s
<1>5. /\ lease' \in [Sids -> LeaseState] /\ \A t \in Sids : lease'[t].place = lease[t].place
      /\ seen' \subseteq Sids \X Sids /\ expired' \subseteq Sids
      /\ \A t \in Sids : BalanceKeeps(t) \/ BalanceTakes(r, t) \/ BalanceGives(r, t)
  <2>1. CASE UNCHANGED leases /\ (Holds(r)' <=> Holds(r))
    <3>1. lease' = lease /\ seen' = seen /\ expired' = expired
      BY <2>1 DEF leases
    <3>2. Holds(r) => req'[r].sess = req[r].sess
      BY <1>2, <1>4, <2>1, NobodyThere
    <3>3. \A t \in Sids : BalanceKeeps(t)
      BY <1>2, <2>1, <3>1, <3>2, Keeps
    <3> QED
      BY <1>0, <3>1, <3>3 DEF MarksTyped
  <2>2. CASE lease' = Retained(s) /\ Touch(s) /\ ~Holds(r) /\ k.pc = "stream" /\ k.held
    <3>1. /\ lease' \in [Sids -> LeaseState]
          /\ \A t \in Sids : lease'[t].place = lease[t].place
          /\ \A t \in Sids : t # s => lease'[t].inFlight = lease[t].inFlight
          /\ lease'[s].inFlight = lease[s].inFlight + 1
      BY <1>0, <1>1, <2>2, RetainOp
    <3>2. req'[r].sess = s
      BY <1>2, <2>2, NobodyThere DEF s
    <3>3. \A t \in Sids : BalanceKeeps(t) \/ BalanceTakes(r, t)
      BY <1>1, <1>2, <1>4, <2>2, <3>1, <3>2, Takes
    <3>4. seen' \subseteq Sids \X Sids /\ expired' \subseteq Sids
      BY <1>0, <1>1, <2>2, TouchOp DEF MarksTyped
    <3> QED
      BY <3>1, <3>3, <3>4
  <2>3. CASE lease' = Released(s) /\ Touch(s) /\ Holds(r) /\ ~(k.pc = "stream" /\ k.held)
    <3>1. /\ lease' \in [Sids -> LeaseState]
          /\ \A t \in Sids : lease'[t].place = lease[t].place
          /\ \A t \in Sids : t # s => lease'[t].inFlight = lease[t].inFlight
          /\ lease'[s].inFlight = IF lease[s].inFlight > 0 THEN lease[s].inFlight - 1 ELSE 0
      BY <1>0, <1>1, <2>3, ReleaseOp
    <3>3. \A t \in Sids : BalanceKeeps(t) \/ BalanceGives(r, t)
      BY <1>1, <1>2, <1>4, <2>3, <3>1, Gives DEF s
    <3>4. seen' \subseteq Sids \X Sids /\ expired' \subseteq Sids
      BY <1>0, <1>1, <2>3, TouchOp DEF MarksTyped
    <3> QED
      BY <3>1, <3>3, <3>4
  <2> QED
    BY <2>1, <2>2, <2>3 DEF s
<1>6. ReqOK(r)'
  BY <1>1, <1>2, <1>3, <1>5, NobodyThere DEF ReqOK, s
<1>7. Moves(r)
  BY <1>2, <1>5, <1>6 DEF Moves, LeasesTyped
<1>8. \A t \in Sids : ~Founder(r, t) /\ ~Founder(r, t)' /\ Leaves(t)
  BY <1>2, <1>3, <1>5 DEF Founder, Leaves
<1>9. RequestsOK' /\ RetainsBalance' /\ NoLeakedServer'
  BY <1>7, <1>8, PlainMove
<1>10. LeasesTyped' /\ requests' \in Nat
  BY <1>0, <1>2, <1>5 DEF LeasesTyped, MarksTyped
<1> QED
  BY <1>5, <1>9, <1>10, CarriedOut

LEMMA StreamStep ==
  ASSUME McpInv, NEW r \in Reqs,
         OpenStream(r) \/ Grace(r) \/ Pull(r) \/ Finish(r) \/ (Reply(r) /\ ~req[r].fresh)
  PROVE  McpInv'
<1>0. req \in [Reqs -> ReqState] /\ req[r] \in ReqState /\ ReqOK(r)
  BY DEF McpInv, LeasesTyped, RequestsOK
<1>1. CASE OpenStream(r)
  <2> DEFINE stage == IF req[r].kind = "call" THEN "start" ELSE "open"
             k == [req[r] EXCEPT !.pc = "stream", !.stage = stage, !.held = TRUE]
  <2>1. k \in ReqState /\ k.pc = "stream" /\ k.sess = req[r].sess /\ k.held
    BY <1>0 DEF ReqState
  <2>2. /\ req' = [req EXCEPT ![r] = k] /\ req[r].pc = "handling" /\ ~req[r].fresh
        /\ UNCHANGED <<leases, sweeper, requests, stopped, reviews>>
    BY <1>0, <1>1 DEF OpenStream, Streams
  <2> HIDE DEF k
  <2>3. Holds(r) /\ Holds(r)'
    BY <1>0, <2>1, <2>2 DEF Holds
  <2> QED
    BY <2>1, <2>2, <2>3, StreamMove
<1>2. CASE Grace(r)
  <2> DEFINE k == [req[r] EXCEPT !.held = FALSE]
  <2>1. k \in ReqState /\ k.pc = req[r].pc /\ k.sess = req[r].sess /\ ~k.held /\ k.started = req[r].started
    BY <1>0 DEF ReqState
  <2>2. /\ req' = [req EXCEPT ![r] = k] /\ req[r].pc = "stream" /\ ~req[r].started /\ req[r].held
        /\ lease' = Released(req[r].sess) /\ Touch(req[r].sess)
        /\ UNCHANGED <<sweeper, requests, stopped, reviews>>
    BY <1>0, <1>2 DEF Grace
  <2> HIDE DEF k
  <2>3. Holds(r)
    BY <2>2 DEF Holds
  <2> QED
    BY <2>1, <2>2, <2>3, StreamMove
<1>3. CASE Pull(r)
  <2> DEFINE k == [req[r] EXCEPT !.started = TRUE, !.held = TRUE]
  <2>1. k \in ReqState /\ k.pc = req[r].pc /\ k.sess = req[r].sess /\ k.held
    BY <1>0 DEF ReqState
  <2>2. /\ req' = [req EXCEPT ![r] = k] /\ req[r].pc = "stream"
        /\ IF req[r].held THEN UNCHANGED leases ELSE lease' = Retained(req[r].sess) /\ Touch(req[r].sess)
        /\ UNCHANGED <<sweeper, requests, stopped, reviews>>
    BY <1>0, <1>3 DEF Pull
  <2> HIDE DEF k
  <2>3. Holds(r)' /\ (Holds(r) <=> req[r].held)
    BY <1>0, <2>1, <2>2 DEF Holds
  <2> QED
    BY <2>1, <2>2, <2>3, StreamMove
<1>4. CASE Finish(r)
  <2>2. /\ req' = [req EXCEPT ![r] = Nobody] /\ req[r].pc = "stream"
        /\ IF req[r].held THEN lease' = Released(req[r].sess) /\ Touch(req[r].sess) ELSE UNCHANGED leases
        /\ UNCHANGED <<sweeper, requests, stopped, reviews>>
    BY <1>4 DEF Finish
  <2>3. ~Holds(r)' /\ (Holds(r) <=> req[r].held)
    BY <1>0, <2>2, NobodyThere DEF Holds
  <2> QED
    BY <2>2, <2>3, NobodyThere, StreamMove
<1>5. CASE Reply(r) /\ ~req[r].fresh
  <2>2. /\ req' = [req EXCEPT ![r] = Nobody] /\ req[r].pc = "handling"
        /\ lease' = Released(req[r].sess) /\ Touch(req[r].sess)
        /\ UNCHANGED <<sweeper, requests, stopped, reviews>>
    BY <1>5 DEF Reply
  <2>3. Holds(r)
    BY <2>2 DEF Holds
  <2> QED
    BY <1>5, <2>2, <2>3, NobodyThere, StreamMove
<1> QED
  BY <1>1, <1>2, <1>3, <1>4, <1>5

-----------------------------------------------------------------------------
(* The handler registers the server it built, or a session ends with the    *)
(* request. *)

(* A request leaves the handler and its session gets a place to stay.       *)
LEMMA EndMove ==
  ASSUME McpInv, NEW r \in Reqs, req[r].pc = "handling", req' = [req EXCEPT ![r] = Nobody],
         NEW place \in {"none", "fresh", "mapped"} \cup Ends,
         lease' = [Released(req[r].sess) EXCEPT ![req[r].sess].place = place],
         req[r].fresh => place \in Ends,
         ~req[r].fresh => \/ place = lease[req[r].sess].place
                          \/ lease[req[r].sess].place = "mapped" /\ place \in Ends
  PROVE  /\ RequestsOK' /\ RetainsBalance' /\ NoLeakedServer'
         /\ LeasesTyped'
         /\ \A t \in Sids : t # req[r].sess => lease'[t] = lease[t]
         /\ req[r].sess \in Sids /\ lease'[req[r].sess].place = place
<1>0. /\ req \in [Reqs -> ReqState] /\ lease \in [Sids -> LeaseState]
      /\ req[r] \in ReqState /\ ReqOK(r)
  BY DEF McpInv, LeasesTyped, RequestsOK
<1>1. req[r].sess \in Sids
  BY <1>0 DEF ReqOK
<1>2. PICK s \in Sids : s = req[r].sess
  BY <1>1
<1>3. /\ lease' \in [Sids -> LeaseState]
      /\ \A t \in Sids : t # s => lease'[t] = lease[t]
      /\ lease'[s].place = place
      /\ lease'[s].inFlight = IF lease[s].inFlight > 0 THEN lease[s].inFlight - 1 ELSE 0
  BY <1>0, <1>2, ReleaseEndOp
<1>4. req' \in [Reqs -> ReqState] /\ req'[r] = Nobody /\ \A q \in Reqs : q # r => Same(q)
  BY <1>0, NobodyThere, ReqMove
<1>5. Holds(r) /\ ~Holds(r)'
  BY <1>4, NobodyThere DEF Holds
<1>6. \A t \in Sids : BalanceKeeps(t) \/ BalanceGives(r, t)
  BY <1>2, <1>3, <1>4, <1>5, Gives
<1>7. ReqOK(r)'
  BY <1>4, NobodyThere DEF ReqOK
<1>8. Moves(r)
  BY <1>3, <1>4, <1>6, <1>7 DEF Moves, LeasesTyped
<1>9. \A t \in Sids : t # s => Leaves(t)
  BY <1>3 DEF Leaves
<1>10. \A t \in Sids : ~Founder(r, t)'
  BY <1>4, NobodyThere DEF Founder
<1>11. CASE req[r].fresh
  <2>1. Founder(r, s)
    BY <1>2, <1>11 DEF Founder
  <2>2. lease'[s].place \notin {"none", "fresh"}
    BY <1>3, <1>11 DEF Ends
  <2>3. RequestsOK' /\ RetainsBalance' /\ NoLeakedServer'
    BY <1>8, <1>9, <1>10, <2>1, <2>2, FoundedMove
  <2> QED
    BY <1>2, <1>3, <1>4, <2>3 DEF LeasesTyped
<1>12. CASE ~req[r].fresh
  <2>1. \A t \in Sids : ~Founder(r, t)
    BY <1>12 DEF Founder
  <2>2. Leaves(s)
    BY <1>2, <1>3, <1>12 DEF Leaves
  <2>3. RequestsOK' /\ RetainsBalance' /\ NoLeakedServer'
    BY <1>8, <1>9, <1>10, <2>1, <2>2, PlainMove
  <2> QED
    BY <1>2, <1>3, <1>4, <2>3 DEF LeasesTyped
<1> QED
  BY <1>11, <1>12

LEMMA FailedStep ==
  ASSUME McpInv, NEW r \in Reqs, Reply(r), req[r].fresh
  PROVE  McpInv'
<1> DEFINE s == req[r].sess
<1>0. /\ req \in [Reqs -> ReqState] /\ lease \in [Sids -> LeaseState] /\ MarksTyped /\ ReqOK(r)
  BY DEF McpInv, LeasesTyped, RequestsOK
<1>1. /\ req[r].pc = "handling" /\ req' = [req EXCEPT ![r] = Nobody]
      /\ lease' = [Released(s) EXCEPT ![s].place = "failed"] /\ Forget({s})
      /\ UNCHANGED <<sweeper, requests, stopped, reviews>>
  BY DEF Reply
<1>2. "failed" \in {"none", "fresh", "mapped"} \cup Ends /\ "failed" \in Ends
  BY DEF Ends
<1>3. /\ RequestsOK' /\ RetainsBalance' /\ NoLeakedServer' /\ LeasesTyped'
      /\ \A t \in Sids : t # s => lease'[t] = lease[t]
      /\ s \in Sids /\ lease'[s].place = "failed"
  BY <1>1, <1>2, EndMove
<1>4. Mapped' = Mapped
  <2>1. lease[s].place = "fresh"
    BY <1>0, <1>1 DEF ReqOK
  <2> QED
    BY <1>3, <2>1 DEF Mapped
<1>5. MarksTyped'
  BY <1>0, <1>1, ForgetOp DEF MarksTyped
<1>6. SweeperWatches'
  BY <1>1, <1>4 DEF McpInv, SweeperWatches
<1>7. RegistryOK'
  <2>1. EndsStay
    BY <1>2, <1>3 DEF EndsStay
  <2> QED
    BY <1>1, <1>4, <2>1, RegistryStays DEF McpInv
<1> QED
  BY <1>3, <1>5, <1>6, <1>7 DEF McpInv

LEMMA DeleteStep ==
  ASSUME McpInv, NEW r \in Reqs, Delete(r)
  PROVE  McpInv'
<1> DEFINE s == req[r].sess
           place == IF req[r].fresh THEN "failed" ELSE IF lease[s].place = "mapped" THEN "closed" ELSE lease[s].place
<1>0. /\ req \in [Reqs -> ReqState] /\ lease \in [Sids -> LeaseState] /\ MarksTyped /\ ReqOK(r)
  BY DEF McpInv, LeasesTyped, RequestsOK
<1>1. /\ req[r].pc = "handling" /\ req' = [req EXCEPT ![r] = Nobody] /\ Forget({s})
      /\ registry' = Pruned({s})
      /\ sweeper' = (sweeper /\ (req[r].fresh \/ Mapped \ {s} # {}))
      /\ UNCHANGED <<requests, stopped, verdict, completing, elicited, history>>
  BY DEF Delete
<1>2. s \in Sids /\ lease[s] \in LeaseState
  BY <1>0, <1>1 DEF ReqOK
<1>3. place \in {"none", "fresh", "mapped"} \cup Ends
  BY <1>2 DEF LeaseState, Ends
<1>4. lease' = [Released(s) EXCEPT ![s].place = place]
  <2>1. Released(s)[s].place = lease[s].place
    <3>1. Released(s)[s] = [lease[s] EXCEPT !.inFlight = IF @ > 0 THEN @ - 1 ELSE 0]
      BY <1>0, <1>2 DEF Released
    <3> QED
      BY <1>2, <3>1 DEF LeaseState
  <2> QED
    BY <1>2, <2>1 DEF Delete
<1>5. /\ req[r].fresh => place \in Ends
      /\ ~req[r].fresh => \/ place = lease[s].place
                          \/ lease[s].place = "mapped" /\ place \in Ends
      /\ place # "mapped" /\ place \in Ends
  BY <1>0, <1>1, <1>2 DEF Ends, ReqOK, LeaseState
<1> HIDE DEF place
<1>6. /\ RequestsOK' /\ RetainsBalance' /\ NoLeakedServer' /\ LeasesTyped'
      /\ \A t \in Sids : t # s => lease'[t] = lease[t]
      /\ lease'[s].place = place
  BY <1>1, <1>3, <1>4, <1>5, EndMove
<1>7. Mapped' = Mapped \ {s}
  BY <1>2, <1>5, <1>6 DEF Mapped
<1>8. MarksTyped'
  <2>1. sweeper' \in BOOLEAN /\ requests' \in Nat /\ stopped' \in BOOLEAN
    BY <1>0, <1>1 DEF MarksTyped
  <2>2. seen' \subseteq Sids \X Sids /\ expired' \subseteq Sids
    BY <1>0, <1>1, ForgetOp DEF MarksTyped
  <2> QED
    BY <2>1, <2>2 DEF MarksTyped
<1>9. SweeperWatches'
  BY <1>1, <1>7 DEF McpInv, SweeperWatches
<1>10. RegistryOK'
  <2>1. EndsStay /\ \A t \in {s} \cap Sids : lease'[t].place \in Ends
    BY <1>5, <1>6 DEF EndsStay
  <2> QED
    BY <1>1, <1>7, <2>1, RegistryPruned DEF McpInv
<1> QED
  BY <1>6, <1>8, <1>9, <1>10 DEF McpInv

(* What Initialize does to the leases.                                      *)
LEMMA InitializeOp ==
  ASSUME McpInv, NEW r \in Reqs, NEW V \in SUBSET Sids, Initialize(r, V)
  PROVE  /\ req[r].sess \in Sids /\ lease[req[r].sess].place = "fresh"
         /\ V \subseteq Mapped /\ req[r].sess \notin V
         /\ lease' \in [Sids -> LeaseState]
         /\ \A t \in Sids : lease'[t].inFlight = lease[t].inFlight
         /\ lease'[req[r].sess].place = "mapped"
         /\ \A t \in V : lease'[t].place = "capacity"
         /\ \A t \in Sids : t \notin V /\ t # req[r].sess => lease'[t] = lease[t]
<1> DEFINE s == req[r].sess
           G == Gone(lease, V, "capacity")
           k == [G[s] EXCEPT !.place = "mapped"]
<1>0. lease \in [Sids -> LeaseState] /\ ReqOK(r)
  BY DEF McpInv, LeasesTyped, RequestsOK
<1>1. req[r].pc = "handling" /\ req[r].fresh /\ V \subseteq Idle /\ lease' = [G EXCEPT ![s].place = "mapped"]
  BY DEF Initialize, Overflow
<1>2. s \in Sids /\ lease[s].place = "fresh"
  BY <1>0, <1>1 DEF ReqOK
<1>3. V \subseteq Mapped /\ s \notin V
  BY <1>1, <1>2 DEF Idle, Mapped
<1>4. /\ G \in [Sids -> LeaseState]
      /\ \A t \in Sids : G[t].inFlight = lease[t].inFlight
      /\ \A t \in Sids \ V : G[t] = lease[t]
      /\ \A t \in Sids \cap V : G[t].place = "capacity"
  BY <1>0, GoneOp DEF Ends
<1> HIDE DEF G
<1>5. k \in LeaseState /\ k.place = "mapped" /\ k.inFlight = lease[s].inFlight
  <2>1. G[s] \in LeaseState
    BY <1>2, <1>4
  <2> QED
    BY <1>2, <1>4, <2>1 DEF LeaseState
<1>6. lease' = [G EXCEPT ![s] = k]
  BY <1>1
<1> HIDE DEF k
<1>7. \A t \in V : t \in Sids /\ t # s
  BY <1>3
<1> HIDE DEF s
<1>8. /\ lease' \in [Sids -> LeaseState]
      /\ \A t \in Sids : lease'[t].inFlight = lease[t].inFlight
      /\ lease'[s].place = "mapped"
      /\ \A t \in V : lease'[t].place = "capacity"
      /\ \A t \in Sids : t \notin V /\ t # s => lease'[t] = lease[t]
  BY <1>2, <1>4, <1>5, <1>6, <1>7
<1> QED
  BY <1>2, <1>3, <1>8 DEF s

LEMMA InitializeStep ==
  ASSUME McpInv, NEW r \in Reqs, NEW V \in SUBSET Sids, Initialize(r, V)
  PROVE  McpInv'
<1> DEFINE k == [req[r] EXCEPT !.pc = "stream", !.stage = "done", !.held = TRUE]
<1>0. /\ req \in [Reqs -> ReqState] /\ lease \in [Sids -> LeaseState] /\ MarksTyped
      /\ req[r] \in ReqState /\ ReqOK(r)
  BY DEF McpInv, LeasesTyped, RequestsOK
<1>1. PICK s \in Sids : s = req[r].sess
  BY InitializeOp
<1>2. /\ lease[s].place = "fresh" /\ V \subseteq Mapped /\ s \notin V
      /\ lease' \in [Sids -> LeaseState]
      /\ \A t \in Sids : lease'[t].inFlight = lease[t].inFlight
      /\ lease'[s].place = "mapped"
      /\ \A t \in V : lease'[t].place = "capacity"
      /\ \A t \in Sids : t \notin V /\ t # s => lease'[t] = lease[t]
  BY <1>1, InitializeOp
<1>3. /\ req[r].pc = "handling" /\ req[r].fresh /\ registry' = Pruned(V) /\ Forget(V)
      /\ sweeper' = TRUE /\ UNCHANGED <<requests, stopped, verdict, completing, elicited, history>>
      /\ req' = [req EXCEPT ![r] = k]
  BY <1>0 DEF Initialize, Streams
<1>4. k \in ReqState /\ k.pc = "stream" /\ k.sess = s /\ k.held
  BY <1>0, <1>1 DEF ReqState
<1> HIDE DEF k
<1>5. req' \in [Reqs -> ReqState] /\ req'[r] = k /\ \A q \in Reqs : q # r => Same(q)
  BY <1>0, <1>3, <1>4, ReqMove
<1>6. \A t \in Sids : BalanceKeeps(t)
  BY <1>1, <1>2, <1>3, <1>4, <1>5, Keeps DEF Holds
<1>7. Moves(r)
  BY <1>2, <1>4, <1>5, <1>6 DEF Moves, LeasesTyped, ReqOK
<1>8. Founder(r, s) /\ \A t \in Sids : ~Founder(r, t)'
  BY <1>1, <1>3, <1>4, <1>5 DEF Founder
<1>9. \A t \in Sids : t # s => Leaves(t)
  BY <1>2 DEF Leaves, Mapped, Ends
<1>10. RequestsOK' /\ RetainsBalance' /\ NoLeakedServer'
  BY <1>2, <1>7, <1>8, <1>9, FoundedMove
<1>11. Mapped \ V \subseteq Mapped'
  BY <1>2 DEF Mapped
<1>12. LeasesTyped' /\ MarksTyped' /\ SweeperWatches'
  BY <1>0, <1>2, <1>3, <1>5, ForgetOp DEF LeasesTyped, MarksTyped, SweeperWatches
<1>13. RegistryOK'
  <2>1. EndsStay /\ \A t \in V \cap Sids : lease'[t].place \in Ends
    BY <1>2 DEF EndsStay, Ends
  <2> QED
    BY <1>3, <1>11, <2>1, RegistryPruned DEF McpInv
<1> QED
  BY <1>10, <1>12, <1>13 DEF McpInv

-----------------------------------------------------------------------------
(* The books hold in every state. *)

LEMMA McpInitially == Init => McpInv
<1> SUFFICES ASSUME Init PROVE McpInv
  OBVIOUS
<1>1. LeasesTyped /\ MarksTyped
  BY NobodyThere DEF Init, LeasesTyped, MarksTyped, LeaseState
<1>2. RequestsOK
  BY NobodyThere DEF Init, RequestsOK, ReqOK, FoundedOnce, Founder
<1>3. RetainsBalance
  <2>1. \A s \in Sids : Holders(s) = {}
    BY NobodyThere DEF Init, Holders
  <2> QED
    BY <2>1, FS_EmptySet DEF Init, RetainsBalance
<1>4. NoLeakedServer /\ SweeperWatches
  BY DEF Init, NoLeakedServer, SweeperWatches, Mapped
<1>5. RegistryOK
  <2>1. DOMAIN registry = {}
    BY DEF Init
  <2>2. Cardinality(DOMAIN registry) <= MaxPending
    BY <2>1, FS_EmptySet, McpAssumption
  <2>3. registry \in [DOMAIN registry -> Entry]
    BY <2>1 DEF Init
  <2>4. Accounted
    BY <2>1 DEF Init, Accounted
  <2> QED
    BY <2>1, <2>2, <2>3, <2>4 DEF Init, RegistryOK, RegistryTyped, RegistryServesLive, EntriesAwait, Verdicts
<1> QED
  BY <1>1, <1>2, <1>3, <1>4, <1>5 DEF McpInv

LEMMA McpStep ==
  ASSUME McpInv, [Next]_vars
  PROVE  McpInv'
<1>1. ASSUME NEW r \in Reqs, Receive(r) PROVE McpInv'
  BY <1>1, RefuseStep, EnterStep, BuildStep, ConnectedStep DEF Receive
<1>2. ASSUME NEW r \in Reqs, Handle(r) PROVE McpInv'
  <2>1. ASSUME Reply(r) PROVE McpInv'
    <3>1. CASE req[r].fresh
      BY <2>1, <3>1, FailedStep
    <3>2. CASE ~req[r].fresh
      BY <2>1, <3>2, StreamStep
    <3> QED
      BY <3>1, <3>2
  <2> QED
    BY <1>2, <2>1, InitializeStep, StreamStep, DeleteStep DEF Handle
<1>3. ASSUME NEW r \in Reqs, Grace(r) \/ Pull(r) \/ BodyEnds(r) \/ Cancel(r) PROVE McpInv'
  BY <1>3, StreamStep DEF BodyEnds, Cancel
<1>4. CASE UNCHANGED vars
  <2>1. UNCHANGED <<leases, sweeper, req, requests, stopped, reviews>>
    BY <1>4 DEF vars
  <2>2. req' \in [Reqs -> ReqState] /\ (\A q \in Reqs : Same(q)) /\ Mapped' = Mapped /\ EndsStay
    BY <2>1 DEF McpInv, LeasesTyped, Same, Mapped, leases, EndsStay
  <2>3. RegistryOK'
    BY <2>1, <2>2, RegistryStays DEF McpInv
  <2> QED
    BY <2>1, <2>2, <2>3, QuietReview
<1> QED
  BY <1>1, <1>2, <1>3, <1>4, ArriveStep, ReviewStep, DecisionStep, ManagerStep DEF Next

LEMMA McpAlways == Spec => []McpInv
BY McpInitially, McpStep, PTL DEF Spec

(* Whatever order requests arrive, connect, initialize, stream, hang up and *)
(* are swept in, the books of the session manager balance: inFlight counts  *)
(* the requests and bodies that still owe a release, a session of the map   *)
(* has an armed sweeper, a server that never completed initialize belongs   *)
(* to a request that will close it, and the registry of URL reviews keeps   *)
(* its limit and holds entries of sessions in the map only.                 *)
THEOREM SessionsHold == Spec => []SessionInv
<1>1. McpInv => SessionInv
  BY DEF McpInv, SessionInv, TypeOK, LeasesTyped, MarksTyped, RegistryOK, RegistryTyped, Accounted
<1> QED
  BY <1>1, McpAlways, PTL

(* Who hears of a decision: once it is made over REST and complete() has    *)
(* returned, every client that had opened the review page was told, unless  *)
(* its session has ended or MaxPending later reviews pushed its entry out   *)
(* of the registry.                                                         *)
THEOREM ReviewsAnnounced == Spec => []DecisionAnnounced
<1>1. ASSUME McpInv PROVE DecisionAnnounced
  <2>1. RegistryTyped /\ EntriesAwait /\ Accounted
    BY <1>1 DEF McpInv, RegistryOK
  <2>2. ASSUME NEW i \in DOMAIN opened, verdict[opened[i].prop] = "rest",
               opened[i].prop \notin completing, ~opened[i].late, i \notin told \cup evicted
        PROVE  opened[i].sess \notin Mapped
    <3>1. i \in 1..elicited
      BY <2>1 DEF Accounted
    <3>2. i \notin DOMAIN registry
      BY <2>1, <2>2 DEF Accounted, EntriesAwait
    <3>3. lease[opened[i].sess].place \in Ends
      BY <2>1, <2>2, <3>1, <3>2 DEF Accounted
    <3> QED
      BY <3>3 DEF Mapped, Ends
  <2> QED
    BY <2>1, <2>2 DEF DecisionAnnounced, Accounted
<1> QED
  BY <1>1, McpAlways, PTL

-----------------------------------------------------------------------------
(* Who is ended, and when the cap is exceeded. *)

(* No step but the sweep and initialize puts a session into the map, or     *)
(* ends one for its age or for room.                                        *)
Drifts(s) ==
  \/ lease'[s].place = lease[s].place
  \/ lease'[s].place \notin {"mapped", "idle_ttl", "capacity"}

LEMMA OnlySweepAndCap ==
  ASSUME McpInv, [Next]_vars, ~Tick, \A r \in Reqs, V \in SUBSET Sids : ~Initialize(r, V)
  PROVE  \A s \in Sids : Drifts(s)
<1>0. lease \in [Sids -> LeaseState] /\ RequestsOK
  BY DEF McpInv, LeasesTyped
<1>1. CASE lease' = lease
  BY <1>1 DEF Drifts
<1>2. ASSUME NEW s \in Sids, lease' = Retained(s) \/ lease' = Released(s) PROVE \A t \in Sids : Drifts(t)
  BY <1>0, <1>2, RetainOp, ReleaseOp DEF Drifts
<1>3. ASSUME NEW r \in Reqs, Receive(r) PROVE \A t \in Sids : Drifts(t)
  <2>1. CASE Refuse(r)
    BY <1>1, <2>1 DEF Refuse, leases
  <2>2. CASE Enter(r)
    BY <1>2, <2>2 DEF Enter, Mapped
  <2>3. ASSUME NEW s \in Sids, Build(r, s) PROVE \A t \in Sids : Drifts(t)
    <3>1. lease' = [lease EXCEPT ![s] = [lease[s] EXCEPT !.place = "fresh"]]
      BY <2>3 DEF Build
    <3>2. [lease[s] EXCEPT !.place = "fresh"].place = "fresh"
      BY <1>0 DEF LeaseState
    <3>3. lease'[s].place = "fresh" /\ \A t \in Sids : t # s => lease'[t] = lease[t]
      BY <1>0, <3>1, <3>2
    <3> QED
      BY <3>3 DEF Drifts
  <2>4. CASE Connected(r)
    <3>1. req[r].sess \in Sids /\ lease' = Retained(req[r].sess)
      BY <1>0, <2>4 DEF Connected, RequestsOK, ReqOK
    <3> QED
      BY <1>2, <3>1
  <2> QED
    BY <1>3, <2>1, <2>2, <2>3, <2>4 DEF Receive
<1>4. ASSUME NEW r \in Reqs, Handle(r) PROVE \A t \in Sids : Drifts(t)
  <2>0. req[r].pc = "handling" => req[r].sess \in Sids
    BY <1>0 DEF RequestsOK, ReqOK
  <2>1. CASE OpenStream(r)
    BY <1>1, <2>1 DEF OpenStream, leases
  <2>2. CASE Reply(r) /\ ~req[r].fresh
    BY <1>2, <2>0, <2>2 DEF Reply
  <2>3. CASE Reply(r) /\ req[r].fresh
    <3>1. req[r].sess \in Sids /\ lease' = [Released(req[r].sess) EXCEPT ![req[r].sess].place = "failed"]
      BY <2>0, <2>3 DEF Reply
    <3>2. /\ lease'[req[r].sess].place = "failed"
          /\ \A t \in Sids : t # req[r].sess => lease'[t] = lease[t]
      BY <1>0, <3>1, ReleaseEndOp DEF Ends
    <3> QED
      BY <3>2 DEF Drifts
  <2>4. CASE Delete(r)
    <3> DEFINE s == req[r].sess
               place == IF req[r].fresh THEN "failed"
                        ELSE IF lease[s].place = "mapped" THEN "closed" ELSE lease[s].place
    <3>1. s \in Sids /\ lease[s] \in LeaseState
      BY <1>0, <2>0, <2>4 DEF Delete
    <3>2. Released(s)[s].place = lease[s].place
      <4>1. Released(s)[s] = [lease[s] EXCEPT !.inFlight = IF @ > 0 THEN @ - 1 ELSE 0]
        BY <1>0, <3>1 DEF Released
      <4> QED
        BY <3>1, <4>1 DEF LeaseState
    <3>3. lease' = [Released(s) EXCEPT ![s].place = place]
      BY <2>4, <3>1, <3>2 DEF Delete
    <3>4. place \in {"none", "fresh", "mapped"} \cup Ends
      BY <3>1 DEF LeaseState, Ends
    <3>5. place = lease[s].place \/ place \in {"failed", "closed"}
      OBVIOUS
    <3> HIDE DEF place, s
    <3>6. lease'[s].place = place /\ \A t \in Sids : t # s => lease'[t] = lease[t]
      BY <1>0, <3>1, <3>3, <3>4, ReleaseEndOp
    <3> QED
      BY <3>5, <3>6 DEF Drifts
  <2> QED
    BY <1>4, <2>1, <2>2, <2>3, <2>4 DEF Handle
<1>5. ASSUME NEW r \in Reqs, Grace(r) \/ Pull(r) \/ BodyEnds(r) \/ Cancel(r) PROVE \A t \in Sids : Drifts(t)
  <2>0. req[r].pc = "stream" => req[r].sess \in Sids
    BY <1>0 DEF RequestsOK, ReqOK
  <2>1. CASE Grace(r)
    BY <1>2, <2>0, <2>1 DEF Grace
  <2>2. CASE Pull(r)
    BY <1>1, <1>2, <2>0, <2>2 DEF Pull, leases
  <2>3. CASE Finish(r)
    BY <1>1, <1>2, <2>0, <2>3 DEF Finish, leases
  <2> QED
    BY <1>5, <2>1, <2>2, <2>3 DEF BodyEnds, Cancel
<1>6. CASE Stop
  <2>1. lease' = Gone(lease, Mapped, "shutdown")
    BY <1>6 DEF Stop
  <2>2. /\ \A t \in Sids \ Mapped : lease'[t] = lease[t]
        /\ \A t \in Sids \cap Mapped : lease'[t].place = "shutdown"
    BY <1>0, <2>1, GoneOp DEF Ends
  <2> QED
    BY <2>2 DEF Drifts
<1>7. ASSUME NEW r \in Reqs, Review(r) PROVE \A t \in Sids : Drifts(t)
  BY <1>1, <1>7 DEF Review, ReadProposal, AskAgain, FastCancel, FormDecides, UrlAccepted, Abandon, leases
<1>8. CASE UNCHANGED vars
  BY <1>1, <1>8 DEF vars, leases
<1>9. ASSUME NEW p \in Proposals,
             \/ RestDecides(p) \/ RestEndsSilently(p) \/ Completed(p)
             \/ \E i \in DOMAIN registry : Notify(p, i)
      PROVE  \A t \in Sids : Drifts(t)
  BY <1>1, <1>9 DEF RestDecides, RestEndsSilently, Completed, Notify, leases
<1>10. ASSUME NEW s \in Sids, Age(s) PROVE \A t \in Sids : Drifts(t)
  BY <1>1, <1>10 DEF Age
<1>11. ASSUME NEW r \in Reqs, NEW kind \in Kinds, NEW s \in Sids \cup {NoSession}, NEW p \in Proposals,
              Arrive(r, kind, s, p)
       PROVE  \A t \in Sids : Drifts(t)
  BY <1>1, <1>11 DEF Arrive, leases
<1> QED
  BY <1>3, <1>4, <1>5, <1>6, <1>7, <1>8, <1>9, <1>10, <1>11 DEF Next

(* A session with no retains serves nobody.                                 *)
LEMMA IdleIsQuiet ==
  ASSUME McpInv, NEW s \in Idle
  PROVE  ~Working(s)
<1>1. s \in Sids /\ lease[s].inFlight = 0
  BY DEF Idle, Mapped
<1>2. Cardinality(Holders(s)) = 0 /\ IsFiniteSet(Holders(s))
  BY <1>1, HoldersCount DEF McpInv, RetainsBalance
<1>3. Holders(s) = {}
  BY <1>2, FS_EmptySet
<1>4. ASSUME NEW r \in Reqs, LiveStream(r, s) PROVE r \in Holders(s)
  BY <1>4 DEF LiveStream, McpInv, RequestsOK, ReqOK, Holders
<1>5. ASSUME NEW r \in Reqs, req[r].sess = s, req[r].pc = "handling" PROVE r \in Holders(s)
  BY <1>5 DEF Holders
<1> QED
  BY <1>3, <1>4, <1>5 DEF Working

LEMMA MappedFinite == IsFiniteSet(Mapped) /\ Cardinality(Mapped) \in Nat
<1>1. Mapped \in SUBSET Sids
  BY DEF Mapped
<1>2. IsFiniteSet(Mapped)
  BY <1>1, McpAssumption, FS_Subset
<1> QED
  BY <1>2, FS_CardinalityType

(* After evictOverflow there is room for one more, or nobody idle is left.  *)
LEMMA RoomOrBusy ==
  ASSUME McpInv, NEW r \in Reqs, NEW V \in SUBSET Sids, Initialize(r, V)
  PROVE  Cardinality(Mapped') <= MaxSessions \/ V = Idle
<1> DEFINE n == Cardinality(Mapped)
           excess == n - MaxSessions + 1
<1>1. PICK s \in Sids : s = req[r].sess
  BY InitializeOp
<1>2. /\ lease[s].place = "fresh" /\ V \subseteq Mapped /\ s \notin V
      /\ lease'[s].place = "mapped"
      /\ \A t \in V : lease'[t].place = "capacity"
      /\ \A t \in Sids : t \notin V /\ t # s => lease'[t] = lease[t]
  BY <1>1, InitializeOp
<1>3. Mapped' = (Mapped \ V) \cup {s} /\ s \notin Mapped \ V
  BY <1>2 DEF Mapped
<1>4. IsFiniteSet(Mapped) /\ n \in Nat /\ MaxSessions \in Nat
  BY MappedFinite, McpAssumption
<1>5. IsFiniteSet(Mapped \ V) /\ Cardinality(Mapped \ V) = n - Cardinality(V) /\ IsFiniteSet(V)
  <2>1. IsFiniteSet(Mapped \ V) /\ Cardinality(Mapped \ V) = n - Cardinality(Mapped \cap V)
    BY <1>4, FS_Difference
  <2>2. Mapped \cap V = V
    BY <1>2
  <2>3. IsFiniteSet(V)
    BY <1>2, <1>4, FS_Subset
  <2> QED
    BY <2>1, <2>2, <2>3
<1>6. Cardinality(V) \in Nat /\ Cardinality(Mapped \ V) \in Nat
  BY <1>5, FS_CardinalityType
<1>7. Cardinality(Mapped') = Cardinality(Mapped \ V) + 1
  BY <1>3, <1>5, FS_AddElement
<1>8. \/ excess <= 0
      \/ Cardinality(V) = excess
      \/ V = Idle
  BY DEF Initialize, Overflow
<1> HIDE DEF n
<1> QED
  BY <1>4, <1>5, <1>6, <1>7, <1>8

(* One step of the two promises about victims.                              *)
LEMMA VictimsStep ==
  ASSUME McpInv, [Next]_vars
  PROVE  /\ \A s \in Mapped : lease'[s].place \in {"idle_ttl", "capacity"} => ~Working(s)
         /\ \A s \in Sids :
              (lease[s].place = "fresh" /\ s \in Mapped' /\ Cardinality(Mapped') > MaxSessions)
                => \A t \in Mapped' \ {s} : lease[t].inFlight > 0
<1>0. lease \in [Sids -> LeaseState]
  BY DEF McpInv, LeasesTyped
<1>1. CASE Tick
  <2>1. lease' = Gone(lease, Swept, "idle_ttl")
    BY <1>1 DEF Tick
  <2>2. /\ \A t \in Sids \ Swept : lease'[t] = lease[t]
        /\ \A t \in Sids \cap Swept : lease'[t].place = "idle_ttl"
    BY <1>0, <2>1, GoneOp DEF Ends
  <2>3. ASSUME NEW s \in Mapped, lease'[s].place \in {"idle_ttl", "capacity"} PROVE ~Working(s)
    <3>1. s \in Swept
      BY <2>2, <2>3 DEF Mapped
    <3> QED
      BY <3>1, IdleIsQuiet DEF Swept
  <2>4. ASSUME NEW s \in Sids, lease[s].place = "fresh" PROVE s \notin Mapped'
    BY <2>2, <2>4 DEF Mapped
  <2> QED
    BY <2>3, <2>4
<1>2. ASSUME NEW r \in Reqs, NEW V \in SUBSET Sids, Initialize(r, V)
      PROVE  /\ \A s \in Mapped : lease'[s].place \in {"idle_ttl", "capacity"} => ~Working(s)
             /\ \A s \in Sids :
                  (lease[s].place = "fresh" /\ s \in Mapped' /\ Cardinality(Mapped') > MaxSessions)
                    => \A t \in Mapped' \ {s} : lease[t].inFlight > 0
  <2>1. PICK f \in Sids : f = req[r].sess
    BY <1>2, InitializeOp
  <2>2. /\ lease[f].place = "fresh" /\ V \subseteq Mapped /\ f \notin V
        /\ lease'[f].place = "mapped"
        /\ \A t \in V : lease'[t].place = "capacity"
        /\ \A t \in Sids : t \notin V /\ t # f => lease'[t] = lease[t]
    BY <1>2, <2>1, InitializeOp
  <2>3. V \subseteq Idle
    BY <1>2 DEF Initialize, Overflow
  <2>4. ASSUME NEW s \in Mapped, lease'[s].place \in {"idle_ttl", "capacity"} PROVE ~Working(s)
    <3>1. s \in V
      BY <2>2, <2>4 DEF Mapped
    <3> QED
      BY <2>3, <3>1, IdleIsQuiet
  <2>5. ASSUME NEW s \in Sids, lease[s].place = "fresh", s \in Mapped', Cardinality(Mapped') > MaxSessions,
               NEW t \in Mapped' \ {s}
        PROVE  lease[t].inFlight > 0
    <3>1. s = f
      BY <2>2, <2>5 DEF Mapped
    <3>2. t \in Mapped /\ t \notin V
      BY <2>2, <2>5, <3>1 DEF Mapped
    <3>3. V = Idle
      <4>1. Cardinality(Mapped') <= MaxSessions \/ V = Idle
        BY <1>2, RoomOrBusy
      <4>2. Cardinality(Mapped') \in Nat /\ MaxSessions \in Nat
        <5>1. Mapped' \in SUBSET Sids
          BY DEF Mapped
        <5>2. IsFiniteSet(Mapped')
          BY <5>1, McpAssumption, FS_Subset
        <5> QED
          BY <5>2, FS_CardinalityType, McpAssumption
      <4> QED
        BY <2>5, <4>1, <4>2
    <3>4. lease[t].inFlight \in Nat /\ lease[t].inFlight # 0
      BY <1>0, <3>2, <3>3 DEF Idle, Mapped, LeaseState
    <3> QED
      BY <3>4
  <2> QED
    BY <2>4, <2>5
<1>3. CASE ~Tick /\ \A r \in Reqs, V \in SUBSET Sids : ~Initialize(r, V)
  <2>1. \A s \in Sids : Drifts(s)
    BY <1>3, OnlySweepAndCap
  <2>2. \A s \in Mapped : lease'[s].place \notin {"idle_ttl", "capacity"}
    BY <2>1 DEF Drifts, Mapped
  <2>3. \A s \in Sids : lease[s].place = "fresh" => s \notin Mapped'
    BY <2>1 DEF Drifts, Mapped
  <2> QED
    BY <2>2, <2>3
<1> QED
  BY <1>1, <1>2, <1>3

(* The sweep and the cap never end a session that serves a request or a     *)
(* stream someone reads, and the cap is exceeded only by a newcomer that    *)
(* found every session of the map busy.                                     *)
THEOREM VictimsIdle == Spec => VictimsAreIdle
<1>1. McpInv /\ [Next]_vars =>
        [\A s \in Mapped : lease'[s].place \in {"idle_ttl", "capacity"} => ~Working(s)]_vars
  BY VictimsStep
<1>2. McpInv /\ [Next]_vars =>
        [\A s \in Sids :
           (lease[s].place = "fresh" /\ s \in Mapped' /\ Cardinality(Mapped') > MaxSessions)
             => \A t \in Mapped' \ {s} : lease[t].inFlight > 0]_vars
  BY VictimsStep
<1> QED
  BY <1>1, <1>2, McpAlways, PTL DEF Spec, VictimsAreIdle, NeverSevered, OverCapOnlyWhenBusy
=============================================================================
