---------------------------- MODULE McpSessions ----------------------------
(***************************************************************************)
(* The MCP mount (src/src/mcp): session leases with an idle sweeper, a cap *)
(* and a retain counter (session-manager.ts), the request handler that     *)
(* creates and uses them (server.ts), the review tool that asks a human    *)
(* through the client (tools.ts, elicitation.ts), and the registry of URL  *)
(* reviews that a decision over REST completes (elicitation-registry.ts).  *)
(*                                                                         *)
(* One process; requests interleave at their awaits, and a server-sent     *)
(* event stream outlives the handler that opened it.  Clocks are abstract: *)
(* a lease nobody touches expires at any time, in the order of lastSeenAt. *)
(***************************************************************************)
EXTENDS Integers, FiniteSets

CONSTANTS
  Sids,         \* session ids, each given out once: numbers
  Reqs,         \* requests in flight at a time: numbers
  Proposals,    \* proposals under review
  MaxSessions,  \* config.mcpMaxSessions
  MaxPending,   \* MAX_PENDING_ELICITATIONS
  MaxRequests,  \* bound: requests made
  NoSession     \* a request without a session

ASSUME McpAssumption ==
  /\ NoSession \notin Sids
  /\ Sids \subseteq Nat
  /\ Reqs \subseteq Nat
  /\ IsFiniteSet(Reqs)
  /\ IsFiniteSet(Sids)
  /\ Proposals /= {}
  /\ MaxSessions \in Nat \ {0}
  /\ MaxPending \in Nat \ {0}
  /\ MaxRequests \in Nat

VARIABLES
  lease,       \* lease[s]: where the session is and its inFlight
  seen,        \* the order of lastSeenAt: pairs of an older and a newer session
  expired,     \* the sessions not touched within the TTL
  sweeper,     \* the sweep interval is armed
  req,         \* req[r]: a request, then the stream it was answered with
  requests,    \* requests made so far
  stopped,     \* stop() was called
  verdict,     \* verdict[p]: "pending", or how the review ended
  completing,  \* proposals decided over REST whose complete() has not returned
  registry,    \* the pending URL elicitations, by their number
  elicited,    \* elicitations registered so far
  opened,      \* history: every elicitation as it was registered, by number
  told,        \* history: the elicitations complete() has notified
  evicted      \* history: the elicitations register() made room with

leases == <<lease, seen, expired>>
history == <<opened, told, evicted>>
urls == <<registry, elicited, history>>
reviews == <<verdict, completing, urls>>
vars == <<leases, sweeper, req, requests, stopped, reviews>>

-----------------------------------------------------------------------------
(* State *)

(* place: "fresh" before initialize completes, "mapped" while the manager  *)
(* holds it, then how it ended.  The server is open while fresh or mapped. *)
Ends == {"failed", "closed", "idle_ttl", "capacity", "shutdown"}
LeaseState == [place : {"none", "fresh", "mapped"} \cup Ends, inFlight : Nat]

(* pc: "auth" and "connect" are awaits of the handler, "handling" is       *)
(* handleRequest, "stream" is the body it answered with.                   *)
(* stage of a stream: "start", "form" and "url" are a review tool call     *)
(* reading the proposal and waiting for the human, "open" is a             *)
(* notification stream, "done" has nothing left to send.                   *)
(* started, held: trackStreamLifetime's flags.                             *)
ReqState ==
  [pc : {"idle", "auth", "connect", "handling", "stream"},
   kind : {"init", "call", "note", "get", "delete"},
   sess : Sids \cup {NoSession}, fresh : BOOLEAN,
   stage : {"start", "form", "url", "open", "done"}, prop : Proposals, asks : 0..1,
   started : BOOLEAN, held : BOOLEAN]

(* late: registered when complete() of its proposal had returned already.  *)
Entry == [prop : Proposals, sess : Sids, late : BOOLEAN]

(* "rest" is a decision over REST that calls complete(), "silent" an end   *)
(* over REST that does not, "mcp" a decision in a form.                    *)
Verdicts == {"pending", "rest", "silent", "mcp"}

Nobody ==
  [pc |-> "idle", kind |-> "note", sess |-> NoSession, fresh |-> FALSE, stage |-> "done",
   prop |-> CHOOSE p \in Proposals : TRUE, asks |-> 0, started |-> FALSE, held |-> FALSE]

Init ==
  /\ lease = [s \in Sids |-> [place |-> "none", inFlight |-> 0]]
  /\ seen = {}
  /\ expired = {}
  /\ sweeper = FALSE
  /\ req = [r \in Reqs |-> Nobody]
  /\ requests = 0
  /\ stopped = FALSE
  /\ verdict = [p \in Proposals |-> "pending"]
  /\ completing = {}
  /\ registry = [i \in {} |-> Nobody]
  /\ elicited = 0
  /\ opened = [i \in {} |-> Nobody]
  /\ told = {}
  /\ evicted = {}

Mapped == {s \in Sids : lease[s].place = "mapped"}
Open(s) == lease[s].place \in {"fresh", "mapped"}
Idle == {s \in Mapped : lease[s].inFlight = 0}

(* lastSeenAt of s is before that of t. *)
Older(s, t) == <<s, t>> \in seen

-----------------------------------------------------------------------------
(* The session manager *)

(* lastSeenAt = now(); that of a lease that ended is of no further use. *)
SeenBut(V) == {x \in seen : x[1] \notin V /\ x[2] \notin V}

Forget(V) ==
  /\ seen' = SeenBut(V)
  /\ expired' = expired \ V

Touch(s) ==
  IF Open(s)
  THEN /\ seen' = SeenBut({s}) \cup {<<t, s>> : t \in {u \in Sids \ {s} : Open(u)}}
       /\ expired' = expired \ {s}
  ELSE UNCHANGED <<seen, expired>>

Retained(s) == [lease EXCEPT ![s].inFlight = @ + 1]
Released(s) == [lease EXCEPT ![s].inFlight = IF @ > 0 THEN @ - 1 ELSE 0]

Gone(from, V, reason) ==
  [s \in Sids |-> IF s \in V THEN [from[s] EXCEPT !.place = reason] ELSE from[s]]

(* The elicitations of I are left in the registry. *)
Only(I) == [i \in I |-> registry[i]]

(* pruneSession *)
Pruned(V) == Only({i \in DOMAIN registry : registry[i].sess \notin V})

(* The TTL of the sessions seen first runs out first. *)
Age(s) ==
  /\ s \in Mapped \ expired
  /\ \A t \in Mapped : Older(t, s) => t \in expired
  /\ expired' = expired \cup {s}
  /\ UNCHANGED <<lease, seen, sweeper, req, requests, stopped, reviews>>

(* Mutant of Swept: the in-flight counter is not looked at. *)
SweptBusy == Mapped \cap expired

(* tick *)
Swept == Idle \cap expired

Tick ==
  /\ sweeper
  /\ lease' = Gone(lease, Swept, "idle_ttl")
  /\ registry' = Pruned(Swept)
  /\ Forget(Swept)
  /\ sweeper' = (Mapped \ Swept /= {})
  /\ UNCHANGED <<req, requests, stopped, verdict, completing, elicited, history>>

(* evictOverflow: the oldest idle sessions go until there is room for one  *)
(* more; when every session left is busy the newcomer is admitted anyway.  *)
Overflow(V) ==
  LET excess == Cardinality(Mapped) - MaxSessions + 1
  IN /\ V \subseteq Idle
     /\ \A s \in V, t \in Idle \ V : Older(s, t)
     /\ \/ excess <= 0 /\ V = {}
        \/ excess > 0 /\ Cardinality(V) = excess
        \/ excess > Cardinality(Idle) /\ V = Idle

(* closeAll *)
Stop ==
  /\ ~stopped
  /\ stopped' = TRUE
  /\ sweeper' = FALSE
  /\ lease' = Gone(lease, Mapped, "shutdown")
  /\ registry' = Pruned(Mapped)
  /\ Forget(Mapped)
  /\ UNCHANGED <<req, requests, verdict, completing, elicited, history>>

-----------------------------------------------------------------------------
(* The handler *)

(* A request arrives and waits for authentication.  Requests and session   *)
(* ids are interchangeable: the first free one is taken.                   *)
Arrive(r, kind, s, p) ==
  /\ req[r].pc = "idle"
  /\ \A q \in Reqs : q < r => req[q].pc /= "idle"
  /\ requests < MaxRequests
  /\ s \in {NoSession} \cup {t \in Sids : lease[t].place /= "none"}
  /\ kind = "call" \/ p = Nobody.prop
  /\ requests' = requests + 1
  /\ req' = [req EXCEPT ![r] = [Nobody EXCEPT !.pc = "auth", !.kind = kind, !.sess = s, !.prop = p]]
  /\ UNCHANGED <<leases, sweeper, stopped, reviews>>

(* Authentication fails, the session is unknown, or it has another owner. *)
Refuse(r) ==
  /\ req[r].pc = "auth"
  /\ req' = [req EXCEPT ![r] = Nobody]
  /\ UNCHANGED <<leases, sweeper, requests, stopped, reviews>>

(* The standalone stream of a session is replaced by the GET's. *)
StandaloneClosed(s) ==
  [q \in Reqs |-> IF req[q].pc = "stream" /\ req[q].sess = s /\ req[q].stage = "open"
                  THEN [req[q] EXCEPT !.stage = "done"] ELSE req[q]]

(* The lookup and the retain are one step: no await separates them. *)
Enter(r) ==
  LET s == req[r].sess
      others == IF req[r].kind = "get" THEN StandaloneClosed(s) ELSE req
  IN /\ req[r].pc = "auth"
     /\ s \in Mapped
     /\ req' = [others EXCEPT ![r].pc = "handling"]
     /\ lease' = Retained(s)
     /\ Touch(s)
     /\ UNCHANGED <<sweeper, requests, stopped, reviews>>

(* Without a session header a server is built and connected. *)
Build(r, s) ==
  /\ req[r].pc = "auth"
  /\ req[r].sess = NoSession
  /\ lease[s].place = "none"
  /\ \A t \in Sids : t < s => lease[t].place /= "none"
  /\ lease' = [lease EXCEPT ![s].place = "fresh"]
  /\ req' = [req EXCEPT ![r].pc = "connect", ![r].sess = s, ![r].fresh = TRUE]
  /\ UNCHANGED <<seen, expired, sweeper, requests, stopped, reviews>>

Connected(r) ==
  /\ req[r].pc = "connect"
  /\ req' = [req EXCEPT ![r].pc = "handling"]
  /\ lease' = Retained(req[r].sess)
  /\ Touch(req[r].sess)
  /\ UNCHANGED <<sweeper, requests, stopped, reviews>>

(* The reply is a stream: the retain goes to the body. *)
Streams(r, stage) ==
  [req EXCEPT ![r].pc = "stream", ![r].stage = stage, ![r].held = TRUE]

(* onsessioninitialized, called from inside handleRequest. *)
Initialize(r, V) ==
  LET s == req[r].sess
  IN /\ req[r].pc = "handling"
     /\ req[r].kind = "init"
     /\ req[r].fresh
     /\ Overflow(V)
     /\ lease' = [Gone(lease, V, "capacity") EXCEPT ![s].place = "mapped"]
     /\ registry' = Pruned(V)
     /\ Forget(V)
     /\ sweeper' = TRUE
     /\ req' = Streams(r, "done")
     /\ UNCHANGED <<requests, stopped, verdict, completing, elicited, history>>

(* A tool call or a notification stream on a live session. *)
OpenStream(r) ==
  /\ req[r].pc = "handling"
  /\ ~req[r].fresh
  /\ req[r].kind \in {"call", "get"}
  /\ Open(req[r].sess)
  /\ req' = Streams(r, IF req[r].kind = "call" THEN "start" ELSE "open")
  /\ UNCHANGED <<leases, sweeper, requests, stopped, reviews>>

(* The reply has no stream: a notification was accepted, or the transport  *)
(* refused or failed.  The finally block releases, and closes a server     *)
(* that never completed initialize.                                        *)
Reply(r) ==
  LET s == req[r].sess
  IN /\ req[r].pc = "handling"
     /\ req[r].kind /= "delete"
     /\ lease' = IF req[r].fresh THEN [Released(s) EXCEPT ![s].place = "failed"] ELSE Released(s)
     /\ IF req[r].fresh THEN Forget({s}) ELSE Touch(s)
     /\ req' = [req EXCEPT ![r] = Nobody]
     /\ UNCHANGED <<sweeper, requests, stopped, reviews>>

(* onsessionclosed: the client ended its session; a DELETE without one is  *)
(* refused like any other request before initialize.                       *)
Delete(r) ==
  LET s == req[r].sess
  IN /\ req[r].pc = "handling"
     /\ req[r].kind = "delete"
     /\ lease' = [Released(s) EXCEPT ![s].place =
                    IF req[r].fresh THEN "failed" ELSE IF @ = "mapped" THEN "closed" ELSE @]
     /\ Forget({s})
     /\ registry' = Pruned({s})
     /\ sweeper' = (sweeper /\ (req[r].fresh \/ Mapped \ {s} /= {}))
     /\ req' = [req EXCEPT ![r] = Nobody]
     /\ UNCHANGED <<requests, stopped, verdict, completing, elicited, history>>

-----------------------------------------------------------------------------
(* trackStreamLifetime *)

(* Mutant of Grace: the flag changes, the counter does not. *)
GraceLatches(r) ==
  /\ req[r].pc = "stream"
  /\ ~req[r].started
  /\ req[r].held
  /\ req' = [req EXCEPT ![r].held = FALSE]
  /\ UNCHANGED <<leases, sweeper, requests, stopped, reviews>>

(* Nobody pulled within the grace: the retain is given back. *)
Grace(r) ==
  LET s == req[r].sess
  IN /\ req[r].pc = "stream"
     /\ ~req[r].started
     /\ req[r].held
     /\ req' = [req EXCEPT ![r].held = FALSE]
     /\ lease' = Released(s)
     /\ Touch(s)
     /\ UNCHANGED <<sweeper, requests, stopped, reviews>>

(* Mutant of Pull: a force-released retain is not taken back. *)
PullWithoutRetain(r) ==
  /\ req[r].pc = "stream"
  /\ ~req[r].started
  /\ req' = [req EXCEPT ![r].started = TRUE, ![r].held = TRUE]
  /\ UNCHANGED <<leases, sweeper, requests, stopped, reviews>>

(* The first pull takes a force-released retain back. *)
Pull(r) ==
  LET s == req[r].sess
  IN /\ req[r].pc = "stream"
     /\ ~req[r].started
     /\ req' = [req EXCEPT ![r].started = TRUE, ![r].held = TRUE]
     /\ IF req[r].held THEN UNCHANGED leases ELSE lease' = Retained(s) /\ Touch(s)
     /\ UNCHANGED <<sweeper, requests, stopped, reviews>>

(* finish: a pull finds the end of the body, or the client hangs up. *)
Finish(r) ==
  LET s == req[r].sess
  IN /\ req[r].pc = "stream"
     /\ req' = [req EXCEPT ![r] = Nobody]
     /\ IF req[r].held THEN lease' = Released(s) /\ Touch(s) ELSE UNCHANGED leases
     /\ UNCHANGED <<sweeper, requests, stopped, reviews>>

BodyEnds(r) ==
  /\ req[r].started
  /\ req[r].stage = "done" \/ ~Open(req[r].sess)
  /\ Finish(r)

Cancel(r) == Finish(r)

-----------------------------------------------------------------------------
(* wikikit_review_proposal, running behind a stream *)

(* A question can be answered while the session's server is open. *)
Asking(r, stage) ==
  /\ req[r].pc = "stream"
  /\ req[r].stage = stage
  /\ Open(req[r].sess)

Answered(r) == req' = [req EXCEPT ![r].stage = "done"]

(* A proposal that is not pending is refused; otherwise the client is      *)
(* asked in the form, by URL, or not at all, as it is able to.             *)
ReadProposal(r, channel) ==
  /\ Asking(r, "start")
  /\ verdict[req[r].prop] = "pending" \/ channel = "done"
  /\ req' = [req EXCEPT ![r].stage = channel]
  /\ UNCHANGED <<leases, sweeper, requests, stopped, reviews>>

(* elicitProposalReview asks a second time after an invalid answer. *)
AskAgain(r) ==
  /\ Asking(r, "form")
  /\ req[r].asks = 0
  /\ req' = [req EXCEPT ![r].asks = 1]
  /\ UNCHANGED <<leases, sweeper, requests, stopped, reviews>>

(* A form cancelled too fast for a human falls back to the URL. *)
FastCancel(r) ==
  /\ Asking(r, "form")
  /\ req' = [req EXCEPT ![r].stage = "url"]
  /\ UNCHANGED <<leases, sweeper, requests, stopped, reviews>>

(* The form decides, if the proposal is still pending. *)
FormDecides(r) ==
  LET p == req[r].prop
  IN /\ Asking(r, "form")
     /\ verdict' = IF verdict[p] = "pending" THEN [verdict EXCEPT ![p] = "mcp"] ELSE verdict
     /\ Answered(r)
     /\ UNCHANGED <<leases, sweeper, requests, stopped, completing, urls>>

(* register: the oldest entries make room for one more. *)
Roomy == {i \in DOMAIN registry : Cardinality({j \in DOMAIN registry : j > i}) < MaxPending - 1}
Registered(e) ==
  [i \in Roomy \cup {elicited + 1} |-> IF i = elicited + 1 THEN e ELSE registry[i]]

(* The human opens the review page. *)
UrlAccepted(r) ==
  LET p == req[r].prop
      e == [prop |-> p, sess |-> req[r].sess, late |-> verdict[p] = "rest" /\ p \notin completing]
  IN /\ Asking(r, "url")
     /\ registry' = Registered(e)
     /\ elicited' = elicited + 1
     /\ opened' = [i \in 1..elicited + 1 |-> IF i <= elicited THEN opened[i] ELSE e]
     /\ evicted' = evicted \cup (DOMAIN registry \ Roomy)
     /\ told' = told
     /\ Answered(r)
     /\ UNCHANGED <<leases, sweeper, requests, stopped, verdict, completing>>

(* Declined, cancelled, timed out, failed, or answered wrongly twice. *)
Abandon(r) ==
  /\ \E stage \in {"start", "form", "url"} : Asking(r, stage)
  /\ Answered(r)
  /\ UNCHANGED <<leases, sweeper, requests, stopped, reviews>>

(* Mutant of RestDecides: a decision that does not call complete(). *)
RestDecidesSilently(p) ==
  /\ verdict[p] = "pending"
  /\ verdict' = [verdict EXCEPT ![p] = "rest"]
  /\ UNCHANGED <<leases, sweeper, req, requests, stopped, completing, urls>>

(* Approve, reject or request changes over REST: the transaction, then     *)
(* complete(), which is not awaited.                                      *)
RestDecides(p) ==
  /\ verdict[p] = "pending"
  /\ verdict' = [verdict EXCEPT ![p] = "rest"]
  /\ completing' = completing \cup {p}
  /\ UNCHANGED <<leases, sweeper, req, requests, stopped, urls>>

(* A full split over REST ends the review as well, and never calls         *)
(* complete(); a decision whose commit is answered with an error does not  *)
(* come to it either.                                                      *)
RestEndsSilently(p) ==
  /\ verdict[p] = "pending"
  /\ verdict' = [verdict EXCEPT ![p] = "silent"]
  /\ UNCHANGED <<leases, sweeper, req, requests, stopped, completing, urls>>

Pending(p) == {i \in DOMAIN registry : registry[i].prop = p}

(* complete: the loop takes the oldest entry out and awaits its notice; an *)
(* entry registered meanwhile is still visited.                            *)
Notify(p, i) ==
  /\ p \in completing
  /\ i \in Pending(p)
  /\ \A j \in Pending(p) : i <= j
  /\ registry' = Only(DOMAIN registry \ {i})
  /\ told' = told \cup {i}
  /\ UNCHANGED <<leases, sweeper, req, requests, stopped, verdict, completing, elicited, opened, evicted>>

Completed(p) ==
  /\ p \in completing
  /\ Pending(p) = {}
  /\ completing' = completing \ {p}
  /\ UNCHANGED <<leases, sweeper, req, requests, stopped, verdict, urls>>

-----------------------------------------------------------------------------
(* Specification *)

Kinds == {"init", "call", "note", "get", "delete"}

Handle(r) ==
  \/ \E V \in SUBSET Sids : Initialize(r, V)
  \/ OpenStream(r)
  \/ Reply(r)
  \/ Delete(r)

Receive(r) == Refuse(r) \/ Enter(r) \/ (\E s \in Sids : Build(r, s)) \/ Connected(r)

Review(r) ==
  \/ \E channel \in {"form", "url", "done"} : ReadProposal(r, channel)
  \/ AskAgain(r)
  \/ FastCancel(r)
  \/ FormDecides(r)
  \/ UrlAccepted(r)
  \/ Abandon(r)

Next ==
  \/ \E r \in Reqs, kind \in Kinds, s \in Sids \cup {NoSession}, p \in Proposals : Arrive(r, kind, s, p)
  \/ \E r \in Reqs : Receive(r) \/ Handle(r) \/ Review(r)
  \/ \E r \in Reqs : Grace(r) \/ Pull(r) \/ BodyEnds(r) \/ Cancel(r)
  \/ \E p \in Proposals : RestDecides(p) \/ RestEndsSilently(p) \/ Completed(p)
  \/ \E p \in Proposals, i \in DOMAIN registry : Notify(p, i)
  \/ \E s \in Sids : Age(s)
  \/ Tick
  \/ Stop

Spec == Init /\ [][Next]_vars

(* Timers fire, and what the handler awaits answers.  No client is assumed *)
(* to read a stream, to hang up or to answer a question.                   *)
Fairness ==
  /\ WF_vars(Tick)
  /\ \A s \in Sids : WF_vars(Age(s))
  /\ \A r \in Reqs : WF_vars(Receive(r)) /\ WF_vars(Handle(r)) /\ WF_vars(Grace(r))

FairSpec == Spec /\ Fairness

-----------------------------------------------------------------------------
(* Properties *)

(* The maps, the requests and the registry have the declared shape, and the *)
(* registry keeps its bound.                                               *)
TypeOK ==
  /\ lease \in [Sids -> LeaseState]
  /\ seen \subseteq Sids \X Sids
  /\ expired \subseteq Sids
  /\ sweeper \in BOOLEAN
  /\ req \in [Reqs -> ReqState]
  /\ requests \in Nat
  /\ stopped \in BOOLEAN
  /\ verdict \in [Proposals -> Verdicts]
  /\ completing \subseteq Proposals
  /\ elicited \in Nat
  /\ DOMAIN registry \subseteq 1..elicited
  /\ registry \in [DOMAIN registry -> Entry]
  /\ Cardinality(DOMAIN registry) <= MaxPending
  /\ opened \in [1..elicited -> Entry]
  /\ told \cup evicted \subseteq 1..elicited

(* The requests that owe session s a release: those inside handleRequest   *)
(* and the bodies that hold a retain.                                      *)
Holders(s) ==
  {r \in Reqs : /\ req[r].sess = s
                /\ \/ req[r].pc = "handling"
                   \/ req[r].pc = "stream" /\ req[r].held}

(* "Pair with exactly one release": in every order of first pull, grace    *)
(* timer, end of body and hang-up, inFlight counts the requests and        *)
(* streams that still owe a release, so the counter neither latches nor    *)
(* runs low.                                                               *)
RetainsBalance == \A s \in Sids : lease[s].inFlight = Cardinality(Holders(s))

LiveStream(r, s) == req[r].pc = "stream" /\ req[r].sess = s /\ req[r].started

Working(s) == \E r \in Reqs : LiveStream(r, s) \/ (req[r].sess = s /\ req[r].pc = "handling")

(* "Busy sessions are never victims": the sweeper and the cap never end a  *)
(* session that serves a request or a stream someone reads.                *)
NeverSevered ==
  [][\A s \in Mapped : lease'[s].place \in {"idle_ttl", "capacity"} => ~Working(s)]_vars

(* The cap is exceeded only by a newcomer that found every session busy.   *)
OverCapOnlyWhenBusy ==
  [][\A s \in Sids :
       (lease[s].place = "fresh" /\ s \in Mapped' /\ Cardinality(Mapped') > MaxSessions)
         => \A t \in Mapped' \ {s} : lease[t].inFlight > 0]_vars

(* Whatever order sessions are opened, deleted, swept and shut down in, a  *)
(* session in the map has an armed sweeper behind it.                      *)
SweeperWatches == Mapped /= {} => sweeper

(* No SDK server outlives its lease: an open one is in the map or belongs  *)
(* to a request that will register or close it.                            *)
NoLeakedServer ==
  \A s \in Sids : lease[s].place = "fresh" =>
    \E r \in Reqs : req[r].sess = s /\ req[r].fresh /\ req[r].pc \in {"connect", "handling"}

(* A pending URL review belongs to a session that can still be told.       *)
RegistryServesLive == \A i \in DOMAIN registry : registry[i].sess \in Mapped

(* Every client that has opened the review page is told of the decision,   *)
(* once an approval, a rejection or a request for changes over REST is     *)
(* made and its complete() has returned.  Not told is a client that opened *)
(* the page after that, whose session has ended, or whose entry the limit  *)
(* of the registry pushed out, for which MaxPending later ones must have   *)
(* come.  A review that ends in a form or in a full split tells nobody.    *)
DecisionAnnounced ==
  /\ \A i \in DOMAIN opened :
       LET e == opened[i]
       IN verdict[e.prop] = "rest" /\ e.prop \notin completing /\ ~e.late
            => i \in told \cup evicted \/ e.sess \notin Mapped
  /\ \A i \in evicted : elicited - i >= MaxPending

(* "Sessions are leases": a session nobody reads a stream of ends, even    *)
(* when the client neither deletes it nor pulls the bodies it asked for.   *)
EveryLeaseEnds == \A s \in Sids : s \in Mapped ~> (s \notin Mapped \/ \E r \in Reqs : LiveStream(r, s))

(* Types, and the books of the session manager: every retain, every open   *)
(* server, every entry of the registry and the sweeper itself is accounted *)
(* for by a request or a session of the map.                               *)
SessionInv == TypeOK /\ RetainsBalance /\ SweeperWatches /\ NoLeakedServer /\ RegistryServesLive

(* The sweep and the cap end idle sessions only, and the cap is exceeded   *)
(* only when there is none.                                                *)
VictimsAreIdle == NeverSevered /\ OverCapOnlyWhenBusy
=============================================================================
