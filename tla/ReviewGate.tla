----------------------------- MODULE ReviewGate -----------------------------
(***************************************************************************)
(* The review gate of one WikiKit space: change proposals, the rows they   *)
(* stage (page revisions, claims, relations, decisions, page deletions and *)
(* restorations) and the SQL functions that decide on them.                *)
(*                                                                         *)
(* One action is one database transaction.  The one operation that is not  *)
(* a single transaction, an approval over MCP that meets a stale base, is  *)
(* two actions.                                                            *)
(*                                                                         *)
(* A revision, or a claim, is identified by the proposal that first staged *)
(* it and by the entry it was staged from: `rev' is the revisions table.   *)
(***************************************************************************)
EXTENDS Naturals, Sequences, FiniteSets

CONSTANTS
  Proposals,             \* the ids the run may use: bounds the proposals
  Concepts,              \* page slugs
  Entries,               \* [slug, n]: the n-th entry of a draft for a slug
  Claims,                \* claim contents, see ClaimType
  DecisionSlugs,
  Hashes,                \* input hashes callers compute
  Sources,
  Predecessor,           \* source -> the stream version it supersedes
  Drafts,                \* what callers submit, see DraftType
  FunctionalPredicates,  \* the space's settings
  Null

Kinds == {"related", "supersedes", "contradicts"}
Edges == [from : Concepts, to : Concepts, kind : Kinds]
RevIds == Proposals \X Entries
ClaimIds == Proposals \X Claims
SlugOf(r) == r[2].slug

ClaimType == [slug : Concepts, subject : STRING, predicate : STRING,
              context : STRING, object : STRING, from : Nat, until : Nat,
              complementary : BOOLEAN, successor : BOOLEAN]

DecisionEntry == [slug : DecisionSlugs, supersedes : DecisionSlugs \cup {Null}]

DraftType == [hash : Hashes, sources : SUBSET Sources, entries : SUBSET Entries,
              claims : SUBSET Claims, relations : SUBSET Edges,
              removed : SUBSET Edges, decisions : SUBSET DecisionEntry,
              base : {"pointer", "explicit"}]

Slugs(d) == {e.slug : e \in d.entries}

ASSUME NullAssumption ==
  Null \notin Proposals \cup Concepts \cup DecisionSlugs \cup Sources \cup RevIds \cup ClaimIds
ASSUME EntriesAssumption == Entries \subseteq [slug : Concepts, n : Nat]
ASSUME ClaimsAssumption == Claims \subseteq ClaimType
ASSUME PredecessorAssumption == Predecessor \in [Sources -> Sources \cup {Null}]

(* Claims and relations are nested in the entry of the page they are about. *)
ASSUME DraftsAssumption ==
  /\ Drafts \subseteq DraftType
  /\ \A d \in Drafts :
       /\ \A t \in d.claims : t.slug \in Slugs(d)
       /\ \A x \in d.relations : x.from \in Slugs(d) /\ x.from # x.to

VARIABLES
  prop,       \* wk_change_proposals
  rev,        \* wk_concept_revisions
  known,      \* wk_concepts: the slugs that have a row
  current,    \* wk_concepts.current_revision_id
  deleted,    \* wk_concepts.deleted_revision_id (and deleted_at)
  claim,      \* wk_claims
  rel,        \* wk_relations
  dec,        \* wk_decisions
  change,     \* wk_concept_lifecycle_changes
  epoch,      \* wk_spaces.epoch
  events,     \* wk_outbox_events about a proposal, counted
  revEvents,  \* wk_outbox_events about a revision, counted
  audit,      \* wk_audit_events of the REST review handlers
  staleSeen   \* MCP approvals between the rollback and the status write

vars == <<prop, rev, known, current, deleted, claim, rel, dec, change, epoch,
          events, revEvents, audit, staleSeen>>

-----------------------------------------------------------------------------
(* Rows and their types. *)

ProposalStatus == {"none", "pending", "approved", "rejected", "failed", "split"}
Terminal == {"approved", "rejected", "failed", "split"}
RevStatus == {"none", "proposed", "current", "superseded", "rejected"}
Published == {"current", "superseded"}
ClaimStatus == {"none", "proposed", "verified", "disputed", "deprecated"}
Visible == {"verified", "disputed"}
RelStatus == {"none", "proposed", "active", "removed"}
DecStatus == {"none", "proposed", "active", "superseded"}

ProposalEvents == [created : Nat, approved : Nat, rejected : Nat,
                   changesRequested : Nat, split : Nat]
RevisionEvents == [updated : Nat, deleted : Nat, restored : Nat]
AuditEntry == [proposal : Proposals,
               action : {"approved", "rejected", "changes_requested", "split"},
               result : {"success", "stale_base"}]

(* An input hash is a digest of something: the caller's hash or a page     *)
(* lifecycle change, salted by removals, by a split or by a deferral.      *)
Salt == [kind : {"removals", "child", "decisions", "remainder"},
         slugs : SUBSET Concepts, edges : SUBSET Edges]
Hash == [base : Hashes \cup ({"delete", "restore"} \X Concepts \X RevIds),
         salts : Seq(Salt)]

ProposalRow == [status : ProposalStatus, hash : Hash \cup {Null},
                sources : SUBSET Sources, parent : Proposals \cup {Null},
                changesRequested : BOOLEAN]
RevRow == [status : RevStatus, base : RevIds \cup {Null}, owner : Proposals \cup {Null}]
ClaimRow == [status : ClaimStatus, supersedes : ClaimIds \cup {Null},
             owner : Proposals \cup {Null}]
RelRow == [status : RelStatus, owner : Proposals \cup {Null},
           removal : Proposals \cup {Null}]
DecRow == [status : DecStatus, owner : Proposals \cup {Null},
           supersedes : DecisionSlugs \cup {Null}]
ChangeRow == [action : {"none", "delete", "restore"},
              concept : Concepts \cup {Null}, revision : RevIds \cup {Null}]

NoProposal == [status |-> "none", hash |-> Null, sources |-> {}, parent |-> Null,
               changesRequested |-> FALSE]
NoEvents == [created |-> 0, approved |-> 0, rejected |-> 0,
             changesRequested |-> 0, split |-> 0]

(* An empty space. *)
Init ==
  /\ prop = [p \in Proposals |-> NoProposal]
  /\ rev = [r \in RevIds |-> [status |-> "none", base |-> Null, owner |-> Null]]
  /\ known = {}
  /\ current = [c \in Concepts |-> Null]
  /\ deleted = [c \in Concepts |-> Null]
  /\ claim = [k \in ClaimIds |-> [status |-> "none", supersedes |-> Null, owner |-> Null]]
  /\ rel = [x \in Edges |-> [status |-> "none", owner |-> Null, removal |-> Null]]
  /\ dec = [s \in DecisionSlugs |-> [status |-> "none", owner |-> Null, supersedes |-> Null]]
  /\ change = [p \in Proposals |-> [action |-> "none", concept |-> Null, revision |-> Null]]
  /\ epoch = 0
  /\ events = [p \in Proposals |-> NoEvents]
  /\ revEvents = [r \in RevIds |-> [updated |-> 0, deleted |-> 0, restored |-> 0]]
  /\ audit = {}
  /\ staleSeen = {}

-----------------------------------------------------------------------------
(* Staging a proposal. *)

Pending == {p \in Proposals : prop[p].status = "pending"}
PendingWith(h) == {p \in Pending : prop[p].hash = h}

Digest(h, kind, slugs, edges) ==
  [h EXCEPT !.salts = Append(@, [kind |-> kind, slugs |-> slugs, edges |-> edges])]

(* A removal set is part of what the hash identifies. *)
InputHash(d) ==
  LET h == [base |-> d.hash, salts |-> <<>>]
  IN  IF d.removed = {} THEN h ELSE Digest(h, "removals", {}, d.removed)

(* Mutant: a page may be staged twice. *)
WellFormedTwice(d) ==
  /\ d.entries \cup d.decisions \cup d.removed # {}
  /\ d.relations \cap d.removed = {}

(* The boundary schema: something is staged, no page and no decision twice, *)
(* no relation both added and removed.                                      *)
WellFormed(d) ==
  /\ d.entries \cup d.decisions \cup d.removed # {}
  /\ \A e1, e2 \in d.entries : e1.slug = e2.slug => e1 = e2
  /\ \A x1, x2 \in d.decisions : x1.slug = x2.slug => x1 = x2
  /\ d.relations \cap d.removed = {}

IsDeleted(c) == current[c] = Null /\ deleted[c] # Null

(* Pages that staging locks, creating the ones that have no row. *)
Touched(d) == Slugs(d) \cup {x.to : x \in d.relations}

(* What staging refuses: a deleted page, a relation whose removal is under  *)
(* review, a removal of a relation that is not active, a successor of a     *)
(* decision that does not exist.                                            *)
Stageable(d) ==
  /\ \A c \in Touched(d) : ~IsDeleted(c)
  /\ \A x \in d.relations : rel[x].removal \notin Pending
  /\ \A x \in d.removed : rel[x].status = "active"
  /\ {x.supersedes : x \in d.decisions}
       \subseteq {Null} \cup {s \in DecisionSlugs : dec[s].status # "none"}

(* The revision an entry was written against: the pointer at staging time, *)
(* or the one its author read earlier.                                     *)
BaseChoices(d, c) ==
  IF d.base = "pointer"
  THEN {current[c]}
  ELSE {Null} \cup {r \in RevIds : r[2].slug = c /\ rev[r].status \in Published}

Successors(d) == {t \in d.claims : t.successor}

InsertProposal(p, h, srcs, parent) ==
  prop' = [prop EXCEPT ![p] = [status |-> "pending", hash |-> h, sources |-> srcs,
                               parent |-> parent, changesRequested |-> FALSE]]

StageRevisions(p, d, base) ==
  rev' = [r \in RevIds |->
            IF r[1] = p /\ r[2] \in d.entries
            THEN [status |-> "proposed", base |-> base[r[2]], owner |-> p]
            ELSE rev[r]]

StageClaims(p, d, sup) ==
  claim' = [k \in ClaimIds |->
              IF k[1] = p /\ k[2] \in d.claims
              THEN [status |-> "proposed", owner |-> p,
                    supersedes |-> IF k[2].successor THEN sup[k[2]] ELSE Null]
              ELSE claim[k]]

(* Mutant: the upsert downgrades an active relation to `proposed'. *)
StageRelationsDowngrade(p, d) ==
  rel' = [x \in Edges |->
            IF x \in d.relations THEN [rel[x] EXCEPT !.status = "proposed", !.owner = p]
            ELSE IF x \in d.removed THEN [rel[x] EXCEPT !.removal = p]
            ELSE rel[x]]

(* Relations are upserted, an active one stays as it is and any other is    *)
(* taken over; removals only mark the active row, over any earlier marker.  *)
StageRelations(p, d) ==
  rel' = [x \in Edges |->
            IF x \in d.relations /\ rel[x].status # "active"
            THEN [rel[x] EXCEPT !.status = "proposed", !.owner = p]
            ELSE IF x \in d.removed
            THEN [rel[x] EXCEPT !.removal = p]
            ELSE rel[x]]

(* Mutant: the upsert takes over an active decision. *)
StageDecisionsTakeOver(p, d) ==
  dec' = [s \in DecisionSlugs |->
            IF \E x \in d.decisions : x.slug = s
            THEN [status |-> IF dec[s].status = "active" THEN "active" ELSE "proposed",
                  owner |-> p,
                  supersedes |-> (CHOOSE x \in d.decisions : x.slug = s).supersedes]
            ELSE dec[s]]

StageDecisions(p, d) ==
  dec' = [s \in DecisionSlugs |->
            IF dec[s].status # "active" /\ \E x \in d.decisions : x.slug = s
            THEN [status |-> "proposed", owner |-> p,
                  supersedes |-> (CHOOSE x \in d.decisions : x.slug = s).supersedes]
            ELSE dec[s]]

(* A pending proposal with the same hash is returned instead: no step. *)
CreateProposal(p, d) ==
  /\ prop[p].status = "none"
  /\ WellFormed(d)
  /\ PendingWith(InputHash(d)) = {}
  /\ Stageable(d)
  /\ \E base \in [d.entries -> RevIds \cup {Null}], sup \in [Successors(d) -> ClaimIds] :
       /\ \A e \in d.entries : base[e] \in BaseChoices(d, e.slug)
       /\ \A t \in Successors(d) : claim[sup[t]].status \in Visible
       /\ StageRevisions(p, d, base)
       /\ StageClaims(p, d, sup)
  /\ InsertProposal(p, InputHash(d), d.sources, Null)
  /\ known' = known \cup Touched(d)
  /\ StageRelations(p, d)
  /\ StageDecisions(p, d)
  /\ events' = [events EXCEPT ![p].created = @ + 1]
  /\ UNCHANGED <<current, deleted, change, epoch, revEvents, audit, staleSeen>>

(* Deleting or restoring a page is a proposal too. *)
StageConceptLifecycle(p, c, action) ==
  LET revision == IF action = "delete" THEN current[c] ELSE deleted[c]
      h == [base |-> <<action, c, revision>>, salts |-> <<>>]
  IN /\ prop[p].status = "none"
     /\ c \in known
     /\ revision # Null
     /\ PendingWith(h) = {}
     /\ InsertProposal(p, h, {}, Null)
     /\ change' = [change EXCEPT ![p] =
                     [action |-> action, concept |-> c, revision |-> revision]]
     /\ rel' = [x \in Edges |->
                  IF action = "delete" /\ rel[x].status = "active" /\ c \in {x.from, x.to}
                  THEN [rel[x] EXCEPT !.removal = p]
                  ELSE rel[x]]
     /\ events' = [events EXCEPT ![p].created = @ + 1]
     /\ UNCHANGED <<rev, known, current, deleted, claim, dec, epoch, revEvents,
                    audit, staleSeen>>

-----------------------------------------------------------------------------
(* wk_apply_proposal: everything a proposal staged, in one transaction. *)

Staged(p) == {r \in RevIds : rev[r].owner = p /\ rev[r].status = "proposed"}
StagedConcepts(p) == {r[2].slug : r \in Staged(p)}

(* Mutant: the base of a revision is not compared. *)
StaleRevisionNever(p) == FALSE

(* Some page a proposal rewrites, deletes or restores is not as it was. *)
StaleRevision(p) == \E r \in Staged(p) : current[r[2].slug] # rev[r].base
StaleChange(p) ==
  LET ch == change[p] IN
  \/ ch.action = "delete" /\ current[ch.concept] # ch.revision
  \/ ch.action = "restore" /\ (current[ch.concept] # Null \/ deleted[ch.concept] # ch.revision)
Stale(p) == StaleRevision(p) \/ StaleChange(p)

Deletes(p, c) == change[p].action = "delete" /\ change[p].concept = c
Restores(p, c) == change[p].action = "restore" /\ change[p].concept = c

(* Flips 1 and 2, and the revision writes of the lifecycle trigger. *)
ApplyRevisions(p) ==
  rev' = [r \in RevIds |->
            LET c == r[2].slug IN
            IF r \in Staged(p) \/ (Restores(p, c) /\ r = change[p].revision
                                    /\ rev[r].status = "superseded")
            THEN [rev[r] EXCEPT !.status = "current"]
            ELSE IF r = current[c] /\ (c \in StagedConcepts(p) \/ Deletes(p, c))
            THEN [rev[r] EXCEPT !.status = "superseded"]
            ELSE rev[r]]

(* Flip 3 and the pointer writes of the lifecycle trigger. *)
ApplyPointers(p) ==
  /\ current' = [c \in Concepts |->
                   IF c \in StagedConcepts(p) THEN CHOOSE r \in Staged(p) : r[2].slug = c
                   ELSE IF Deletes(p, c) THEN Null
                   ELSE IF Restores(p, c) THEN change[p].revision
                   ELSE current[c]]
  /\ deleted' = [c \in Concepts |->
                   IF Deletes(p, c) THEN change[p].revision
                   ELSE IF Restores(p, c) THEN Null
                   ELSE deleted[c]]

(* Two claims answer the same single-valued question differently. *)
Collide(t, u) ==
  /\ t.subject = u.subject
  /\ t.predicate = u.predicate
  /\ t.predicate \in FunctionalPredicates
  /\ t.context = u.context
  /\ t.object # u.object
  /\ t.from < u.until
  /\ u.from < t.until

FreshClaims(p) == {k \in ClaimIds : claim[k].owner = p /\ claim[k].status = "proposed"}
ReplacedClaims(p) ==
  {k \in ClaimIds : /\ claim[k].status \in Visible
                    /\ \E f \in FreshClaims(p) : claim[f].supersedes = k}

(* Mutant: a claim that is disputed already is not compared. *)
DisputedPairsVerifiedOnly(p) ==
  {pair \in FreshClaims(p) \X ClaimIds :
     /\ claim[pair[2]].status = "verified"
     /\ claim[pair[2]].owner # p
     /\ pair[2] \notin ReplacedClaims(p)
     /\ Collide(pair[1][2], pair[2][2])
     /\ ~pair[1][2].complementary}

(* Flip 5: a fresh claim against what was visible before. *)
DisputedPairs(p) ==
  {pair \in FreshClaims(p) \X ClaimIds :
     LET f == pair[1]
         k == pair[2]
     IN /\ claim[k].status \in Visible
        /\ claim[k].owner # p
        /\ k \notin ReplacedClaims(p)
        /\ Collide(f[2], k[2])
        /\ ~f[2].complementary}
DisputedClaims(p) == UNION {{pair[1], pair[2]} : pair \in DisputedPairs(p)}

(* Flips 4, 5c and 5. *)
ApplyClaims(p) ==
  claim' = [k \in ClaimIds |->
              IF k \in DisputedClaims(p) THEN [claim[k] EXCEPT !.status = "disputed"]
              ELSE IF k \in FreshClaims(p) THEN [claim[k] EXCEPT !.status = "verified"]
              ELSE IF k \in ReplacedClaims(p) THEN [claim[k] EXCEPT !.status = "deprecated"]
              ELSE claim[k]]

(* The relations approval derives from claims: a successor's page supersedes *)
(* its target's page, pages of a disputed pair contradict each other.        *)
DerivedEdges(p) ==
  {x \in Edges :
     /\ x.from # x.to
     /\ \/ /\ x.kind = "supersedes"
           /\ \E f \in FreshClaims(p), k \in ClaimIds :
                /\ claim[f].supersedes = k
                /\ k \in ReplacedClaims(p) \/ claim[k].status = "deprecated"
                /\ x.from = f[2].slug /\ x.to = k[2].slug
        \/ /\ x.kind = "contradicts"
           /\ \E pair \in DisputedPairs(p) :
                x.from = pair[1][2].slug /\ x.to = pair[2][2].slug}

(* Flips 5b and 5c upsert the derived relations and drop a removal marker on *)
(* them, flip 6 activates the staged ones, flip 6b removes the marked ones.  *)
ApplyRelations(p) ==
  rel' = [x \in Edges |->
            LET activated == rel[x].status = "proposed" /\ rel[x].owner = p
                live == activated \/ rel[x].status = "active"
            IN IF x \in DerivedEdges(p)
               THEN [status |-> "active", removal |-> Null,
                     owner |-> IF rel[x].status = "none" THEN p ELSE rel[x].owner]
               ELSE IF live /\ rel[x].removal = p
               THEN [rel[x] EXCEPT !.status = "removed"]
               ELSE IF activated
               THEN [rel[x] EXCEPT !.status = "active"]
               ELSE rel[x]]

(* Flip 6c retires active predecessors before the staged ones activate. *)
FreshDecisions(p) == {s \in DecisionSlugs : dec[s].owner = p /\ dec[s].status = "proposed"}
ApplyDecisions(p) ==
  dec' = [s \in DecisionSlugs |->
            IF s \in FreshDecisions(p) THEN [dec[s] EXCEPT !.status = "active"]
            ELSE IF dec[s].status = "active" /\ \E f \in FreshDecisions(p) : dec[f].supersedes = s
            THEN [dec[s] EXCEPT !.status = "superseded"]
            ELSE dec[s]]

ApplyRevisionEvents(p) ==
  revEvents' = [r \in RevIds |->
                  LET touched == change[p].revision = r IN
                  [updated |-> revEvents[r].updated + (IF r \in Staged(p) THEN 1 ELSE 0),
                   deleted |-> revEvents[r].deleted
                      + (IF touched /\ change[p].action = "delete" THEN 1 ELSE 0),
                   restored |-> revEvents[r].restored
                      + (IF touched /\ change[p].action = "restore" THEN 1 ELSE 0)]]

(* The REST handlers record the decision in the transaction that takes it. *)
Audited(channel, p, action, result) ==
  audit' = IF channel = "rest"
           THEN audit \cup {[proposal |-> p, action |-> action, result |-> result]}
           ELSE audit

Channels == {"rest", "mcp"}

ApproveProposal(p, channel) ==
  /\ prop[p].status = "pending"
  /\ ~Stale(p)
  /\ ApplyRevisions(p)
  /\ ApplyPointers(p)
  /\ ApplyClaims(p)
  /\ ApplyRelations(p)
  /\ ApplyDecisions(p)
  /\ prop' = [prop EXCEPT ![p].status = "approved"]
  /\ epoch' = epoch + 1
  /\ events' = [events EXCEPT ![p].approved = @ + 1]
  /\ ApplyRevisionEvents(p)
  /\ Audited(channel, p, "approved", "success")
  /\ UNCHANGED <<known, change, staleSeen>>

(* A stale base rolls everything back.  Over MCP approveProposal runs on the *)
(* pool and next writes `failed' in a transaction of its own (MarkFailed).   *)
ApproveStaleMcp(p) ==
  /\ prop[p].status = "pending"
  /\ Stale(p)
  /\ staleSeen' = staleSeen \cup {p}
  /\ UNCHANGED <<prop, rev, known, current, deleted, claim, rel, dec, change, epoch,
                 events, revEvents, audit>>

(* Mutant: the write of `failed' does not ask for a pending proposal. *)
MarkFailedAlways(p) ==
  /\ p \in staleSeen
  /\ staleSeen' = staleSeen \ {p}
  /\ prop' = [prop EXCEPT ![p].status = "failed"]
  /\ UNCHANGED <<rev, known, current, deleted, claim, rel, dec, change, epoch, events,
                 revEvents, audit>>

MarkFailed(p) ==
  /\ p \in staleSeen
  /\ staleSeen' = staleSeen \ {p}
  /\ prop' = [prop EXCEPT ![p].status = IF @ = "pending" THEN "failed" ELSE @]
  /\ UNCHANGED <<rev, known, current, deleted, claim, rel, dec, change, epoch, events,
                 revEvents, audit>>

(* The process stops, or the best-effort write fails, before `failed' lands. *)
LoseMark(p) ==
  /\ p \in staleSeen
  /\ staleSeen' = staleSeen \ {p}
  /\ UNCHANGED <<prop, rev, known, current, deleted, claim, rel, dec, change, epoch,
                 events, revEvents, audit>>

(* Over REST the same code runs on the handler's transaction, which the      *)
(* raised error has aborted: the write of `failed' is refused, the refusal   *)
(* swallowed, and the transaction rolled back.  Only the audit entry of the  *)
(* failure, on a transaction of its own, remains.                            *)
ApproveStaleRest(p) ==
  /\ prop[p].status = "pending"
  /\ Stale(p)
  /\ Audited("rest", p, "approved", "stale_base")
  /\ UNCHANGED <<prop, rev, known, current, deleted, claim, rel, dec, change, epoch,
                 events, revEvents, staleSeen>>

-----------------------------------------------------------------------------
(* The other decisions. *)

(* wk_reject_proposal_core_0000: claims and decisions stay as they are. *)
RejectRows(p) ==
  /\ rev' = [r \in RevIds |->
               IF r \in Staged(p) THEN [rev[r] EXCEPT !.status = "rejected"] ELSE rev[r]]
  /\ rel' = [x \in Edges |->
               IF rel[x].owner = p /\ rel[x].status = "proposed"
               THEN [rel[x] EXCEPT !.status = "removed"] ELSE rel[x]]

RejectProposal(p, channel) ==
  /\ prop[p].status = "pending"
  /\ RejectRows(p)
  /\ prop' = [prop EXCEPT ![p].status = "rejected"]
  /\ events' = [events EXCEPT ![p].rejected = @ + 1]
  /\ Audited(channel, p, "rejected", "success")
  /\ UNCHANGED <<known, current, deleted, claim, dec, change, epoch, revEvents, staleSeen>>

(* Mutant: a second event instead of a rewritten one. *)
RequestChangesTwoEvents(p) ==
  /\ prop[p].status = "pending"
  /\ RejectRows(p)
  /\ prop' = [prop EXCEPT ![p].status = "rejected", ![p].changesRequested = TRUE]
  /\ events' = [events EXCEPT ![p].changesRequested = @ + 1, ![p].rejected = @ + 1]
  /\ Audited("rest", p, "changes_requested", "success")
  /\ UNCHANGED <<known, current, deleted, claim, dec, change, epoch, revEvents, staleSeen>>

(* A reject whose event is rewritten to the other type. *)
RequestChanges(p) ==
  /\ prop[p].status = "pending"
  /\ RejectRows(p)
  /\ prop' = [prop EXCEPT ![p].status = "rejected", ![p].changesRequested = TRUE]
  /\ events' = [events EXCEPT ![p].changesRequested = @ + 1]
  /\ Audited("rest", p, "changes_requested", "success")
  /\ UNCHANGED <<known, current, deleted, claim, dec, change, epoch, revEvents, staleSeen>>

(* The ingest pipeline, after it staged a newer version s of a stream.  Rows *)
(* stay as they are and no event is emitted.                                 *)
RetireSupersededProposals(s) ==
  LET old == Predecessor[s]
      retired == {p \in Pending : old \in prop[p].sources}
  IN /\ old # Null
     /\ \E p \in Proposals : s \in prop[p].sources
     /\ retired # {}
     /\ prop' = [p \in Proposals |->
                   IF p \in retired THEN [prop[p] EXCEPT !.status = "failed"] ELSE prop[p]]
     /\ UNCHANGED <<rev, known, current, deleted, claim, rel, dec, change, epoch, events,
                    revEvents, audit, staleSeen>>

(* wk_split_proposal.  A child per page takes the rows about that page; a    *)
(* full split, when decisions or removal markers are left, makes one more    *)
(* child for them.  `home[c]' is the child of page c, `rest' the last child. *)
Fresh == {p \in Proposals : prop[p].status = "none"}
OwnDecisions(p) == {s \in DecisionSlugs : dec[s].owner = p /\ dec[s].status = "proposed"}
Marked(p) == {x \in Edges : rel[x].removal = p}
LeftoverMarks(p, S) == {x \in Marked(p) : x.from \notin S}
ChildHash(p, c) == Digest(prop[p].hash, "child", {c}, {})
DecisionsHash(p) == Digest(prop[p].hash, "decisions", {}, {})
RemainderHash(p, S) == Digest(prop[p].hash, "remainder", S, {})

ChildRow(p, h) ==
  [status |-> "pending", hash |-> h, sources |-> prop[p].sources, parent |-> p,
   changesRequested |-> FALSE]

(* The rows of the pages of S change hands. *)
MoveRows(p, S, home) ==
  /\ rev' = [r \in RevIds |->
               IF r \in Staged(p) /\ r[2].slug \in S
               THEN [rev[r] EXCEPT !.owner = home[r[2].slug]] ELSE rev[r]]
  /\ claim' = [k \in ClaimIds |->
                 IF k \in FreshClaims(p) /\ k[2].slug \in S
                 THEN [claim[k] EXCEPT !.owner = home[k[2].slug]] ELSE claim[k]]

(* Mutant: staged relations stay with the parent. *)
MovedRelationMarkersOnly(p, S, home, x) ==
  [rel[x] EXCEPT !.removal = IF @ = p /\ x.from \in S THEN home[x.from] ELSE @]

MovedRelation(p, S, home, x) ==
  [rel[x] EXCEPT
     !.owner = IF @ = p /\ rel[x].status = "proposed" /\ x.from \in S THEN home[x.from] ELSE @,
     !.removal = IF @ = p /\ x.from \in S THEN home[x.from] ELSE @]

Homes(S) == {home \in [S -> Fresh] : \A c1, c2 \in S : home[c1] = home[c2] => c1 = c2}

SplitFull(p) ==
  LET S == StagedConcepts(p)
      leftover == OwnDecisions(p) # {} \/ LeftoverMarks(p, S) # {}
  IN /\ prop[p].status = "pending"
     /\ S # {}
     /\ OwnDecisions(p) # {} \/ \E c1, c2 \in S : c1 # c2
     /\ \A c \in S : PendingWith(ChildHash(p, c)) = {}
     /\ leftover => PendingWith(DecisionsHash(p)) = {}
     /\ \E home \in Homes(S), rest \in Fresh \cup {Null} :
          /\ leftover <=> rest # Null
          /\ \A c \in S : home[c] # rest
          /\ prop' = [q \in Proposals |->
                        IF \E c \in S : home[c] = q
                        THEN ChildRow(p, ChildHash(p, CHOOSE c \in S : home[c] = q))
                        ELSE IF q = rest THEN ChildRow(p, DecisionsHash(p))
                        ELSE IF q = p THEN [prop[p] EXCEPT !.status = "split"]
                        ELSE prop[q]]
          /\ MoveRows(p, S, home)
          /\ rel' = [x \in Edges |->
                       LET moved == MovedRelation(p, S, home, x) IN
                       IF moved.removal = p THEN [moved EXCEPT !.removal = rest] ELSE moved]
          /\ dec' = [s \in DecisionSlugs |->
                       IF s \in OwnDecisions(p) THEN [dec[s] EXCEPT !.owner = rest] ELSE dec[s]]
     /\ events' = [events EXCEPT ![p].split = @ + 1]
     /\ Audited("rest", p, "split", "success")
     /\ UNCHANGED <<known, current, deleted, change, epoch, revEvents, staleSeen>>

(* Deferring some pages: the parent stays pending under a new hash. *)
SplitDefer(p, S) ==
  /\ prop[p].status = "pending"
  /\ S # {}
  /\ S \subseteq StagedConcepts(p)
  /\ S # StagedConcepts(p)
  /\ \A c \in S : PendingWith(ChildHash(p, c)) = {}
  /\ PendingWith(RemainderHash(p, S)) = {}
  /\ \E home \in Homes(S) :
       /\ prop' = [q \in Proposals |->
                     IF \E c \in S : home[c] = q
                     THEN ChildRow(p, ChildHash(p, CHOOSE c \in S : home[c] = q))
                     ELSE IF q = p THEN [prop[p] EXCEPT !.hash = RemainderHash(p, S)]
                     ELSE prop[q]]
       /\ MoveRows(p, S, home)
       /\ rel' = [x \in Edges |-> MovedRelation(p, S, home, x)]
  /\ events' = [events EXCEPT ![p].split = @ + 1]
  /\ Audited("rest", p, "split", "success")
  /\ UNCHANGED <<known, current, deleted, dec, change, epoch, revEvents, staleSeen>>

-----------------------------------------------------------------------------
Next ==
  \/ \E p \in Proposals, d \in Drafts : CreateProposal(p, d)
  \/ \E p \in Proposals, c \in Concepts, a \in {"delete", "restore"} :
       StageConceptLifecycle(p, c, a)
  \/ \E p \in Proposals, ch \in Channels : ApproveProposal(p, ch)
  \/ \E p \in Proposals : ApproveStaleMcp(p)
  \/ \E p \in Proposals : MarkFailed(p)
  \/ \E p \in Proposals : LoseMark(p)
  \/ \E p \in Proposals : ApproveStaleRest(p)
  \/ \E p \in Proposals, ch \in Channels : RejectProposal(p, ch)
  \/ \E p \in Proposals : RequestChanges(p)
  \/ \E s \in Sources : RetireSupersededProposals(s)
  \/ \E p \in Proposals : SplitFull(p)
  \/ \E p \in Proposals, S \in SUBSET Concepts : SplitDefer(p, S)

Spec == Init /\ [][Next]_vars

-----------------------------------------------------------------------------
(* Properties. *)

(* The tables hold rows of their types, and a proposal that exists a hash. *)
TypeOK ==
  /\ prop \in [Proposals -> ProposalRow]
  /\ \A p \in Proposals : prop[p].status # "none" => prop[p].hash \in Hash
  /\ rev \in [RevIds -> RevRow]
  /\ known \subseteq Concepts
  /\ current \in [Concepts -> RevIds \cup {Null}]
  /\ deleted \in [Concepts -> RevIds \cup {Null}]
  /\ claim \in [ClaimIds -> ClaimRow]
  /\ rel \in [Edges -> RelRow]
  /\ dec \in [DecisionSlugs -> DecRow]
  /\ change \in [Proposals -> ChangeRow]
  /\ epoch \in Nat
  /\ events \in [Proposals -> ProposalEvents]
  /\ revEvents \in [RevIds -> RevisionEvents]
  /\ audit \subseteq AuditEntry
  /\ staleSeen \subseteq Proposals

(* A page's `current' revisions are exactly the one its pointer names: no   *)
(* interleaving of approvals, splits, deletions and restorations leaves two *)
(* current revisions, or a pointer to a revision that is not.               *)
OneCurrentRevision ==
  \A c \in Concepts :
    {r \in RevIds : r[2].slug = c /\ rev[r].status = "current"} = {current[c]} \ {Null}

(* No lost update: of the revisions written against one base, at most one   *)
(* was ever published.                                                      *)
LinearHistory ==
  \A r1, r2 \in RevIds :
    /\ rev[r1].status \in Published /\ rev[r2].status \in Published
    /\ r1[2].slug = r2[2].slug
    /\ rev[r1].base = rev[r2].base /\ rev[r1].base # Null
    => r1 = r2

(* A deleted page comes back by a restoration.  The one other way is an     *)
(* approval staged before the page existed: its base is NULL like the       *)
(* pointer of a deleted page, so the page has two first revisions then.     *)
OnlyUnbasedResurrects ==
  \A c \in Concepts : deleted[c] # Null /\ current[c] # Null =>
    \E r1, r2 \in RevIds : /\ r1 # r2 /\ r1[2].slug = c /\ r2[2].slug = c
                           /\ rev[r1].status \in Published /\ rev[r1].base = Null
                           /\ rev[r2].status \in Published /\ rev[r2].base = Null

(* The inductive strengthening: pointers and statuses agree ...              *)
PointersAgree ==
  /\ \A c \in Concepts : current[c] # Null =>
       SlugOf(current[c]) = c /\ rev[current[c]].status = "current"
  /\ \A r \in RevIds : rev[r].status = "current" => current[SlugOf(r)] = r
  /\ \A c \in Concepts : deleted[c] # Null =>
       SlugOf(deleted[c]) = c /\ rev[deleted[c]].status = "superseded"

(* ... a proposal stages a page once, and either pages or a lifecycle       *)
(* change; an id that was not used yet owns nothing ...                     *)
StagedOnce ==
  /\ \A r1, r2 \in RevIds :
       /\ rev[r1].status = "proposed" /\ rev[r2].status = "proposed"
       /\ rev[r1].owner = rev[r2].owner /\ SlugOf(r1) = SlugOf(r2)
       => r1 = r2
  /\ \A r \in RevIds : rev[r].status # "none" =>
       /\ prop[r[1]].status # "none"
       /\ rev[r].owner \in Proposals /\ prop[rev[r].owner].status # "none"
  /\ \A r \in RevIds : rev[r].status = "proposed" => change[rev[r].owner].action = "none"
  /\ \A p \in Proposals :
       /\ prop[p].status = "none" => change[p].action = "none"
       /\ change[p].action # "none" => change[p].concept # Null /\ change[p].revision # Null

(* ... and a base is a published revision of the same page, which no        *)
(* published revision replaced while it is current or merely deleted.       *)
BasesPublished ==
  /\ \A r \in RevIds : rev[r].status # "none" /\ rev[r].base # Null =>
       SlugOf(rev[r].base) = SlugOf(r) /\ rev[rev[r].base].status \in Published
  /\ \A r \in RevIds : rev[r].status \in Published /\ rev[r].base # Null =>
       rev[r].base # current[SlugOf(r)] /\ rev[r].base # deleted[SlugOf(r)]

HistoryInv == TypeOK /\ PointersAgree /\ StagedOnce /\ BasesPublished /\ LinearHistory

(* Nothing is readable that no approval covers: a published revision, a     *)
(* claim past `proposed' and an active decision belong to approved          *)
(* proposals, whoever staged, split or took them over.                      *)
OnlyApprovedIsReadable ==
  /\ \A r \in RevIds : rev[r].status \in Published => prop[rev[r].owner].status = "approved"
  /\ \A k \in ClaimIds : claim[k].status \in {"verified", "disputed", "deprecated"}
                           => prop[claim[k].owner].status = "approved"
  /\ \A s \in DecisionSlugs : dec[s].status = "active" => prop[dec[s].owner].status = "approved"

(* Whatever became readable, an approval put there: no row of a proposal    *)
(* that is not approved, and no page back from its deletion, short of the   *)
(* approval of a page written when there was none.                          *)
ReadableByApproval == OnlyApprovedIsReadable /\ OnlyUnbasedResurrects

(* "nothing staged is orphaned on a terminal parent" (0027): an approved or *)
(* a split proposal owns no staged row and, once split, no removal marker.  *)
NothingOrphaned ==
  \A p \in Proposals : prop[p].status \in {"approved", "split"} =>
    /\ Staged(p) = {} /\ FreshClaims(p) = {} /\ OwnDecisions(p) = {}
    /\ ~\E x \in Edges : rel[x].owner = p /\ rel[x].status = "proposed"
    /\ prop[p].status = "split" => Marked(p) = {}

(* A removal under review is about a relation readers still see. *)
RemovalUnderReviewIsActive ==
  \A x \in Edges : rel[x].removal \in Pending => rel[x].status = "active"

(* Staged rows and removal markers belong to proposals that can still act   *)
(* on them.                                                                 *)
StagedRowsOwned == NothingOrphaned /\ RemovalUnderReviewIsActive

(* The outbox tells every decision once: approved, rejected and             *)
(* changes-requested events match the terminal status, and every published  *)
(* revision was announced once.                                             *)
DecisionsAnnouncedOnce ==
  /\ \A p \in Proposals :
       LET n == events[p] s == prop[p].status IN
       /\ n.approved = IF s = "approved" THEN 1 ELSE 0
       /\ n.rejected + n.changesRequested = IF s = "rejected" THEN 1 ELSE 0
       /\ n.changesRequested = IF prop[p].changesRequested THEN 1 ELSE 0
       /\ s = "split" => n.split > 0
  /\ \A r \in RevIds : revEvents[r].updated = IF rev[r].status \in Published THEN 1 ELSE 0

(* Two visible claims of different proposals that collide are both          *)
(* disputed, unless a reviewer accepted one of them as complementary.       *)
CollisionsAreDisputed ==
  \A k1, k2 \in ClaimIds :
    /\ claim[k1].status \in Visible /\ claim[k2].status \in Visible
    /\ claim[k1].owner # claim[k2].owner
    /\ Collide(k1[2], k2[2])
    /\ ~k1[2].complementary /\ ~k2[2].complementary
    => claim[k1].status = "disputed" /\ claim[k2].status = "disputed"

(* A decided proposal is never decided again, a late write of `failed'      *)
(* included.                                                                *)
TerminalIsFinal ==
  [][\A p \in Proposals : prop[p].status \in Terminal => prop'[p].status = prop[p].status]_vars

(* What a reader sees of pages, claims and relations, and of a decision: a  *)
(* superseded one stays listed beside those in force.                       *)
Readable ==
  <<current, [k \in ClaimIds |-> IF claim[k].status = "proposed" THEN "none" ELSE claim[k].status],
    {x \in Edges : rel[x].status = "active"}>>
DecisionRead(s) == IF dec[s].status \in {"active", "superseded"} THEN dec[s].status ELSE "none"

(* The step creates a proposal that stages the superseded decision anew.    *)
Restaged(s) ==
  /\ dec[s].status = "superseded"
  /\ dec'[s].status = "proposed"
  /\ \E p \in Proposals : dec'[s].owner = p /\ prop[p].status = "none" /\ prop'[p].status = "pending"

(* What the ETag is worth: under one epoch a reader is never served other   *)
(* pages, claims, relations or decisions, with one exception.  A proposal   *)
(* that stages a superseded decision anew takes it off the list before      *)
(* anybody has reviewed it, and the epoch does not tell.                    *)
EpochValidates ==
  [][\/ epoch' > epoch
     \/ /\ Readable' = Readable
        /\ \A s \in DecisionSlugs : DecisionRead(s)' = DecisionRead(s) \/ Restaged(s)]_vars

Shelf == INSTANCE PublishedPages WITH
  Pages <- Concepts, Revisions <- RevIds, SlugOf <- SlugOf,
  page <- current, grave <- deleted,
  published <- {r \in RevIds : rev[r].status \in Published},
  writtenOn <- [r \in RevIds |-> IF rev[r].status \in Published THEN rev[r].base ELSE Null],
  version <- epoch

(* The gate implements the compare-and-swap shelf of PublishedPages: what    *)
(* approvals, deletions and restorations do to the pages a reader sees.      *)
ImplementsPublishedPages == Shelf!Spec
=============================================================================
