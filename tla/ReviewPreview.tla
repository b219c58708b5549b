--------------------------- MODULE ReviewPreview ---------------------------
(***************************************************************************)
(* What a reviewer is shown before deciding: the flags of the proposal's   *)
(* diff (getProposal) and the findings of its lint (lintProposal).  They   *)
(* are queries of their own, written to foretell what wk_apply_proposal    *)
(* will do; nothing but agreement of their conditions keeps them true.     *)
(***************************************************************************)
EXTENDS ReviewGate

(* The diff: pages that moved on since they were drafted, ... *)
StalePages(p) ==
  {SlugOf(r) : r \in {q \in Staged(p) : current[SlugOf(q)] # rev[q].base}}

(* ... or since their deletion or restoration was staged, ... *)
StaleLifecycle(p) ==
  {c \in Concepts :
     /\ change[p].concept = c
     /\ IF change[p].action = "delete"
        THEN current[c] # change[p].revision
        ELSE deleted[c] # change[p].revision \/ current[c] # Null}

(* Mutant: rivals that are disputed already are not looked at. *)
CollidesVerifiedOnly(p) ==
  {f \in FreshClaims(p) :
     /\ ~f[2].complementary
     /\ \E k \in ClaimIds : /\ claim[k].status = "verified" /\ claim[k].owner # p
                            /\ claim[f].supersedes # k
                            /\ Collide(f[2], k[2])}

(* ... claims that will be disputed, ... *)
Collides(p) ==
  {f \in FreshClaims(p) :
     /\ ~f[2].complementary
     /\ \E k \in ClaimIds : /\ claim[k].status \in Visible /\ claim[k].owner # p
                            /\ claim[f].supersedes # k
                            /\ Collide(f[2], k[2])}

(* ... relations that will go, decisions that will be replaced. *)
RelationsRemoved(p) == {x \in Edges : rel[x].removal = p}
DecisionsReplaced(p) == {dec[s].supersedes : s \in OwnDecisions(p)} \ {Null}

(* The lint: staged claims with the visible claim they collide with, ... *)
LintContradictions(p) ==
  {pair \in ClaimIds \X ClaimIds :
     LET f == pair[1]
         k == pair[2]
     IN /\ claim[f].owner = p /\ claim[f].status = "proposed"
        /\ ~f[2].complementary
        /\ claim[k].owner # p /\ claim[k].status \in Visible
        /\ Collide(f[2], k[2])
        /\ claim[f].supersedes # k}

(* ... staged relations to a page that is neither there nor staged. *)
LintDangling(p) ==
  {x \in Edges : /\ rel[x].owner = p /\ rel[x].status = "proposed"
                 /\ current[x.to] = Null
                 /\ x.to \notin StagedConcepts(p)}

(* The space's lint: relations into the void. *)
BrokenRelations ==
  {x \in Edges : rel[x].status = "active" /\ (current[x.from] = Null \/ current[x.to] = Null)}

-----------------------------------------------------------------------------
Approved(p) == prop[p].status = "pending" /\ prop'[p].status = "approved"
Now(k, s) == claim[k].status # s /\ claim'[k].status = s

(* "approval disputes both": what an approval disputes was flagged, in the   *)
(* diff and in the lint, on both sides.  A flag goes unfulfilled only when   *)
(* the proposal replaces every rival of the claim by other claims of its     *)
(* own, which flip 5c does before flip 5 looks.                              *)
DisputesForetold(p) ==
  /\ {f \in FreshClaims(p) : claim'[f].status = "disputed"} \subseteq Collides(p)
  /\ \A k \in ClaimIds \ FreshClaims(p) : Now(k, "disputed") =>
       \E pair \in LintContradictions(p) : pair[2] = k
  /\ \A f \in Collides(p) : \/ claim'[f].status = "disputed"
                            \/ \A pair \in LintContradictions(p) :
                                 pair[1] = f => Now(pair[2], "deprecated")

(* A relation that points into the void after the approval did so before,   *)
(* was flagged, or is an edge the approval derived from claims of a page    *)
(* that is gone; a deletion adds the relations that came after it was       *)
(* staged, which it has not marked.                                         *)
BreaksForetold(p) ==
  /\ LintDangling(p) \subseteq BrokenRelations'
  /\ BrokenRelations' \ BrokenRelations \subseteq
       LintDangling(p) \cup DerivedEdges(p)
         \cup {x \in Edges : /\ x \notin RelationsRemoved(p)
                             /\ \E c \in {x.from, x.to} : Deletes(p, c)}

(* A removal that was shown happens unless the approval derives the edge     *)
(* again, and a decision shown as replaced is no longer in force unless the  *)
(* proposal stages it itself.                                                *)
RemovalsForetold(p) ==
  /\ \A x \in RelationsRemoved(p) \ DerivedEdges(p) : rel'[x].status # "active"
  /\ \A s \in DecisionsReplaced(p) \ OwnDecisions(p) : dec'[s].status # "active"

(* An approval does what the review surfaces said it would: it succeeds only *)
(* where no stale page was shown, and its disputes, broken links and removals *)
(* are the ones shown.                                                       *)
ApprovalKeepsItsWord ==
  [][\A p \in Proposals : Approved(p) =>
       /\ StalePages(p) \cup StaleLifecycle(p) = {}
       /\ DisputesForetold(p) /\ BreaksForetold(p) /\ RemovalsForetold(p)]_vars
=============================================================================
