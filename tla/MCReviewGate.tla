---------------------------- MODULE MCReviewGate ----------------------------
(* Small instances of ReviewGate and ReviewPreview: what callers submit, run *)
(* by run.                                                                   *)
EXTENDS ReviewPreview, TLC

CONSTANTS a, b,          \* pages
          h1, h2, h3,    \* input hashes
          s1, s2,        \* two versions of one source stream
          d1, d2         \* decisions

TwoPages == {a, b}
MCHashes == {h1, h2, h3}
MCSources == {s1, s2}
MCPredecessor == [s \in MCSources |-> IF s = s2 THEN s1 ELSE Null]
MCDecisionSlugs == {d1, d2}
Symmetry == Permutations(Proposals)
None == {}

Entry(slug, n) == [slug |-> slug, n |-> n]
DoubleEntries == {Entry(a, 1), Entry(b, 1), Entry(b, 2)}
TwoPageEntries == {Entry(a, 1), Entry(b, 1)}

Draft(h, srcs, entries) ==
  [hash |-> h, sources |-> srcs, entries |-> entries, claims |-> {}, relations |-> {},
   removed |-> {}, decisions |-> {}, base |-> "pointer"]

(* Two pages: a proposal over both with a relation and a decision, one that *)
(* revises the decision and a page, and one that removes the relation.      *)
Link == [from |-> a, to |-> b, kind |-> "related"]
StructureDrafts ==
  {[Draft(h1, {s1}, {Entry(a, 1), Entry(b, 1)}) EXCEPT
       !.relations = {Link}, !.decisions = {[slug |-> d1, supersedes |-> Null]}],
   [Draft(h2, {s2}, {Entry(a, 1)}) EXCEPT
       !.relations = {Link}, !.decisions = {[slug |-> d2, supersedes |-> d1]}],
   [Draft(h3, {}, {Entry(b, 1)}) EXCEPT !.removed = {Link}]}

(* Claims: the port of a service, stated by both pages, renumbered by a     *)
(* successor, and left alone by a statement about another version.          *)
Claim(slug, ctx, o) ==
  [slug |-> slug, subject |-> "service", predicate |-> "port", context |-> ctx,
   object |-> o, from |-> 0, until |-> 9, complementary |-> FALSE, successor |-> FALSE]
Port80 == Claim(a, "", "80")
Port81 == Claim(b, "", "81")
PortNext == [Claim(b, "", "90") EXCEPT !.successor = TRUE]
PortBoth == [Claim(a, "", "91") EXCEPT !.complementary = TRUE]
MCClaims == {Port80, Port81, PortNext, PortBoth}
MCFunctional == {"port"}

(* After the claims: an author who read the pointer before staging, a      *)
(* submission that drafts one page twice, a link to a page that may not    *)
(* exist with a decision, their removal and replacement, and the removal   *)
(* of a contradiction that the same proposal states again.                 *)
Dispute == [from |-> b, to |-> a, kind |-> "contradicts"]
PageDrafts ==
  {[Draft(h1, {}, {Entry(a, 1), Entry(b, 1)}) EXCEPT !.claims = {Port80, Port81}],
   [Draft(h2, {}, {Entry(b, 1)}) EXCEPT !.claims = {Port81}],
   [Draft(h3, {}, {Entry(b, 1)}) EXCEPT !.claims = {Port81, PortNext}],
   [Draft(h3, {}, {Entry(a, 1)}) EXCEPT !.claims = {Port80, PortBoth}],
   [Draft(h2, {}, {Entry(b, 1)}) EXCEPT !.base = "explicit"],
   Draft(h3, {}, {Entry(b, 1), Entry(b, 2)}),
   [Draft(h2, {}, {}) EXCEPT
       !.decisions = {[slug |-> d1, supersedes |-> Null], [slug |-> d2, supersedes |-> d1]}],
   [Draft(h1, {}, {Entry(a, 1)}) EXCEPT
       !.relations = {Link}, !.decisions = {[slug |-> d1, supersedes |-> Null]}],
   [Draft(h2, {}, {Entry(b, 1)}) EXCEPT
       !.removed = {Link}, !.decisions = {[slug |-> d2, supersedes |-> d1]}],
   [Draft(h1, {}, {Entry(b, 1)}) EXCEPT !.claims = {Port81}, !.removed = {Dispute}]}
=============================================================================
