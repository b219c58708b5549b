-------------------------- MODULE ReviewGateProofs --------------------------
(***************************************************************************)
(* Proofs about ReviewGate, for any set of proposals, pages and drafts:    *)
(* its types, the history invariant, the refinement of PublishedPages, and *)
(* what the gate promises about the rows of a proposal and the preview a   *)
(* reviewer reads.                                                         *)
(***************************************************************************)
EXTENDS ReviewGate, ReviewPreview, TLAPS

-----------------------------------------------------------------------------
(* Type correctness, one lemma per piece of the state that is built up. *)

ProposalsTyped ==
  /\ prop \in [Proposals -> ProposalRow]
  /\ \A p \in Proposals : prop[p].status # "none" => prop[p].hash \in Hash

(* The hash createProposal stores is a digest of the caller's. *)
LEMMA InputHashType ==
  ASSUME NEW d \in Drafts
  PROVE  InputHash(d) \in Hash
<1>1. d \in DraftType
  BY DraftsAssumption
<1>2. [kind |-> "removals", slugs |-> {}, edges |-> d.removed] \in Salt
  BY <1>1 DEF DraftType, Salt
<1>3. <<>> \in Seq(Salt) /\ Append(<<>>, [kind |-> "removals", slugs |-> {}, edges |-> d.removed]) \in Seq(Salt)
  BY <1>2
<1>4. d.hash \in Hashes
  BY <1>1 DEF DraftType
<1> QED
  BY <1>3, <1>4 DEF InputHash, Digest, Hash

(* Salting keeps a hash a hash. *)
LEMMA DigestType ==
  ASSUME NEW h \in Hash, NEW kind \in {"removals", "child", "decisions", "remainder"},
         NEW slugs \in SUBSET Concepts, NEW edges \in SUBSET Edges
  PROVE  Digest(h, kind, slugs, edges) \in Hash
<1>1. [kind |-> kind, slugs |-> slugs, edges |-> edges] \in Salt
  BY DEF Salt
<1>2. Append(h.salts, [kind |-> kind, slugs |-> slugs, edges |-> edges]) \in Seq(Salt)
  BY <1>1 DEF Hash
<1> QED
  BY <1>2 DEF Digest, Hash

(* Init builds rows of the right types. *)
LEMMA InitType == Init => TypeOK
BY DEF Init, TypeOK, NoProposal, NoEvents, ProposalRow, RevRow, ClaimRow, RelRow, DecRow,
       ChangeRow, ProposalStatus, RevStatus, ClaimStatus, RelStatus, DecStatus,
       ProposalEvents, RevisionEvents

(* The rows a split moves keep their types. *)
LEMMA MoveRowsType ==
  ASSUME TypeOK, NEW p \in Proposals, NEW S \in SUBSET Concepts, NEW home \in Homes(S),
         MoveRows(p, S, home)
  PROVE  rev' \in [RevIds -> RevRow] /\ claim' \in [ClaimIds -> ClaimRow]
<1>1. home \in [S -> Proposals]
  BY DEF Homes, Fresh
<1>2. rev \in [RevIds -> RevRow] /\ claim \in [ClaimIds -> ClaimRow]
  BY DEF TypeOK
<1>3. rev' \in [RevIds -> RevRow]
  BY <1>1, <1>2 DEF MoveRows, RevRow
<1>4. claim' \in [ClaimIds -> ClaimRow]
  BY <1>1, <1>2 DEF MoveRows, ClaimRow
<1> QED
  BY <1>3, <1>4

(* The relation rows a split moves, too. *)
LEMMA MovedRelationType ==
  ASSUME TypeOK, NEW p \in Proposals, NEW S \in SUBSET Concepts, NEW home \in Homes(S),
         NEW x \in Edges
  PROVE  MovedRelation(p, S, home, x) \in RelRow
<1>1. home \in [S -> Proposals]
  BY DEF Homes, Fresh
<1>2. rel[x] \in RelRow
  BY DEF TypeOK
<1> QED
  BY <1>1, <1>2 DEF MovedRelation, RelRow

(* A child's row is a pending proposal with a hash of its own. *)
LEMMA ChildRowType ==
  ASSUME TypeOK, NEW p \in Proposals, NEW h \in Hash
  PROVE  ChildRow(p, h) \in ProposalRow /\ ChildRow(p, h).hash \in Hash
<1>1. prop[p].sources \in SUBSET Sources
  BY DEF TypeOK, ProposalRow
<1> QED
  BY <1>1 DEF ChildRow, ProposalRow, ProposalStatus

(* The hashes a split derives are hashes. *)
LEMMA ChildHashType ==
  ASSUME TypeOK, NEW p \in Proposals, prop[p].status = "pending"
  PROVE  /\ \A c \in Concepts : ChildHash(p, c) \in Hash
         /\ DecisionsHash(p) \in Hash
         /\ \A S \in SUBSET Concepts : RemainderHash(p, S) \in Hash
<1>1. prop[p].hash \in Hash
  BY DEF TypeOK
<1> QED
  BY <1>1, DigestType DEF ChildHash, DecisionsHash, RemainderHash

(* Every operation writes rows of the right types. *)
LEMMA NextType == TypeOK /\ [Next]_vars => TypeOK'
<1> SUFFICES ASSUME TypeOK, [Next]_vars PROVE TypeOK'
  OBVIOUS
<1>prop. ProposalsTyped
  BY DEF TypeOK, ProposalsTyped
<1>rev. rev \in [RevIds -> RevRow]
  BY DEF TypeOK
<1>current. current \in [Concepts -> RevIds \cup {Null}]
  BY DEF TypeOK
<1>deleted. deleted \in [Concepts -> RevIds \cup {Null}]
  BY DEF TypeOK
<1>claim. claim \in [ClaimIds -> ClaimRow]
  BY DEF TypeOK
<1>rel. rel \in [Edges -> RelRow]
  BY DEF TypeOK
<1>dec. dec \in [DecisionSlugs -> DecRow]
  BY DEF TypeOK
<1>change. change \in [Proposals -> ChangeRow]
  BY DEF TypeOK
<1>events. events \in [Proposals -> ProposalEvents]
  BY DEF TypeOK
<1>revEvents. revEvents \in [RevIds -> RevisionEvents]
  BY DEF TypeOK
<1>audit. audit \subseteq AuditEntry /\ epoch \in Nat /\ known \subseteq Concepts
  BY DEF TypeOK
<1>1. ASSUME NEW p \in Proposals, NEW d \in Drafts, CreateProposal(p, d)
      PROVE  TypeOK'
  <2>1. d \in DraftType
    BY DraftsAssumption
  <2>2. ProposalsTyped'
    <3>1. InsertProposal(p, InputHash(d), d.sources, Null) /\ InputHash(d) \in Hash
      BY <1>1, InputHashType DEF CreateProposal
    <3>2. d.sources \in SUBSET Sources
      BY <2>1 DEF DraftType
    <3> QED
      BY <1>prop, <3>1, <3>2 DEF ProposalsTyped, InsertProposal, ProposalRow, ProposalStatus
  <2>3. rev' \in [RevIds -> RevRow] /\ claim' \in [ClaimIds -> ClaimRow]
    <3>1. PICK base \in [d.entries -> RevIds \cup {Null}], sup \in [Successors(d) -> ClaimIds] :
            StageRevisions(p, d, base) /\ StageClaims(p, d, sup)
      BY <1>1 DEF CreateProposal
    <3>2. rev' \in [RevIds -> RevRow]
      BY <1>rev, <3>1 DEF StageRevisions, RevRow, RevStatus
    <3>3. \A k \in ClaimIds : k[2] \in d.claims /\ k[2].successor => sup[k[2]] \in ClaimIds
      BY <3>1 DEF Successors
    <3>4. \A k \in ClaimIds : claim'[k] \in ClaimRow
      <4> TAKE k \in ClaimIds
      <4>1. claim[k] \in ClaimRow
        BY <1>claim
      <4>2. CASE k[1] = p /\ k[2] \in d.claims /\ k[2].successor
        <5>1. claim'[k] = [status |-> "proposed", owner |-> p, supersedes |-> sup[k[2]]]
          BY <1>claim, <3>1, <4>2 DEF StageClaims
        <5> QED
          BY <3>3, <4>2, <5>1 DEF ClaimRow, ClaimStatus
      <4>3. CASE k[1] = p /\ k[2] \in d.claims /\ ~k[2].successor
        <5>1. claim'[k] = [status |-> "proposed", owner |-> p, supersedes |-> Null]
          BY <1>claim, <3>1, <4>3 DEF StageClaims
        <5> QED
          BY <5>1 DEF ClaimRow, ClaimStatus
      <4>4. CASE ~(k[1] = p /\ k[2] \in d.claims)
        BY <3>1, <4>1, <4>4 DEF StageClaims
      <4> QED
        BY <4>2, <4>3, <4>4
    <3>5. claim' \in [ClaimIds -> ClaimRow]
      BY <1>claim, <3>1, <3>4 DEF StageClaims
    <3> QED
      BY <3>2, <3>5
  <2>4. known' \subseteq Concepts
    <3>1. Slugs(d) \subseteq Concepts
      BY <2>1, EntriesAssumption DEF DraftType, Slugs
    <3>2. {x.to : x \in d.relations} \subseteq Concepts
      BY <2>1 DEF DraftType, Edges
    <3> QED
      BY <1>audit, <1>1, <3>1, <3>2 DEF CreateProposal, Touched
  <2>5. rel' \in [Edges -> RelRow]
    BY <1>rel, <1>1 DEF CreateProposal, StageRelations, RelRow, RelStatus
  <2>6. dec' \in [DecisionSlugs -> DecRow]
    <3>1. \A s \in DecisionSlugs : (\E x \in d.decisions : x.slug = s) =>
            (CHOOSE x \in d.decisions : x.slug = s) \in d.decisions
      OBVIOUS
    <3>2. \A x \in d.decisions : x.supersedes \in DecisionSlugs \cup {Null}
      BY <2>1 DEF DraftType, DecisionEntry
    <3> QED
      BY <1>dec, <1>1, <3>1, <3>2 DEF CreateProposal, StageDecisions, DecRow, DecStatus
  <2>7. events' \in [Proposals -> ProposalEvents]
    BY <1>events, <1>1 DEF CreateProposal, ProposalEvents
  <2> QED
    BY <1>1, <2>2, <2>3, <2>4, <2>5, <2>6, <2>7 DEF CreateProposal, ProposalsTyped, TypeOK
<1>2. ASSUME NEW p \in Proposals, NEW c \in Concepts, NEW a \in {"delete", "restore"},
             StageConceptLifecycle(p, c, a)
      PROVE  TypeOK'
  <2>1. PICK r \in RevIds :
          /\ InsertProposal(p, [base |-> <<a, c, r>>, salts |-> <<>>], {}, Null)
          /\ change' = [change EXCEPT ![p] = [action |-> a, concept |-> c, revision |-> r]]
    BY <1>current, <1>deleted, <1>2 DEF StageConceptLifecycle
  <2>2. [base |-> <<a, c, r>>, salts |-> <<>>] \in Hash
    <3>1. <<a, c, r>> \in {"delete", "restore"} \X Concepts \X RevIds
      OBVIOUS
    <3>2. <<>> \in Seq(Salt)
      OBVIOUS
    <3> QED
      BY <3>1, <3>2 DEF Hash
  <2>3. ProposalsTyped'
    BY <1>prop, <2>1, <2>2 DEF ProposalsTyped, InsertProposal, ProposalRow, ProposalStatus
  <2>4. change' \in [Proposals -> ChangeRow]
    BY <1>change, <2>1 DEF ChangeRow
  <2>5. rel' \in [Edges -> RelRow]
    BY <1>rel, <1>2 DEF StageConceptLifecycle, RelRow, RelStatus
  <2>6. events' \in [Proposals -> ProposalEvents]
    <3>1. events' = [events EXCEPT ![p].created = @ + 1]
      BY <1>2 DEF StageConceptLifecycle
    <3> QED
      BY <1>events, <3>1 DEF ProposalEvents
  <2> QED
    BY <1>2, <2>3, <2>4, <2>5, <2>6 DEF StageConceptLifecycle, ProposalsTyped, TypeOK
<1>3. ASSUME NEW p \in Proposals, NEW ch \in Channels, ApproveProposal(p, ch)
      PROVE  TypeOK'
  <2>1. rev' \in [RevIds -> RevRow]
    BY <1>rev, <1>3 DEF ApproveProposal, ApplyRevisions, RevRow, RevStatus
  <2>2. current' \in [Concepts -> RevIds \cup {Null}]
    <3>1. \A c \in StagedConcepts(p) : (CHOOSE r \in Staged(p) : r[2].slug = c) \in RevIds
      BY DEF StagedConcepts, Staged
    <3>2. change[p].revision \in RevIds \cup {Null}
      BY <1>change DEF ChangeRow
    <3> QED
      BY <1>current, <1>3, <3>1, <3>2 DEF ApproveProposal, ApplyPointers
  <2>3. deleted' \in [Concepts -> RevIds \cup {Null}]
    BY <1>deleted, <1>change, <1>3 DEF ApproveProposal, ApplyPointers, ChangeRow
  <2>4. claim' \in [ClaimIds -> ClaimRow]
    BY <1>claim, <1>3 DEF ApproveProposal, ApplyClaims, ClaimRow, ClaimStatus
  <2>5. rel' \in [Edges -> RelRow]
    BY <1>rel, <1>3 DEF ApproveProposal, ApplyRelations, RelRow, RelStatus
  <2>6. dec' \in [DecisionSlugs -> DecRow]
    BY <1>dec, <1>3 DEF ApproveProposal, ApplyDecisions, DecRow, DecStatus
  <2>7. ProposalsTyped' /\ epoch' \in Nat
    BY <1>prop, <1>audit, <1>3 DEF ApproveProposal, ProposalsTyped, ProposalRow, ProposalStatus
  <2>8. events' \in [Proposals -> ProposalEvents]
    BY <1>events, <1>3 DEF ApproveProposal, ProposalEvents
  <2>9. revEvents' \in [RevIds -> RevisionEvents]
    BY <1>revEvents, <1>3 DEF ApproveProposal, ApplyRevisionEvents, RevisionEvents
  <2>10. audit' \subseteq AuditEntry
    BY <1>audit, <1>3 DEF ApproveProposal, Audited, AuditEntry
  <2> QED
    BY <1>3, <2>1, <2>2, <2>3, <2>4, <2>5, <2>6, <2>7, <2>8, <2>9, <2>10 DEF ApproveProposal, ProposalsTyped, TypeOK
<1>4. ASSUME NEW p \in Proposals, ApproveStaleMcp(p) PROVE TypeOK'
  BY <1>4 DEF ApproveStaleMcp, ProposalsTyped, TypeOK
<1>5. ASSUME NEW p \in Proposals, MarkFailed(p) PROVE TypeOK'
  <2>1. ProposalsTyped'
    BY <1>prop, <1>5 DEF MarkFailed, ProposalsTyped, ProposalRow, ProposalStatus
  <2> QED
    BY <1>5, <2>1 DEF MarkFailed, ProposalsTyped, TypeOK
<1>6. ASSUME NEW p \in Proposals, LoseMark(p) PROVE TypeOK'
  BY <1>6 DEF LoseMark, ProposalsTyped, TypeOK
<1>7. ASSUME NEW p \in Proposals, ApproveStaleRest(p) PROVE TypeOK'
  <2>1. audit' \subseteq AuditEntry
    BY <1>audit, <1>7 DEF ApproveStaleRest, Audited, AuditEntry
  <2> QED
    BY <1>7, <2>1 DEF ApproveStaleRest, ProposalsTyped, TypeOK
<1>8. ASSUME NEW p \in Proposals, NEW ch \in Channels, RejectProposal(p, ch) PROVE TypeOK'
  <2>1. rev' \in [RevIds -> RevRow] /\ rel' \in [Edges -> RelRow]
    BY <1>rev, <1>rel, <1>8 DEF RejectProposal, RejectRows, RevRow, RevStatus, RelRow, RelStatus
  <2>2. ProposalsTyped' /\ events' \in [Proposals -> ProposalEvents]
    <3>1. /\ prop' = [prop EXCEPT ![p].status = "rejected"]
          /\ events' = [events EXCEPT ![p].rejected = @ + 1]
          /\ prop[p].status = "pending"
      BY <1>8 DEF RejectProposal
    <3>2. ProposalsTyped'
      BY <1>prop, <3>1 DEF ProposalsTyped, ProposalRow, ProposalStatus
    <3>3. events' \in [Proposals -> ProposalEvents]
      BY <1>events, <3>1 DEF ProposalEvents
    <3> QED
      BY <3>2, <3>3
  <2>3. audit' \subseteq AuditEntry
    BY <1>audit, <1>8 DEF RejectProposal, Audited, AuditEntry
  <2> QED
    BY <1>8, <2>1, <2>2, <2>3 DEF RejectProposal, ProposalsTyped, TypeOK
<1>9. ASSUME NEW p \in Proposals, RequestChanges(p) PROVE TypeOK'
  <2>1. rev' \in [RevIds -> RevRow] /\ rel' \in [Edges -> RelRow]
    BY <1>rev, <1>rel, <1>9 DEF RequestChanges, RejectRows, RevRow, RevStatus, RelRow, RelStatus
  <2>2. ProposalsTyped' /\ events' \in [Proposals -> ProposalEvents]
    <3>1. /\ prop' = [prop EXCEPT ![p].status = "rejected", ![p].changesRequested = TRUE]
          /\ events' = [events EXCEPT ![p].changesRequested = @ + 1]
          /\ prop[p].status = "pending"
      BY <1>9 DEF RequestChanges
    <3>2. ProposalsTyped'
      BY <1>prop, <3>1 DEF ProposalsTyped, ProposalRow, ProposalStatus
    <3>3. events' \in [Proposals -> ProposalEvents]
      BY <1>events, <3>1 DEF ProposalEvents
    <3> QED
      BY <3>2, <3>3
  <2>3. audit' \subseteq AuditEntry
    BY <1>audit, <1>9 DEF RequestChanges, Audited, AuditEntry
  <2> QED
    BY <1>9, <2>1, <2>2, <2>3 DEF RequestChanges, ProposalsTyped, TypeOK
<1>10. ASSUME NEW s \in Sources, RetireSupersededProposals(s) PROVE TypeOK'
  <2>1. ProposalsTyped'
    BY <1>prop, <1>10 DEF RetireSupersededProposals, Pending, ProposalsTyped, ProposalRow, ProposalStatus
  <2> QED
    BY <1>10, <2>1 DEF RetireSupersededProposals, ProposalsTyped, TypeOK
<1>11. ASSUME NEW p \in Proposals, SplitFull(p) PROVE TypeOK'
  <2> DEFINE S == StagedConcepts(p)
             leftover == OwnDecisions(p) # {} \/ LeftoverMarks(p, S) # {}
  <2>1. PICK home \in Homes(S), rest \in Fresh \cup {Null} :
          /\ leftover <=> rest # Null
          /\ \A c \in S : home[c] # rest
          /\ prop' = [q \in Proposals |->
                        IF \E c \in S : home[c] = q
                        THEN ChildRow(p, ChildHash(p, CHOOSE c \in S : home[c] = q))
                        ELSE IF q = rest THEN ChildRow(p, DecisionsHash(p))
                        ELSE IF q = p THEN [prop[p] EXCEPT !.status = "split"]
                        ELSE prop[q]]
          /\ MoveRows(p, S, home)
          /\ rel' = [x \in Edges |->
                       LET moved == MovedRelation(p, S, home, x) IN
                       IF moved.removal = p THEN [moved EXCEPT !.removal = rest] ELSE moved]
          /\ dec' = [s \in DecisionSlugs |->
                       IF s \in OwnDecisions(p) THEN [dec[s] EXCEPT !.owner = rest] ELSE dec[s]]
    BY <1>11 DEF SplitFull
  <2>2. S \in SUBSET Concepts
    BY EntriesAssumption DEF StagedConcepts, Staged, RevIds
  <2>3. rest \in Proposals \cup {Null} /\ prop[p].status = "pending"
    BY <1>11 DEF SplitFull, Fresh
  <2>4. \A q \in Proposals : prop'[q] \in ProposalRow /\ (prop'[q].status # "none" => prop'[q].hash \in Hash)
    <3> TAKE q \in Proposals
    <3>1. CASE \E c \in S : home[c] = q
      <4>1. PICK c \in S : prop'[q] = ChildRow(p, ChildHash(p, c))
        BY <2>1, <3>1
      <4> QED
        BY <2>2, <2>3, <4>1, ChildHashType, ChildRowType
    <3>2. CASE ~(\E c \in S : home[c] = q) /\ q = rest
      BY <2>1, <2>3, <3>2, ChildHashType, ChildRowType
    <3>3. CASE ~(\E c \in S : home[c] = q) /\ q # rest
      BY <1>prop, <2>1, <2>3, <3>3 DEF ProposalsTyped, ProposalRow, ProposalStatus
    <3> QED
      BY <3>1, <3>2, <3>3
  <2>5. prop' \in [Proposals -> ProposalRow]
    BY <2>1, <2>4
  <2>6. rel' \in [Edges -> RelRow]
    <3> DEFINE moved(x) == MovedRelation(p, S, home, x)
    <3>1. \A x \in Edges : moved(x) \in RelRow
      BY <2>1, <2>2, MovedRelationType
    <3>2. rel' = [x \in Edges |-> IF moved(x).removal = p THEN [moved(x) EXCEPT !.removal = rest] ELSE moved(x)]
      BY <2>1
    <3> HIDE DEF moved
    <3> QED
      BY <2>3, <3>1, <3>2 DEF RelRow
  <2>7. dec' \in [DecisionSlugs -> DecRow]
    BY <1>dec, <2>1, <2>3 DEF DecRow
  <2>8. events' \in [Proposals -> ProposalEvents]
    BY <1>events, <1>11 DEF SplitFull, ProposalEvents
  <2>9. audit' \subseteq AuditEntry
    BY <1>audit, <1>11 DEF SplitFull, Audited, AuditEntry
  <2> QED
    BY <1>11, <2>1, <2>2, <2>4, <2>5, <2>6, <2>7, <2>8, <2>9, MoveRowsType DEF SplitFull, ProposalsTyped, TypeOK
<1>12. ASSUME NEW p \in Proposals, NEW S \in SUBSET Concepts, SplitDefer(p, S) PROVE TypeOK'
  <2>1. PICK home \in Homes(S) :
          /\ prop' = [q \in Proposals |->
                        IF \E c \in S : home[c] = q
                        THEN ChildRow(p, ChildHash(p, CHOOSE c \in S : home[c] = q))
                        ELSE IF q = p THEN [prop[p] EXCEPT !.hash = RemainderHash(p, S)]
                        ELSE prop[q]]
          /\ MoveRows(p, S, home)
          /\ rel' = [x \in Edges |-> MovedRelation(p, S, home, x)]
    BY <1>12 DEF SplitDefer
  <2>2. prop[p].status = "pending"
    BY <1>12 DEF SplitDefer
  <2>3. \A q \in Proposals : prop'[q] \in ProposalRow /\ (prop'[q].status # "none" => prop'[q].hash \in Hash)
    <3> TAKE q \in Proposals
    <3>1. CASE \E c \in S : home[c] = q
      <4>1. PICK c \in S : prop'[q] = ChildRow(p, ChildHash(p, c))
        BY <2>1, <3>1
      <4> QED
        BY <2>2, <4>1, ChildHashType, ChildRowType
    <3>2. CASE ~(\E c \in S : home[c] = q)
      <4>1. RemainderHash(p, S) \in Hash
        BY <2>2, ChildHashType
      <4> QED
        BY <1>prop, <2>1, <3>2, <4>1 DEF ProposalsTyped, ProposalRow, ProposalStatus
    <3> QED
      BY <3>1, <3>2
  <2>4. prop' \in [Proposals -> ProposalRow]
    BY <2>1, <2>3
  <2>5. rel' \in [Edges -> RelRow]
    BY <2>1, MovedRelationType
  <2>6. events' \in [Proposals -> ProposalEvents]
    BY <1>events, <1>12 DEF SplitDefer, ProposalEvents
  <2>7. audit' \subseteq AuditEntry
    BY <1>audit, <1>12 DEF SplitDefer, Audited, AuditEntry
  <2> QED
    BY <1>12, <2>1, <2>3, <2>4, <2>5, <2>6, <2>7, MoveRowsType DEF SplitDefer, ProposalsTyped, TypeOK
<1>13. ASSUME UNCHANGED vars PROVE TypeOK'
  BY <1>13 DEF vars, ProposalsTyped, TypeOK
<1> QED
  BY <1>1, <1>2, <1>3, <1>4, <1>5, <1>6, <1>7, <1>8, <1>9, <1>10, <1>11, <1>12, <1>13 DEF Next

(* The tables only ever hold rows of their types, whatever the reviewers,   *)
(* authors and crashes do.                                                  *)
THEOREM TypeCorrect == Spec => []TypeOK
BY InitType, NextType, PTL DEF Spec

-----------------------------------------------------------------------------
(* One current revision and a linear history. *)

(* What HistoryInv is for. *)
LEMMA HistoryInvSuffices == HistoryInv => OneCurrentRevision
<1> SUFFICES ASSUME HistoryInv, NEW c \in Concepts
             PROVE {r \in RevIds : r[2].slug = c /\ rev[r].status = "current"} = {current[c]} \ {Null}
  BY DEF OneCurrentRevision
<1>1. current[c] \in RevIds \cup {Null}
  BY DEF HistoryInv, TypeOK
<1>2. \A r \in RevIds : r[2].slug = c /\ rev[r].status = "current" => r = current[c] /\ r # Null
  BY NullAssumption DEF HistoryInv, PointersAgree, SlugOf
<1>3. current[c] # Null => current[c][2].slug = c /\ rev[current[c]].status = "current"
  BY DEF HistoryInv, PointersAgree, SlugOf
<1> QED
  BY <1>1, <1>2, <1>3

(* The empty space satisfies the strengthening. *)
LEMMA InitHistory == Init => HistoryInv
<1> SUFFICES ASSUME Init PROVE HistoryInv
  OBVIOUS
<1>1. \A r \in RevIds : SlugOf(r) \in Concepts
  BY EntriesAssumption DEF SlugOf, RevIds
<1> QED
  BY <1>1, InitType DEF Init, HistoryInv, PointersAgree, StagedOnce, BasesPublished, LinearHistory,
     NoProposal, Published

(* A step that publishes nothing: at most it rejects staged revisions or    *)
(* stages a page's deletion or restoration under a fresh id.                *)
LEMMA QuietStep ==
  ASSUME HistoryInv, TypeOK', current' = current, deleted' = deleted,
         \A r \in RevIds :
           /\ rev'[r].base = rev[r].base
           /\ rev'[r].owner = rev[r].owner
           /\ \/ rev'[r].status = rev[r].status
              \/ rev[r].status = "proposed" /\ rev'[r].status = "rejected",
         \A p \in Proposals : prop'[p].status = "none" => prop[p].status = "none",
         \A p \in Proposals :
           \/ change'[p] = change[p]
           \/ /\ prop[p].status = "none"
              /\ prop'[p].status # "none"
              /\ change'[p].concept # Null
              /\ change'[p].revision # Null
  PROVE  HistoryInv'
<1>1. /\ current \in [Concepts -> RevIds \cup {Null}]
      /\ deleted \in [Concepts -> RevIds \cup {Null}]
      /\ \A r \in RevIds : rev[r].base \in RevIds \cup {Null}
      /\ \A r \in RevIds : r[1] \in Proposals
  BY DEF HistoryInv, TypeOK, RevRow, RevIds
<1>2. PointersAgree'
  BY <1>1 DEF HistoryInv, PointersAgree
<1>3. StagedOnce'
  BY <1>1 DEF HistoryInv, StagedOnce
<1>4. BasesPublished'
  BY <1>1 DEF HistoryInv, BasesPublished, Published
<1>5. LinearHistory'
  BY <1>1 DEF HistoryInv, LinearHistory, Published
<1> QED
  BY <1>2, <1>3, <1>4, <1>5 DEF HistoryInv

(* Approving staged pages: the staged revisions become current, what they   *)
(* were written against is superseded, and all pointers follow.             *)
LEMMA ApprovePagesStep ==
  ASSUME HistoryInv, TypeOK', NEW p \in Proposals, ~StaleRevision(p),
         change[p].action = "none", ApplyRevisions(p), ApplyPointers(p), change' = change,
         \A q \in Proposals : prop'[q].status = "none" => prop[q].status = "none"
  PROVE  HistoryInv'
<1> DEFINE Pages == StagedConcepts(p)
<1>1. /\ current \in [Concepts -> RevIds \cup {Null}]
      /\ deleted \in [Concepts -> RevIds \cup {Null}]
      /\ \A r \in RevIds : rev[r].base \in RevIds \cup {Null}
      /\ \A r \in RevIds : r[1] \in Proposals /\ SlugOf(r) \in Concepts
      /\ Null \notin RevIds
  BY NullAssumption, EntriesAssumption DEF HistoryInv, TypeOK, RevRow, RevIds, SlugOf
<1>2. \A r \in RevIds : r \in Staged(p) <=> rev[r].status = "proposed" /\ rev[r].owner = p
  BY DEF Staged
<1>3. \A c : c \in Pages <=> \E r \in RevIds : r \in Staged(p) /\ SlugOf(r) = c
  BY DEF StagedConcepts, SlugOf, Staged
<1>4. \A r \in RevIds :
        /\ rev'[r].base = rev[r].base
        /\ rev'[r].owner = rev[r].owner
        /\ r \in Staged(p) => rev'[r].status = "current"
        /\ r \notin Staged(p) /\ r = current[SlugOf(r)] /\ SlugOf(r) \in Pages
             => rev'[r].status = "superseded"
        /\ r \notin Staged(p) /\ ~(r = current[SlugOf(r)] /\ SlugOf(r) \in Pages)
             => rev'[r].status = rev[r].status
  BY DEF ApplyRevisions, Restores, Deletes, SlugOf, HistoryInv, TypeOK, RevRow
<1>5. deleted' = deleted
  BY <1>1 DEF ApplyPointers, Deletes, Restores
<1>6. \A r \in RevIds : r \in Staged(p) => current'[SlugOf(r)] = r /\ current[SlugOf(r)] = rev[r].base
  <2> TAKE r \in RevIds
  <2> HAVE r \in Staged(p)
  <2>1. \A r2 \in Staged(p) : r2[2].slug = SlugOf(r) => r2 = r
    BY <1>2 DEF HistoryInv, StagedOnce, SlugOf, Staged
  <2>2. (CHOOSE r2 \in Staged(p) : r2[2].slug = SlugOf(r)) = r
    BY <2>1 DEF SlugOf
  <2>3. current'[SlugOf(r)] = r
    BY <1>1, <1>3, <2>2 DEF ApplyPointers
  <2> QED
    BY <2>3 DEF StaleRevision, SlugOf
<1>7. \A c \in Concepts : c \notin Pages => current'[c] = current[c]
  BY DEF ApplyPointers, Deletes, Restores
<1> HIDE DEF Pages
<1>8. PointersAgree'
  BY <1>1, <1>2, <1>3, <1>4, <1>5, <1>6, <1>7 DEF HistoryInv, PointersAgree
<1>9. StagedOnce'
  BY <1>1, <1>2, <1>4 DEF HistoryInv, PointersAgree, StagedOnce
<1>10. BasesPublished'
  BY <1>1, <1>2, <1>3, <1>4, <1>5, <1>6, <1>7 DEF HistoryInv, PointersAgree, BasesPublished, Published
<1>11. LinearHistory'
  BY <1>1, <1>2, <1>3, <1>4, <1>6 DEF HistoryInv, PointersAgree, StagedOnce, BasesPublished, LinearHistory, Published
<1> QED
  BY <1>8, <1>9, <1>10, <1>11 DEF HistoryInv

(* Approving a deletion or a restoration. *)
LEMMA ApproveChangeStep ==
  ASSUME HistoryInv, TypeOK', NEW p \in Proposals, ~StaleChange(p),
         change[p].action # "none", ApplyRevisions(p), ApplyPointers(p), change' = change,
         \A q \in Proposals : prop'[q].status = "none" => prop[q].status = "none"
  PROVE  HistoryInv'
<1> DEFINE c == change[p].concept
           r == change[p].revision
<1>1. /\ current \in [Concepts -> RevIds \cup {Null}]
      /\ deleted \in [Concepts -> RevIds \cup {Null}]
      /\ \A q \in RevIds : rev[q].base \in RevIds \cup {Null}
      /\ \A q \in RevIds : q[1] \in Proposals /\ SlugOf(q) \in Concepts
      /\ Null \notin RevIds
  BY NullAssumption, EntriesAssumption DEF HistoryInv, TypeOK, RevRow, RevIds, SlugOf
<1>2. c \in Concepts /\ r \in RevIds /\ change[p].action \in {"delete", "restore"}
  BY DEF HistoryInv, StagedOnce, TypeOK, ChangeRow
<1>3. Staged(p) = {} /\ StagedConcepts(p) = {}
  BY DEF HistoryInv, StagedOnce, Staged, StagedConcepts
<1>4. CASE change[p].action = "delete"
  <2>1. current[c] = r /\ current' = [current EXCEPT ![c] = Null] /\ deleted' = [deleted EXCEPT ![c] = r]
    BY <1>1, <1>2, <1>3, <1>4 DEF StaleChange, ApplyPointers, Deletes, Restores
  <2>2. rev[r].status = "current" /\ SlugOf(r) = c
    BY <1>1, <1>2, <2>1 DEF HistoryInv, PointersAgree
  <2>3. \A q \in RevIds :
          /\ rev'[q].base = rev[q].base
          /\ rev'[q].owner = rev[q].owner
          /\ rev'[q].status = IF q = r THEN "superseded" ELSE rev[q].status
    BY <1>1, <1>2, <1>3, <1>4, <2>1, <2>2 DEF ApplyRevisions, Restores, Deletes, SlugOf, HistoryInv, TypeOK, RevRow
  <2> HIDE DEF c, r
  <2>4. PointersAgree'
    BY <1>1, <1>2, <2>1, <2>2, <2>3 DEF HistoryInv, PointersAgree
  <2>5. StagedOnce'
    BY <1>1, <2>2, <2>3 DEF HistoryInv, StagedOnce
  <2>6. BasesPublished'
    BY <1>1, <1>2, <2>1, <2>2, <2>3 DEF HistoryInv, PointersAgree, BasesPublished, Published
  <2>7. LinearHistory'
    BY <1>1, <2>2, <2>3 DEF HistoryInv, LinearHistory, Published
  <2> QED
    BY <2>4, <2>5, <2>6, <2>7 DEF HistoryInv
<1>5. CASE change[p].action = "restore"
  <2>1. /\ current[c] = Null /\ deleted[c] = r
        /\ current' = [current EXCEPT ![c] = r] /\ deleted' = [deleted EXCEPT ![c] = Null]
    BY <1>1, <1>2, <1>3, <1>5 DEF StaleChange, ApplyPointers, Deletes, Restores
  <2>2. rev[r].status = "superseded" /\ SlugOf(r) = c
    BY <1>1, <1>2, <2>1 DEF HistoryInv, PointersAgree
  <2>3. \A q \in RevIds :
          /\ rev'[q].base = rev[q].base
          /\ rev'[q].owner = rev[q].owner
          /\ rev'[q].status = IF q = r THEN "current" ELSE rev[q].status
    BY <1>1, <1>2, <1>3, <1>5, <2>1, <2>2 DEF ApplyRevisions, Restores, Deletes, SlugOf, HistoryInv, TypeOK, RevRow
  <2> HIDE DEF c, r
  <2>4. PointersAgree'
    BY <1>1, <1>2, <2>1, <2>2, <2>3 DEF HistoryInv, PointersAgree
  <2>5. StagedOnce'
    BY <1>1, <2>2, <2>3 DEF HistoryInv, StagedOnce
  <2>6. BasesPublished'
    BY <1>1, <1>2, <2>1, <2>2, <2>3 DEF HistoryInv, PointersAgree, BasesPublished, Published
  <2>7. LinearHistory'
    BY <1>1, <2>2, <2>3 DEF HistoryInv, LinearHistory, Published
  <2> QED
    BY <2>4, <2>5, <2>6, <2>7 DEF HistoryInv
<1> QED
  BY <1>2, <1>4, <1>5

(* Staging a draft under a fresh id: each page once, written against a      *)
(* published revision of the page or against none.                          *)
LEMMA CreateStep ==
  ASSUME HistoryInv, TypeOK', NEW p \in Proposals, NEW d \in Drafts, CreateProposal(p, d)
  PROVE  HistoryInv'
<1>1. /\ current \in [Concepts -> RevIds \cup {Null}]
      /\ deleted \in [Concepts -> RevIds \cup {Null}]
      /\ \A r \in RevIds : rev[r].base \in RevIds \cup {Null}
      /\ \A r \in RevIds : r[1] \in Proposals /\ r[2] \in Entries /\ SlugOf(r) \in Concepts
      /\ \A r1, r2 \in RevIds : r1[1] = r2[1] /\ r1[2] = r2[2] => r1 = r2
      /\ Null \notin RevIds
  BY NullAssumption, EntriesAssumption DEF HistoryInv, TypeOK, RevRow, RevIds, SlugOf
<1>2. PICK base \in [d.entries -> RevIds \cup {Null}] :
        /\ \A e \in d.entries : base[e] \in BaseChoices(d, e.slug)
        /\ StageRevisions(p, d, base)
  BY DEF CreateProposal
<1>3. \A r \in RevIds :
        /\ r[1] = p /\ r[2] \in d.entries =>
             rev'[r].status = "proposed" /\ rev'[r].base = base[r[2]] /\ rev'[r].owner = p
        /\ ~(r[1] = p /\ r[2] \in d.entries) => rev'[r] = rev[r]
  BY <1>2 DEF StageRevisions
<1>4. \A r \in RevIds : r[1] = p \/ rev[r].owner = p => rev[r].status = "none"
  BY DEF CreateProposal, HistoryInv, StagedOnce
<1>5. /\ current' = current /\ deleted' = deleted /\ change' = change
      /\ prop[p].status = "none" /\ prop'[p].status = "pending"
      /\ \A q \in Proposals : q # p => prop'[q] = prop[q]
  BY DEF CreateProposal, InsertProposal, HistoryInv, TypeOK
<1>6. \A r1, r2 \in RevIds : r1[2] \in d.entries /\ r2[2] \in d.entries /\ SlugOf(r1) = SlugOf(r2)
                               => r1[2] = r2[2]
  BY DEF CreateProposal, WellFormed, SlugOf
<1>7. \A r \in RevIds : r[2] \in d.entries /\ base[r[2]] # Null =>
        /\ base[r[2]] \in RevIds
        /\ SlugOf(base[r[2]]) = SlugOf(r)
        /\ rev[base[r[2]]].status \in Published
  <2> TAKE r \in RevIds
  <2> HAVE r[2] \in d.entries /\ base[r[2]] # Null
  <2>1. base[r[2]] \in BaseChoices(d, SlugOf(r)) /\ SlugOf(r) \in Concepts
    BY <1>1, <1>2 DEF SlugOf
  <2>2. CASE d.base = "pointer"
    BY <1>1, <2>1, <2>2 DEF BaseChoices, HistoryInv, PointersAgree, Published
  <2>3. CASE d.base # "pointer"
    BY <2>1, <2>3 DEF BaseChoices, SlugOf
  <2> QED
    BY <2>2, <2>3
<1>8. \A r \in RevIds : rev[r].status # "none" => rev'[r] = rev[r]
  BY <1>3, <1>4
<1>9. PointersAgree'
  BY <1>1, <1>3, <1>5, <1>8 DEF HistoryInv, PointersAgree
<1>10. StagedOnce'
  <2>1. \A r1, r2 \in RevIds :
          /\ rev'[r1].status = "proposed" /\ rev'[r2].status = "proposed"
          /\ rev'[r1].owner = rev'[r2].owner /\ SlugOf(r1) = SlugOf(r2)
          => r1 = r2
    BY <1>1, <1>3, <1>4, <1>6 DEF HistoryInv, StagedOnce
  <2>2. \A r \in RevIds : rev'[r].status # "none" =>
          /\ prop'[r[1]].status # "none"
          /\ rev'[r].owner \in Proposals /\ prop'[rev'[r].owner].status # "none"
    BY <1>1, <1>3, <1>5 DEF HistoryInv, StagedOnce
  <2>3. \A r \in RevIds : rev'[r].status = "proposed" => change'[rev'[r].owner].action = "none"
    BY <1>3, <1>5 DEF HistoryInv, StagedOnce
  <2>4. \A q \in Proposals :
          /\ prop'[q].status = "none" => change'[q].action = "none"
          /\ change'[q].action # "none" => change'[q].concept # Null /\ change'[q].revision # Null
    BY <1>5 DEF HistoryInv, StagedOnce
  <2> QED
    BY <2>1, <2>2, <2>3, <2>4 DEF StagedOnce
<1>11. BasesPublished'
  BY <1>1, <1>3, <1>5, <1>7, <1>8 DEF HistoryInv, BasesPublished, Published
<1>12. LinearHistory'
  BY <1>3 DEF HistoryInv, LinearHistory, Published
<1> QED
  BY <1>9, <1>10, <1>11, <1>12 DEF HistoryInv

(* A split moves staged revisions to fresh ids, the revisions of one page   *)
(* to one id.                                                               *)
LEMMA SplitStep ==
  ASSUME HistoryInv, TypeOK', NEW p \in Proposals, NEW S \in SUBSET Concepts,
         NEW home \in Homes(S), MoveRows(p, S, home), prop[p].status # "none",
         \A c \in S : prop'[home[c]].status # "none",
         \A q \in Proposals : prop'[q].status = "none" => prop[q].status = "none",
         current' = current, deleted' = deleted, change' = change
  PROVE  HistoryInv'
<1>1. /\ current \in [Concepts -> RevIds \cup {Null}]
      /\ deleted \in [Concepts -> RevIds \cup {Null}]
      /\ \A r \in RevIds : rev[r].base \in RevIds \cup {Null}
      /\ \A r \in RevIds : r[1] \in Proposals /\ SlugOf(r) \in Concepts
  BY EntriesAssumption DEF HistoryInv, TypeOK, RevRow, RevIds, SlugOf
<1>2. \A r \in RevIds :
        /\ rev'[r].base = rev[r].base
        /\ rev'[r].status = rev[r].status
        /\ rev[r].owner = p /\ rev[r].status = "proposed" /\ SlugOf(r) \in S
             => rev'[r].owner = home[SlugOf(r)]
        /\ ~(rev[r].owner = p /\ rev[r].status = "proposed" /\ SlugOf(r) \in S)
             => rev'[r].owner = rev[r].owner
  BY DEF MoveRows, Staged, SlugOf, HistoryInv, TypeOK, RevRow
<1>3. \A c \in S : home[c] \in Proposals /\ prop[home[c]].status = "none"
  BY DEF Homes, Fresh
<1>4. \A r \in RevIds, c \in S : rev[r].status # "none" => rev[r].owner # home[c]
  BY <1>3 DEF HistoryInv, StagedOnce
<1>5. PointersAgree'
  BY <1>1, <1>2 DEF HistoryInv, PointersAgree
<1>6. StagedOnce'
  <2>1. \A r1, r2 \in RevIds :
          /\ rev'[r1].status = "proposed" /\ rev'[r2].status = "proposed"
          /\ rev'[r1].owner = rev'[r2].owner /\ SlugOf(r1) = SlugOf(r2)
          => r1 = r2
    BY <1>1, <1>2, <1>4 DEF HistoryInv, StagedOnce
  <2>2. \A r \in RevIds : rev'[r].status # "none" =>
          /\ prop'[r[1]].status # "none"
          /\ rev'[r].owner \in Proposals /\ prop'[rev'[r].owner].status # "none"
    BY <1>1, <1>2, <1>3 DEF HistoryInv, StagedOnce
  <2>3. \A r \in RevIds : rev'[r].status = "proposed" => change'[rev'[r].owner].action = "none"
    BY <1>1, <1>2, <1>3 DEF HistoryInv, StagedOnce
  <2>4. \A q \in Proposals :
          /\ prop'[q].status = "none" => change'[q].action = "none"
          /\ change'[q].action # "none" => change'[q].concept # Null /\ change'[q].revision # Null
    BY DEF HistoryInv, StagedOnce
  <2> QED
    BY <2>1, <2>2, <2>3, <2>4 DEF StagedOnce
<1>7. BasesPublished'
  BY <1>1, <1>2 DEF HistoryInv, BasesPublished, Published
<1>8. LinearHistory'
  BY <1>2 DEF HistoryInv, LinearHistory, Published
<1> QED
  BY <1>5, <1>6, <1>7, <1>8 DEF HistoryInv

(* Every operation preserves it. *)
LEMMA NextHistory == HistoryInv /\ [Next]_vars => HistoryInv'
<1> SUFFICES ASSUME HistoryInv, [Next]_vars PROVE HistoryInv'
  OBVIOUS
<1> TypeOK'
  BY NextType DEF HistoryInv
<1>prop. prop \in [Proposals -> ProposalRow]
  BY DEF HistoryInv, TypeOK
<1>rev. rev \in [RevIds -> RevRow]
  BY DEF HistoryInv, TypeOK
<1>1. ASSUME NEW p \in Proposals, NEW d \in Drafts, CreateProposal(p, d)
      PROVE  HistoryInv'
  BY <1>1, CreateStep
<1>2. ASSUME NEW p \in Proposals, NEW c \in Concepts, NEW a \in {"delete", "restore"},
             StageConceptLifecycle(p, c, a)
      PROVE  HistoryInv'
  <2>1. PICK r \in RevIds :
          /\ change' = [change EXCEPT ![p] = [action |-> a, concept |-> c, revision |-> r]]
          /\ prop[p].status = "none" /\ prop'[p].status # "none"
          /\ \A q \in Proposals : q # p => prop'[q] = prop[q]
    BY <1>2, <1>prop DEF StageConceptLifecycle, InsertProposal, HistoryInv, TypeOK
  <2>2. rev' = rev /\ current' = current /\ deleted' = deleted
    BY <1>2 DEF StageConceptLifecycle
  <2>3. \A q \in Proposals : prop'[q].status = "none" => prop[q].status = "none"
    BY <2>1
  <2>4. \A q \in Proposals :
          \/ change'[q] = change[q]
          \/ /\ prop[q].status = "none"
             /\ prop'[q].status # "none"
             /\ change'[q].concept # Null
             /\ change'[q].revision # Null
    BY <2>1, NullAssumption DEF HistoryInv, TypeOK
  <2> QED
    BY <2>2, <2>3, <2>4, QuietStep
<1>3. ASSUME NEW p \in Proposals, NEW ch \in Channels, ApproveProposal(p, ch)
      PROVE  HistoryInv'
  <2>1. \A q \in Proposals : prop'[q].status = "none" => prop[q].status = "none"
    BY <1>3, <1>prop DEF ApproveProposal
  <2>2. ~StaleRevision(p) /\ ~StaleChange(p) /\ ApplyRevisions(p) /\ ApplyPointers(p) /\ change' = change
    BY <1>3 DEF ApproveProposal, Stale
  <2> QED
    BY <2>1, <2>2, ApprovePagesStep, ApproveChangeStep
<1>4. ASSUME UNCHANGED <<rev, current, deleted, change>>,
             \A q \in Proposals : prop'[q].status = "none" => prop[q].status = "none"
      PROVE  HistoryInv'
  BY <1>4, QuietStep
<1>5. ASSUME NEW p \in Proposals, RejectRows(p), UNCHANGED <<current, deleted, change>>,
             \A q \in Proposals : prop'[q].status = "none" => prop[q].status = "none"
      PROVE  HistoryInv'
  <2>1. \A r \in RevIds :
          /\ rev'[r].base = rev[r].base
          /\ rev'[r].owner = rev[r].owner
          /\ \/ rev'[r].status = rev[r].status
             \/ rev[r].status = "proposed" /\ rev'[r].status = "rejected"
    BY <1>5, <1>rev DEF RejectRows, Staged, RevRow
  <2> QED
    BY <1>5, <2>1, QuietStep
<1>6. ASSUME NEW p \in Proposals, ApproveStaleMcp(p) PROVE HistoryInv'
  BY <1>4, <1>6 DEF ApproveStaleMcp
<1>7. ASSUME NEW p \in Proposals, MarkFailed(p) PROVE HistoryInv'
  <2>1. \A q \in Proposals : prop'[q].status = "none" => prop[q].status = "none"
    BY <1>7, <1>prop DEF MarkFailed, ProposalRow
  <2> QED
    BY <1>4, <1>7, <2>1 DEF MarkFailed
<1>8. ASSUME NEW p \in Proposals, LoseMark(p) \/ ApproveStaleRest(p) PROVE HistoryInv'
  BY <1>4, <1>8 DEF LoseMark, ApproveStaleRest
<1>9. ASSUME NEW p \in Proposals, NEW ch \in Channels, RejectProposal(p, ch) PROVE HistoryInv'
  <2>1. \A q \in Proposals : prop'[q].status = "none" => prop[q].status = "none"
    BY <1>9, <1>prop DEF RejectProposal, ProposalRow
  <2> QED
    BY <1>5, <1>9, <2>1 DEF RejectProposal
<1>10. ASSUME NEW p \in Proposals, RequestChanges(p) PROVE HistoryInv'
  <2>1. \A q \in Proposals : prop'[q].status = "none" => prop[q].status = "none"
    BY <1>10, <1>prop DEF RequestChanges, ProposalRow
  <2> QED
    BY <1>5, <1>10, <2>1 DEF RequestChanges
<1>11. ASSUME NEW s \in Sources, RetireSupersededProposals(s) PROVE HistoryInv'
  <2>1. \A q \in Proposals : prop'[q].status = "none" => prop[q].status = "none"
    BY <1>11, <1>prop DEF RetireSupersededProposals, ProposalRow
  <2> QED
    BY <1>4, <1>11, <2>1 DEF RetireSupersededProposals
<1>12. ASSUME NEW p \in Proposals, SplitFull(p) PROVE HistoryInv'
  <2> DEFINE S == StagedConcepts(p)
  <2>1. PICK home \in Homes(S), rest \in Fresh \cup {Null} :
          /\ prop' = [q \in Proposals |->
                        IF \E c \in S : home[c] = q
                        THEN ChildRow(p, ChildHash(p, CHOOSE c \in S : home[c] = q))
                        ELSE IF q = rest THEN ChildRow(p, DecisionsHash(p))
                        ELSE IF q = p THEN [prop[p] EXCEPT !.status = "split"]
                        ELSE prop[q]]
          /\ MoveRows(p, S, home)
    BY <1>12 DEF SplitFull
  <2>2. S \in SUBSET Concepts /\ home \in [S -> Proposals]
    BY EntriesAssumption DEF StagedConcepts, Staged, RevIds, Homes, Fresh
  <2>3. \A c \in S : prop'[home[c]].status # "none"
    BY <2>1, <2>2 DEF ChildRow
  <2>4. \A q \in Proposals : prop'[q].status = "none" => prop[q].status = "none"
    BY <2>1, <1>prop DEF ChildRow, ProposalRow
  <2>5. prop[p].status # "none" /\ current' = current /\ deleted' = deleted /\ change' = change
    BY <1>12 DEF SplitFull
  <2> QED
    BY <2>1, <2>2, <2>3, <2>4, <2>5, SplitStep
<1>13. ASSUME NEW p \in Proposals, NEW S \in SUBSET Concepts, SplitDefer(p, S) PROVE HistoryInv'
  <2>1. PICK home \in Homes(S) :
          /\ prop' = [q \in Proposals |->
                        IF \E c \in S : home[c] = q
                        THEN ChildRow(p, ChildHash(p, CHOOSE c \in S : home[c] = q))
                        ELSE IF q = p THEN [prop[p] EXCEPT !.hash = RemainderHash(p, S)]
                        ELSE prop[q]]
          /\ MoveRows(p, S, home)
    BY <1>13 DEF SplitDefer
  <2>2. home \in [S -> Proposals]
    BY DEF Homes, Fresh
  <2>3. \A c \in S : prop'[home[c]].status # "none"
    BY <2>1, <2>2 DEF ChildRow
  <2>4. \A q \in Proposals : prop'[q].status = "none" => prop[q].status = "none"
    BY <2>1, <1>prop DEF ChildRow, ProposalRow
  <2>5. prop[p].status # "none" /\ current' = current /\ deleted' = deleted /\ change' = change
    BY <1>13 DEF SplitDefer
  <2> QED
    BY <2>1, <2>3, <2>4, <2>5, SplitStep
<1>14. ASSUME UNCHANGED vars PROVE HistoryInv'
  BY <1>4, <1>14 DEF vars
<1> QED
  BY <1>1, <1>2, <1>3, <1>6, <1>7, <1>8, <1>9, <1>10, <1>11, <1>12, <1>13, <1>14 DEF Next

(* The strengthening holds in every state of the gate. *)
THEOREM HistoryInductive == Spec => []HistoryInv
BY InitHistory, NextHistory, PTL DEF Spec

(* No page ever has two current revisions, or a pointer to a revision that  *)
(* is not current, however approvals, splits, deletions and restorations    *)
(* interleave.                                                              *)
THEOREM OneCurrent == Spec => []OneCurrentRevision
BY HistoryInductive, HistoryInvSuffices, PTL

(* wk_apply_proposal never publishes two revisions written against the same *)
(* one: no approved text is silently overwritten.                           *)
THEOREM NoLostUpdate == Spec => []LinearHistory
<1>1. HistoryInv => LinearHistory
  BY DEF HistoryInv
<1> QED
  BY <1>1, HistoryInductive, PTL

(* A decided proposal stays as it was decided: the guards on `pending', and *)
(* a split's use of fresh ids, leave no write that could reopen it.         *)
THEOREM DecidedOnce == Spec => TerminalIsFinal
<1> DEFINE Final == \A p \in Proposals : prop[p].status \in Terminal => prop'[p].status = prop[p].status
<1>1. TypeOK /\ [Next]_vars => Final
  <2> SUFFICES ASSUME TypeOK, [Next]_vars, NEW q \in Proposals, prop[q].status \in Terminal
               PROVE  prop'[q].status = prop[q].status
    OBVIOUS
  <2>prop. prop \in [Proposals -> ProposalRow] /\ prop[q].status \notin {"none", "pending"}
    BY DEF TypeOK, Terminal
  <2>1. ASSUME NEW p \in Proposals, NEW d \in Drafts, CreateProposal(p, d)
        PROVE  prop'[q].status = prop[q].status
    BY <2>prop, <2>1 DEF CreateProposal, InsertProposal
  <2>2. ASSUME NEW p \in Proposals, NEW c \in Concepts, NEW a \in {"delete", "restore"},
               StageConceptLifecycle(p, c, a)
        PROVE  prop'[q].status = prop[q].status
    BY <2>prop, <2>2 DEF StageConceptLifecycle, InsertProposal
  <2>3. ASSUME NEW p \in Proposals, NEW ch \in Channels,
               ApproveProposal(p, ch) \/ RejectProposal(p, ch)
        PROVE  prop'[q].status = prop[q].status
    BY <2>prop, <2>3 DEF ApproveProposal, RejectProposal
  <2>4. ASSUME NEW p \in Proposals, MarkFailed(p) PROVE prop'[q].status = prop[q].status
    BY <2>prop, <2>4 DEF MarkFailed, ProposalRow
  <2>5. ASSUME NEW s \in Sources, RetireSupersededProposals(s) PROVE prop'[q].status = prop[q].status
    BY <2>prop, <2>5 DEF RetireSupersededProposals, Pending
  <2>6. ASSUME NEW p \in Proposals, SplitFull(p) PROVE prop'[q].status = prop[q].status
    <3>1. PICK home \in Homes(StagedConcepts(p)), rest \in Fresh \cup {Null} :
            prop' = [r \in Proposals |->
                       IF \E c \in StagedConcepts(p) : home[c] = r
                       THEN ChildRow(p, ChildHash(p, CHOOSE c \in StagedConcepts(p) : home[c] = r))
                       ELSE IF r = rest THEN ChildRow(p, DecisionsHash(p))
                       ELSE IF r = p THEN [prop[p] EXCEPT !.status = "split"]
                       ELSE prop[r]]
      BY <2>6 DEF SplitFull
    <3>2. (\A c \in StagedConcepts(p) : home[c] # q) /\ q # rest /\ q # p
      BY <2>prop, <2>6, NullAssumption DEF SplitFull, Homes, Fresh
    <3> QED
      BY <3>1, <3>2
  <2>7. ASSUME NEW p \in Proposals, NEW S \in SUBSET Concepts, SplitDefer(p, S)
        PROVE  prop'[q].status = prop[q].status
    BY <2>prop, <2>7 DEF SplitDefer, Homes, Fresh, ProposalRow
  <2>10. ASSUME NEW p \in Proposals, RequestChanges(p) PROVE prop'[q].status = prop[q].status
    BY <2>prop, <2>10 DEF RequestChanges
  <2>8. ASSUME NEW p \in Proposals, ApproveStaleMcp(p) \/ LoseMark(p) \/ ApproveStaleRest(p)
        PROVE  prop'[q].status = prop[q].status
    BY <2>8 DEF ApproveStaleMcp, LoseMark, ApproveStaleRest
  <2>9. CASE UNCHANGED vars
    BY <2>9 DEF vars
  <2> QED
    BY <2>1, <2>2, <2>3, <2>4, <2>5, <2>6, <2>7, <2>8, <2>9, <2>10 DEF Next
<1> QED
  BY <1>1, TypeCorrect, PTL DEF Spec, TerminalIsFinal

-----------------------------------------------------------------------------
(* The gate implements PublishedPages. *)

(* A step that publishes nothing is a stutter of the shelf. *)
LEMMA ShelfStutter ==
  ASSUME current' = current, deleted' = deleted, epoch' = epoch,
         \A r \in RevIds :
           /\ rev'[r].status \in Published <=> rev[r].status \in Published
           /\ rev[r].status \in Published => rev'[r].base = rev[r].base
  PROVE  UNCHANGED Shelf!vars
BY DEF Shelf!vars

(* An approval is one publication, deletion or restoration on the shelf. *)
LEMMA ShelfApprove ==
  ASSUME HistoryInv, NEW p \in Proposals, NEW ch \in Channels, ApproveProposal(p, ch)
  PROVE  Shelf!Next
<1>1. /\ current \in [Concepts -> RevIds \cup {Null}]
      /\ deleted \in [Concepts -> RevIds \cup {Null}]
      /\ rev \in [RevIds -> RevRow]
      /\ \A r \in RevIds : SlugOf(r) \in Concepts
      /\ Null \notin RevIds
  BY NullAssumption, EntriesAssumption DEF HistoryInv, TypeOK, RevIds, SlugOf
<1>2. ~StaleRevision(p) /\ ~StaleChange(p) /\ ApplyRevisions(p) /\ ApplyPointers(p) /\ epoch' = epoch + 1
  BY DEF ApproveProposal, Stale
<1>3. CASE change[p].action = "none"
  <2>1. \A r \in RevIds :
          /\ rev'[r].base = rev[r].base
          /\ rev'[r].status \in Published <=> rev[r].status \in Published \/ r \in Staged(p)
    BY <1>1, <1>2, <1>3 DEF ApplyRevisions, Restores, Deletes, HistoryInv, PointersAgree, SlugOf, Published, RevRow
  <2>2. Staged(p) \in SUBSET RevIds /\ \A r \in Staged(p) : rev[r].status = "proposed"
    BY DEF Staged
  <2>3. \A r1, r2 \in Staged(p) : SlugOf(r1) = SlugOf(r2) => r1 = r2
    BY DEF Staged, HistoryInv, StagedOnce
  <2>4. current' = [c \in Concepts |->
                      IF \E r \in Staged(p) : SlugOf(r) = c
                      THEN CHOOSE r \in Staged(p) : SlugOf(r) = c ELSE current[c]]
    BY <1>2, <1>3 DEF ApplyPointers, Deletes, Restores, StagedConcepts, SlugOf
  <2>5. deleted' = deleted
    BY <1>1, <1>2, <1>3 DEF ApplyPointers, Deletes, Restores
  <2>6. \A r \in Staged(p) : current[SlugOf(r)] = rev[r].base
    BY <1>2 DEF StaleRevision, SlugOf
  <2>7. PICK R \in SUBSET RevIds : R = Staged(p)
    BY <2>2
  <2>8. Shelf!Publish(R)
    <3>1. R \cap {r \in RevIds : rev[r].status \in Published} = {}
      BY <2>2, <2>7 DEF Published
    <3>2. {r \in RevIds : rev'[r].status \in Published}
            = {r \in RevIds : rev[r].status \in Published} \cup R
      BY <2>1, <2>7
    <3>3. [r \in RevIds |-> IF rev'[r].status \in Published THEN rev'[r].base ELSE Null]
            = [r \in RevIds |-> IF r \in R THEN current[SlugOf(r)]
                 ELSE [q \in RevIds |-> IF rev[q].status \in Published THEN rev[q].base ELSE Null][r]]
      BY <2>1, <2>6, <2>7
    <3> QED
      BY <1>2, <2>3, <2>4, <2>5, <2>7, <3>1, <3>2, <3>3 DEF Shelf!Publish
  <2>9. {r \in RevIds : rev'[r].status \in Published} \ {r \in RevIds : rev[r].status \in Published} = R
    BY <2>1, <2>2, <2>7 DEF Published
  <2> QED
    BY <2>8, <2>9 DEF Shelf!Next, Shelf!Publish
<1>4. CASE change[p].action # "none"
  <2> DEFINE c == change[p].concept
             r == change[p].revision
  <2>1. c \in Concepts /\ r \in RevIds /\ change[p].action \in {"delete", "restore"}
    BY <1>4 DEF HistoryInv, StagedOnce, TypeOK, ChangeRow
  <2>2. Staged(p) = {} /\ StagedConcepts(p) = {}
    BY <1>4 DEF HistoryInv, StagedOnce, Staged, StagedConcepts
  <2>3. \A q \in RevIds :
          /\ rev'[q].base = rev[q].base
          /\ rev'[q].status \in Published <=> rev[q].status \in Published
    BY <1>1, <1>2, <2>2 DEF ApplyRevisions, Restores, Deletes, HistoryInv, PointersAgree, SlugOf, Published, RevRow
  <2>4. CASE change[p].action = "delete"
    <3>1. current[c] = r /\ current' = [current EXCEPT ![c] = Null] /\ deleted' = [deleted EXCEPT ![c] = r]
      BY <1>1, <1>2, <2>1, <2>2, <2>4 DEF StaleChange, ApplyPointers, Deletes, Restores
    <3>2. Shelf!Delete(c)
      BY <1>1, <1>2, <2>1, <2>3, <3>1 DEF Shelf!Delete
    <3> QED
      BY <2>1, <3>2 DEF Shelf!Next
  <2>5. CASE change[p].action = "restore"
    <3>1. /\ current[c] = Null /\ deleted[c] = r
          /\ current' = [current EXCEPT ![c] = r] /\ deleted' = [deleted EXCEPT ![c] = Null]
      BY <1>1, <1>2, <2>1, <2>2, <2>5 DEF StaleChange, ApplyPointers, Deletes, Restores
    <3>2. Shelf!Restore(c)
      BY <1>1, <1>2, <2>1, <2>3, <3>1 DEF Shelf!Restore
    <3> QED
      BY <2>1, <3>2 DEF Shelf!Next
  <2> QED
    BY <2>1, <2>4, <2>5
<1> QED
  BY <1>3, <1>4

(* Every operation of the gate is a step of the shelf or a stutter. *)
LEMMA ShelfStep == HistoryInv /\ [Next]_vars => [Shelf!Next]_(Shelf!vars)
<1> SUFFICES ASSUME HistoryInv, [Next]_vars PROVE [Shelf!Next]_(Shelf!vars)
  OBVIOUS
<1>rev. rev \in [RevIds -> RevRow]
  BY DEF HistoryInv, TypeOK
<1>1. ASSUME NEW p \in Proposals, NEW ch \in Channels, ApproveProposal(p, ch)
      PROVE  Shelf!Next
  BY <1>1, ShelfApprove
<1>2. ASSUME NEW p \in Proposals, NEW d \in Drafts, CreateProposal(p, d)
      PROVE  UNCHANGED Shelf!vars
  <2>1. \A r \in RevIds : rev'[r] = rev[r] \/ (rev[r].status = "none" /\ rev'[r].status = "proposed")
    <3>1. PICK base \in [d.entries -> RevIds \cup {Null}] : StageRevisions(p, d, base)
      BY <1>2 DEF CreateProposal
    <3>2. \A r \in RevIds : r[1] = p => rev[r].status = "none"
      BY <1>2 DEF CreateProposal, HistoryInv, StagedOnce
    <3> QED
      BY <3>1, <3>2 DEF StageRevisions
  <2>2. current' = current /\ deleted' = deleted /\ epoch' = epoch
    BY <1>2 DEF CreateProposal
  <2> QED
    BY <2>1, <2>2, ShelfStutter DEF Published
<1>3. ASSUME UNCHANGED <<rev, current, deleted, epoch>> PROVE UNCHANGED Shelf!vars
  BY <1>3, ShelfStutter
<1>4. ASSUME NEW p \in Proposals, RejectRows(p), UNCHANGED <<current, deleted, epoch>>
      PROVE  UNCHANGED Shelf!vars
  <2>1. \A r \in RevIds :
          /\ rev'[r].base = rev[r].base
          /\ rev'[r].status \in Published <=> rev[r].status \in Published
    BY <1>rev, <1>4 DEF RejectRows, Staged, RevRow, Published
  <2> QED
    BY <1>4, <2>1, ShelfStutter
<1>5. ASSUME NEW p \in Proposals, NEW S, NEW home, MoveRows(p, S, home),
             UNCHANGED <<current, deleted, epoch>>
      PROVE  UNCHANGED Shelf!vars
  <2>1. \A r \in RevIds : rev'[r].base = rev[r].base /\ rev'[r].status = rev[r].status
    BY <1>rev, <1>5 DEF MoveRows, RevRow
  <2> QED
    BY <1>5, <2>1, ShelfStutter
<1>6. ASSUME NEW p \in Proposals, NEW c \in Concepts, NEW a \in {"delete", "restore"},
             StageConceptLifecycle(p, c, a)
      PROVE  UNCHANGED Shelf!vars
  BY <1>3, <1>6 DEF StageConceptLifecycle
<1>7. ASSUME NEW p \in Proposals, ApproveStaleMcp(p) \/ MarkFailed(p) \/ LoseMark(p) \/ ApproveStaleRest(p)
      PROVE  UNCHANGED Shelf!vars
  BY <1>3, <1>7 DEF ApproveStaleMcp, MarkFailed, LoseMark, ApproveStaleRest
<1>8. ASSUME NEW p \in Proposals, NEW ch \in Channels, RejectProposal(p, ch)
      PROVE  UNCHANGED Shelf!vars
  BY <1>4, <1>8 DEF RejectProposal
<1>9. ASSUME NEW p \in Proposals, RequestChanges(p) PROVE UNCHANGED Shelf!vars
  BY <1>4, <1>9 DEF RequestChanges
<1>10. ASSUME NEW s \in Sources, RetireSupersededProposals(s) PROVE UNCHANGED Shelf!vars
  BY <1>3, <1>10 DEF RetireSupersededProposals
<1>11. ASSUME NEW p \in Proposals, SplitFull(p) PROVE UNCHANGED Shelf!vars
  <2>1. \E home : MoveRows(p, StagedConcepts(p), home)
    BY <1>11 DEF SplitFull
  <2> QED
    BY <1>5, <1>11, <2>1 DEF SplitFull
<1>12. ASSUME NEW p \in Proposals, NEW S \in SUBSET Concepts, SplitDefer(p, S)
       PROVE  UNCHANGED Shelf!vars
  <2>1. \E home : MoveRows(p, S, home)
    BY <1>12 DEF SplitDefer
  <2> QED
    BY <1>5, <1>12, <2>1 DEF SplitDefer
<1>13. CASE UNCHANGED vars
  BY <1>3, <1>13 DEF vars
<1> QED
  BY <1>1, <1>2, <1>6, <1>7, <1>8, <1>9, <1>10, <1>11, <1>12, <1>13 DEF Next

(* The empty space is the empty shelf. *)
LEMMA ShelfInit == Init => Shelf!Init
BY DEF Init, Shelf!Init, Published

(* For readers of pages the whole gate is the compare-and-swap shelf of     *)
(* PublishedPages.                                                          *)
THEOREM GateImplementsShelf == Spec => ImplementsPublishedPages
BY ShelfInit, ShelfStep, HistoryInductive, PTL DEF Spec, ImplementsPublishedPages, Shelf!Spec

-----------------------------------------------------------------------------
(***************************************************************************)
(* What the gate promises about the rows of a proposal (its revisions,     *)
(* claims, relations, decisions and events), for any set of proposals,     *)
(* pages and drafts, from the history invariant above.                     *)
(*                                                                         *)
(* The proofs go by what a step may do to a row (RevMove, ClaimMove,       *)
(* RelMove, DecMove), seen from the proposal that owns it: a row is staged *)
(* for, or moved to, a proposal that the step opens, and becomes readable  *)
(* with the approval of its owner.                                         *)
(***************************************************************************)

(* Proposals. *)

Opens(q) == q \in Proposals /\ prop[q].status = "none" /\ prop'[q].status = "pending"
Approves(q) == q \in Proposals /\ prop[q].status = "pending" /\ prop'[q].status = "approved"

(* The step neither approves nor splits q.                                  *)
Spares(q) ==
  q \in Proposals /\ prop'[q].status \in {"approved", "split"} => prop'[q].status = prop[q].status

(* Steps that change no row: a stale approval, a late or a lost mark, a     *)
(* retirement.                                                              *)
Quiet ==
  /\ UNCHANGED <<rev, current, deleted, claim, rel, dec, events, revEvents>>
  /\ \A q \in Proposals :
       /\ prop'[q].changesRequested = prop[q].changesRequested
       /\ \/ prop'[q].status = prop[q].status
          \/ prop[q].status = "pending" /\ prop'[q].status = "failed"

(* The two ways to turn a proposal down.                                    *)
Rejects(p) ==
  /\ prop[p].status = "pending"
  /\ RejectRows(p)
  /\ prop'[p].status = "rejected"
  /\ \A q \in Proposals : q # p => prop'[q] = prop[q]
  /\ UNCHANGED <<current, deleted, claim, dec, revEvents>>
  /\ \/ /\ prop'[p].changesRequested = prop[p].changesRequested
        /\ events' = [events EXCEPT ![p].rejected = @ + 1]
     \/ /\ prop'[p].changesRequested = TRUE
        /\ events' = [events EXCEPT ![p].changesRequested = @ + 1]

(* What a split does to the proposals and to the rows of its pages.         *)
SplitRows(p, S, home, rest) ==
  /\ prop[p].status = "pending"
  /\ S \subseteq StagedConcepts(p)
  /\ MoveRows(p, S, home)
  /\ \A c \in S : Opens(home[c])
  /\ rest # Null => Opens(rest)
  /\ \A q \in Proposals : Opens(q) => ~prop'[q].changesRequested
  /\ \A q \in Proposals : q # p /\ ~Opens(q) => prop'[q] = prop[q]
  /\ prop'[p].changesRequested = prop[p].changesRequested
  /\ events' = [events EXCEPT ![p].split = @ + 1]
  /\ UNCHANGED <<current, deleted, revEvents>>

SplitsFull(p, S, home, rest) ==
  /\ SplitRows(p, S, home, rest)
  /\ S = StagedConcepts(p)
  /\ prop'[p].status = "split"
  /\ OwnDecisions(p) # {} \/ LeftoverMarks(p, S) # {} => rest # Null
  /\ rel' = [x \in Edges |->
               LET moved == MovedRelation(p, S, home, x) IN
               IF moved.removal = p THEN [moved EXCEPT !.removal = rest] ELSE moved]
  /\ dec' = [s \in DecisionSlugs |->
               IF s \in OwnDecisions(p) THEN [dec[s] EXCEPT !.owner = rest] ELSE dec[s]]

Defers(p, S, home) ==
  /\ SplitRows(p, S, home, Null)
  /\ prop'[p].status = "pending"
  /\ rel' = [x \in Edges |-> MovedRelation(p, S, home, x)]
  /\ UNCHANGED dec

StageStep ==
  \/ \E p \in Proposals, d \in Drafts : CreateProposal(p, d)
  \/ \E p \in Proposals, c \in Concepts, a \in {"delete", "restore"} : StageConceptLifecycle(p, c, a)
SplitStepForm ==
  \E p \in Proposals, S \in SUBSET Concepts : \E home \in Homes(S) :
    \/ \E rest \in Fresh \cup {Null} : SplitsFull(p, S, home, rest)
    \/ Defers(p, S, home)

LEMMA SplitFullForm ==
  ASSUME TypeOK, NEW p \in Proposals, SplitFull(p)
  PROVE  SplitStepForm
<1> DEFINE S == StagedConcepts(p)
<1>0. S \in SUBSET Concepts
  BY EntriesAssumption DEF StagedConcepts, Staged, RevIds
<1>1. PICK home \in Homes(S), rest \in Fresh \cup {Null} :
        /\ OwnDecisions(p) # {} \/ LeftoverMarks(p, S) # {} <=> rest # Null
        /\ \A c \in S : home[c] # rest
        /\ prop' = [q \in Proposals |->
                      IF \E c \in S : home[c] = q
                      THEN ChildRow(p, ChildHash(p, CHOOSE c \in S : home[c] = q))
                      ELSE IF q = rest THEN ChildRow(p, DecisionsHash(p))
                      ELSE IF q = p THEN [prop[p] EXCEPT !.status = "split"]
                      ELSE prop[q]]
        /\ MoveRows(p, S, home)
        /\ rel' = [x \in Edges |->
                     LET moved == MovedRelation(p, S, home, x) IN
                     IF moved.removal = p THEN [moved EXCEPT !.removal = rest] ELSE moved]
        /\ dec' = [s \in DecisionSlugs |->
                     IF s \in OwnDecisions(p) THEN [dec[s] EXCEPT !.owner = rest] ELSE dec[s]]
  BY DEF SplitFull
<1>2. /\ prop[p].status = "pending"
      /\ events' = [events EXCEPT ![p].split = @ + 1]
      /\ UNCHANGED <<current, deleted, revEvents>>
  BY DEF SplitFull
<1> HIDE DEF S
<1>3. /\ \A c \in S : home[c] \in Proposals /\ prop[home[c]].status = "none"
      /\ rest # Null => rest \in Proposals /\ prop[rest].status = "none"
  BY DEF Homes, Fresh
<1>4. \A h : ChildRow(p, h).status = "pending" /\ ~ChildRow(p, h).changesRequested
  BY DEF ChildRow
<1>5. ASSUME NEW q \in Proposals
      PROVE  /\ (\E c \in S : home[c] = q) \/ q = rest => prop'[q].status = "pending" /\ ~prop'[q].changesRequested
             /\ ~((\E c \in S : home[c] = q) \/ q = rest) /\ q # p => prop'[q] = prop[q]
  BY <1>1, <1>4
<1>6. /\ prop'[p].status = "split" /\ prop'[p].changesRequested = prop[p].changesRequested
  <2>1. ~(\E c \in S : home[c] = p) /\ p # rest
    BY <1>2, <1>3, NullAssumption
  <2>2. prop'[p] = [prop[p] EXCEPT !.status = "split"]
    BY <1>1, <2>1
  <2> QED
    BY <2>2 DEF TypeOK, ProposalRow
<1>7. (\A c \in S : Opens(home[c])) /\ (rest # Null => Opens(rest))
  BY <1>3, <1>5 DEF Opens
<1>8. \A q \in Proposals : Opens(q) => ~prop'[q].changesRequested
  BY <1>2, <1>5, <1>6 DEF Opens
<1>9. \A q \in Proposals : q # p /\ ~Opens(q) => prop'[q] = prop[q]
  BY <1>5, <1>7, NullAssumption
<1>10. SplitRows(p, S, home, rest)
  BY <1>1, <1>2, <1>6, <1>7, <1>8, <1>9 DEF SplitRows, S
<1>11. SplitsFull(p, S, home, rest)
  BY <1>1, <1>6, <1>10 DEF SplitsFull, S
<1> QED
  BY <1>0, <1>11 DEF SplitStepForm

LEMMA SplitDeferForm ==
  ASSUME TypeOK, NEW p \in Proposals, NEW S \in SUBSET Concepts, SplitDefer(p, S)
  PROVE  SplitStepForm
<1>1. PICK home \in Homes(S) :
        /\ prop' = [q \in Proposals |->
                      IF \E c \in S : home[c] = q
                      THEN ChildRow(p, ChildHash(p, CHOOSE c \in S : home[c] = q))
                      ELSE IF q = p THEN [prop[p] EXCEPT !.hash = RemainderHash(p, S)]
                      ELSE prop[q]]
        /\ MoveRows(p, S, home)
        /\ rel' = [x \in Edges |-> MovedRelation(p, S, home, x)]
  BY DEF SplitDefer
<1>2. /\ prop[p].status = "pending" /\ S \subseteq StagedConcepts(p)
      /\ events' = [events EXCEPT ![p].split = @ + 1]
      /\ UNCHANGED <<current, deleted, dec, revEvents>>
  BY DEF SplitDefer
<1>3. \A c \in S : home[c] \in Proposals /\ prop[home[c]].status = "none"
  BY DEF Homes, Fresh
<1>4. \A h : ChildRow(p, h).status = "pending" /\ ~ChildRow(p, h).changesRequested
  BY DEF ChildRow
<1>5. ASSUME NEW q \in Proposals
      PROVE  /\ (\E c \in S : home[c] = q) => prop'[q].status = "pending" /\ ~prop'[q].changesRequested
             /\ ~(\E c \in S : home[c] = q) /\ q # p => prop'[q] = prop[q]
  BY <1>1, <1>4
<1>6. prop'[p].status = "pending" /\ prop'[p].changesRequested = prop[p].changesRequested
  <2>1. ~(\E c \in S : home[c] = p)
    BY <1>2, <1>3
  <2>2. prop'[p] = [prop[p] EXCEPT !.hash = RemainderHash(p, S)]
    BY <1>1, <2>1
  <2> QED
    BY <1>2, <2>2 DEF TypeOK, ProposalRow
<1>7. \A c \in S : Opens(home[c])
  BY <1>3, <1>5 DEF Opens
<1>8. \A q \in Proposals : Opens(q) => ~prop'[q].changesRequested
  BY <1>2, <1>5, <1>6 DEF Opens
<1>9. \A q \in Proposals : q # p /\ ~Opens(q) => prop'[q] = prop[q]
  BY <1>5, <1>7
<1>10. SplitRows(p, S, home, Null)
  BY <1>1, <1>2, <1>6, <1>7, <1>8, <1>9 DEF SplitRows
<1> QED
  BY <1>1, <1>2, <1>6, <1>10 DEF Defers, SplitStepForm

(* Every step has one of these forms.                                       *)
LEMMA StepForms ==
  TypeOK /\ [Next]_vars =>
    \/ Quiet
    \/ StageStep
    \/ \E p \in Proposals, ch \in Channels : ApproveProposal(p, ch)
    \/ \E p \in Proposals : Rejects(p)
    \/ SplitStepForm
<1> SUFFICES ASSUME TypeOK, [Next]_vars
             PROVE  \/ Quiet
                    \/ StageStep
                    \/ \E p \in Proposals, ch \in Channels : ApproveProposal(p, ch)
                    \/ \E p \in Proposals : Rejects(p)
                    \/ SplitStepForm
  OBVIOUS
<1>p. prop \in [Proposals -> ProposalRow]
  BY DEF TypeOK
<1>1. ASSUME NEW p \in Proposals, ApproveStaleMcp(p) \/ LoseMark(p) \/ ApproveStaleRest(p) PROVE Quiet
  BY <1>1 DEF ApproveStaleMcp, LoseMark, ApproveStaleRest, Quiet
<1>2. ASSUME NEW p \in Proposals, MarkFailed(p) PROVE Quiet
  <2>1. \A q \in Proposals :
          /\ prop'[q].changesRequested = prop[q].changesRequested
          /\ \/ prop'[q].status = prop[q].status
             \/ prop[q].status = "pending" /\ prop'[q].status = "failed"
    BY <1>p, <1>2 DEF MarkFailed, ProposalRow
  <2> QED
    BY <1>2, <2>1 DEF MarkFailed, Quiet
<1>3. ASSUME NEW s \in Sources, RetireSupersededProposals(s) PROVE Quiet
  <2>1. \A q \in Proposals :
          /\ prop'[q].changesRequested = prop[q].changesRequested
          /\ \/ prop'[q].status = prop[q].status
             \/ prop[q].status = "pending" /\ prop'[q].status = "failed"
    BY <1>p, <1>3 DEF RetireSupersededProposals, ProposalRow, Pending
  <2> QED
    BY <1>3, <2>1 DEF RetireSupersededProposals, Quiet
<1>4. ASSUME NEW p \in Proposals, NEW ch \in Channels, RejectProposal(p, ch) PROVE Rejects(p)
  <2>1. /\ prop'[p].status = "rejected" /\ prop'[p].changesRequested = prop[p].changesRequested
        /\ \A q \in Proposals : q # p => prop'[q] = prop[q]
    BY <1>p, <1>4 DEF RejectProposal, ProposalRow
  <2> QED
    BY <1>4, <2>1 DEF RejectProposal, Rejects
<1>5. ASSUME NEW p \in Proposals, RequestChanges(p) PROVE Rejects(p)
  <2>1. /\ prop'[p].status = "rejected" /\ prop'[p].changesRequested = TRUE
        /\ \A q \in Proposals : q # p => prop'[q] = prop[q]
    BY <1>p, <1>5 DEF RequestChanges, ProposalRow
  <2> QED
    BY <1>5, <2>1 DEF RequestChanges, Rejects
<1>6. ASSUME NEW p \in Proposals, SplitFull(p) \/ \E S \in SUBSET Concepts : SplitDefer(p, S)
      PROVE  SplitStepForm
  BY <1>6, SplitFullForm, SplitDeferForm
<1>7. CASE UNCHANGED vars
  BY <1>7 DEF vars, Quiet
<1> QED
  BY <1>1, <1>2, <1>3, <1>4, <1>5, <1>6, <1>7 DEF Next, StageStep

(* A staging step opens one proposal and leaves the others alone.           *)
LEMMA StageOpens ==
  ASSUME TypeOK, NEW p \in Proposals,
         \/ \E d \in Drafts : CreateProposal(p, d)
         \/ \E c \in Concepts, a \in {"delete", "restore"} : StageConceptLifecycle(p, c, a)
  PROVE  /\ Opens(p)
         /\ ~prop'[p].changesRequested
         /\ \A q \in Proposals : q # p => prop'[q] = prop[q]
         /\ events' = [events EXCEPT ![p].created = @ + 1]
         /\ UNCHANGED <<current, deleted, revEvents>>
<1>1. /\ prop[p].status = "none"
      /\ \E h, srcs : InsertProposal(p, h, srcs, Null)
      /\ events' = [events EXCEPT ![p].created = @ + 1]
      /\ UNCHANGED <<current, deleted, revEvents>>
  BY DEF CreateProposal, StageConceptLifecycle
<1>2. PICK h, srcs : InsertProposal(p, h, srcs, Null)
  BY <1>1
<1>3. prop' = [prop EXCEPT ![p] = [status |-> "pending", hash |-> h, sources |-> srcs,
                                   parent |-> Null, changesRequested |-> FALSE]]
  BY <1>2 DEF InsertProposal
<1> QED
  BY <1>1, <1>3 DEF TypeOK, Opens

(* An approval decides one proposal.                                        *)
LEMMA ApproveDecides ==
  ASSUME TypeOK, NEW p \in Proposals, NEW ch \in Channels, ApproveProposal(p, ch)
  PROVE  /\ Approves(p)
         /\ prop'[p].changesRequested = prop[p].changesRequested
         /\ \A q \in Proposals : q # p => prop'[q] = prop[q]
BY DEF TypeOK, ProposalRow, ApproveProposal, Approves

-----------------------------------------------------------------------------
(* Revisions. *)

RevMove(r) ==
  \/ rev'[r] = rev[r] /\ (rev[r].status = "proposed" => Spares(rev[r].owner))
  \/ rev[r].status = "none" /\ rev'[r].status = "proposed" /\ Opens(rev'[r].owner)
  \/ /\ rev[r].status = "proposed"
     /\ rev'[r].base = rev[r].base
     /\ \/ rev'[r].status = "proposed" /\ Opens(rev'[r].owner)
        \/ /\ rev'[r].owner = rev[r].owner /\ rev'[r].status = "rejected"
           /\ prop'[rev[r].owner].status = "rejected"
        \/ /\ rev'[r].owner = rev[r].owner /\ rev'[r].status = "current"
           /\ Approves(rev[r].owner)
           /\ rev[r].base = current[SlugOf(r)]
  \/ /\ rev[r].status \in Published /\ rev'[r].status \in Published
     /\ rev'[r].base = rev[r].base
     /\ rev'[r].owner = rev[r].owner

LEMMA RevMoves == HistoryInv /\ [Next]_vars => \A r \in RevIds : RevMove(r)
<1> SUFFICES ASSUME HistoryInv, [Next]_vars, NEW r \in RevIds PROVE RevMove(r)
  OBVIOUS
<1>a. TypeOK /\ rev \in [RevIds -> RevRow] /\ rev[r] \in RevRow
  BY DEF HistoryInv, TypeOK
<1>b. SlugOf(r) = r[2].slug /\ SlugOf(r) \in Concepts
  BY EntriesAssumption DEF SlugOf, RevIds
<1>1. CASE Quiet
  BY <1>1 DEF Quiet, RevMove, Spares
<1>2. ASSUME NEW p \in Proposals, NEW d \in Drafts, CreateProposal(p, d) PROVE RevMove(r)
  <2>1. PICK base \in [d.entries -> RevIds \cup {Null}] : StageRevisions(p, d, base)
    BY <1>2 DEF CreateProposal
  <2>2. Opens(p) /\ \A q \in Proposals : q # p => prop'[q] = prop[q]
    BY <1>a, <1>2, StageOpens
  <2>3. CASE r[1] = p /\ r[2] \in d.entries
    <3>1. rev'[r].status = "proposed" /\ rev'[r].owner = p
      BY <2>1, <2>3 DEF StageRevisions
    <3>2. rev[r].status = "none"
      BY <2>2, <2>3 DEF HistoryInv, StagedOnce, Opens
    <3> QED
      BY <2>2, <3>1, <3>2 DEF RevMove
  <2>4. CASE ~(r[1] = p /\ r[2] \in d.entries)
    <3>1. rev'[r] = rev[r]
      BY <2>1, <2>4 DEF StageRevisions
    <3> QED
      BY <2>2, <3>1 DEF RevMove, Spares, Opens
  <2> QED
    BY <2>3, <2>4
<1>3. ASSUME NEW p \in Proposals, NEW c \in Concepts, NEW a \in {"delete", "restore"},
             StageConceptLifecycle(p, c, a)
      PROVE  RevMove(r)
  <2>1. Opens(p) /\ \A q \in Proposals : q # p => prop'[q] = prop[q]
    BY <1>a, <1>3, StageOpens
  <2>2. rev' = rev
    BY <1>3 DEF StageConceptLifecycle
  <2> QED
    BY <2>1, <2>2 DEF RevMove, Spares, Opens
<1>4. ASSUME NEW p \in Proposals, NEW ch \in Channels, ApproveProposal(p, ch) PROVE RevMove(r)
  <2>1. Approves(p) /\ \A q \in Proposals : q # p => prop'[q] = prop[q]
    BY <1>a, <1>4, ApproveDecides
  <2>2. ApplyRevisions(p) /\ ~StaleRevision(p)
    BY <1>4 DEF ApproveProposal, Stale
  <2>3. CASE r \in Staged(p)
    <3>1. rev'[r] = [rev[r] EXCEPT !.status = "current"] /\ rev[r].owner = p /\ rev[r].status = "proposed"
      BY <2>2, <2>3 DEF ApplyRevisions, Staged
    <3>2. rev[r].base = current[SlugOf(r)]
      BY <1>b, <2>2, <2>3 DEF StaleRevision
    <3>3. rev'[r].status = "current" /\ rev'[r].owner = p /\ rev'[r].base = rev[r].base
      BY <1>a, <3>1 DEF RevRow
    <3> QED
      BY <2>1, <3>1, <3>2, <3>3 DEF RevMove
  <2>4. CASE r \notin Staged(p) /\ rev'[r] = rev[r]
    <3>1. rev[r].status = "proposed" => rev[r].owner # p
      BY <2>4 DEF Staged
    <3> QED
      BY <2>1, <2>4, <3>1 DEF RevMove, Spares
  <2>5. CASE r \notin Staged(p) /\ rev'[r] # rev[r]
    <3>1. \/ rev'[r] = [rev[r] EXCEPT !.status = "current"] /\ rev[r].status = "superseded"
          \/ rev'[r] = [rev[r] EXCEPT !.status = "superseded"] /\ r = current[SlugOf(r)]
      BY <1>b, <2>2, <2>5 DEF ApplyRevisions
    <3>2. r = current[SlugOf(r)] => rev[r].status = "current"
      BY <1>b, NullAssumption DEF HistoryInv, PointersAgree
    <3>3. rev[r].status \in Published /\ rev'[r].status \in Published
      BY <1>a, <3>1, <3>2 DEF RevRow, Published
    <3>4. rev'[r].base = rev[r].base /\ rev'[r].owner = rev[r].owner
      BY <1>a, <3>1 DEF RevRow
    <3> QED
      BY <3>3, <3>4 DEF RevMove
  <2> QED
    BY <2>3, <2>4, <2>5
<1>5. ASSUME NEW p \in Proposals, Rejects(p) PROVE RevMove(r)
  <2>1. CASE r \in Staged(p)
    <3>1. /\ rev'[r] = [rev[r] EXCEPT !.status = "rejected"] /\ rev[r].status = "proposed"
          /\ prop'[rev[r].owner].status = "rejected"
      BY <1>5, <2>1 DEF Rejects, RejectRows, Staged
    <3>2. rev'[r].status = "rejected" /\ rev'[r].owner = rev[r].owner /\ rev'[r].base = rev[r].base
      BY <1>a, <3>1 DEF RevRow
    <3> QED
      BY <3>1, <3>2 DEF RevMove
  <2>2. CASE r \notin Staged(p)
    <3>1. rev'[r] = rev[r]
      BY <1>5, <2>2 DEF Rejects, RejectRows
    <3> QED
      BY <1>5, <3>1 DEF RevMove, Spares, Rejects
  <2> QED
    BY <2>1, <2>2
<1>6. ASSUME NEW p \in Proposals, NEW S \in SUBSET Concepts, NEW home \in Homes(S),
             \/ \E rest \in Fresh \cup {Null} : SplitsFull(p, S, home, rest)
             \/ Defers(p, S, home)
      PROVE  RevMove(r)
  <2>1. PICK rest \in Fresh \cup {Null} : SplitRows(p, S, home, rest)
    BY <1>6 DEF SplitsFull, Defers
  <2>2. CASE r \in Staged(p) /\ SlugOf(r) \in S
    <3>1. rev'[r] = [rev[r] EXCEPT !.owner = home[SlugOf(r)]] /\ rev[r].status = "proposed"
      BY <1>b, <2>1, <2>2 DEF SplitRows, MoveRows, Staged
    <3>2. rev'[r].status = "proposed" /\ rev'[r].owner = home[SlugOf(r)] /\ rev'[r].base = rev[r].base
      BY <1>a, <3>1 DEF RevRow
    <3>3. Opens(home[SlugOf(r)])
      BY <2>1, <2>2 DEF SplitRows
    <3> QED
      BY <3>1, <3>2, <3>3 DEF RevMove
  <2>3. CASE ~(r \in Staged(p) /\ SlugOf(r) \in S)
    <3>1. rev'[r] = rev[r]
      BY <1>b, <2>1, <2>3 DEF SplitRows, MoveRows
    <3>2. \A q \in Proposals : q # p => Spares(q)
      BY <2>1 DEF SplitRows, Spares, Opens
    <3>3. rev[r].status = "proposed" /\ rev[r].owner = p => Spares(p)
      <4>1. CASE Defers(p, S, home)
        BY <4>1 DEF Defers, Spares
      <4>2. CASE \E t \in Fresh \cup {Null} : SplitsFull(p, S, home, t)
        BY <1>b, <2>3, <4>2 DEF SplitsFull, StagedConcepts, Staged
      <4> QED
        BY <1>6, <4>1, <4>2
    <3>4. rev[r].status = "proposed" => Spares(rev[r].owner)
      BY <3>2, <3>3 DEF Spares
    <3> QED
      BY <3>1, <3>4 DEF RevMove
  <2> QED
    BY <2>2, <2>3
<1> QED
  BY <1>a, <1>1, <1>2, <1>3, <1>4, <1>5, <1>6, StepForms DEF StageStep, SplitStepForm

-----------------------------------------------------------------------------
(* Claims, relations and decisions. *)

(* Rows belong to proposals that exist.                                     *)
OwnersKnown ==
  /\ \A k \in ClaimIds : claim[k].status # "none" =>
       prop[k[1]].status # "none" /\ claim[k].owner \in Proposals /\ prop[claim[k].owner].status # "none"
  /\ \A x \in Edges : rel[x].status = "proposed" =>
       rel[x].owner \in Proposals /\ prop[rel[x].owner].status # "none"
  /\ \A x \in Edges : rel[x].removal # Null => prop[rel[x].removal].status # "none"
  /\ \A s \in DecisionSlugs : dec[s].status # "none" =>
       dec[s].owner \in Proposals /\ prop[dec[s].owner].status # "none"

(* The claims and the relations a pending proposal stages are about pages   *)
(* it stages, so a split takes them along.                                  *)
Nested ==
  \A p \in Pending :
    /\ \A k \in FreshClaims(p) : k[2].slug \in StagedConcepts(p)
    /\ \A x \in Edges : rel[x].status = "proposed" /\ rel[x].owner = p => x.from \in StagedConcepts(p)

RowsInv == HistoryInv /\ OwnersKnown /\ Nested /\ RemovalUnderReviewIsActive

ClaimMove(k) ==
  \/ claim'[k] = claim[k] /\ (claim[k].status = "proposed" => Spares(claim[k].owner))
  \/ /\ claim[k].status \in {"none", "proposed"}
     /\ claim[k].status = "none" => Opens(k[1])
     /\ claim'[k].status = "proposed" /\ Opens(claim'[k].owner)
  \/ /\ claim'[k].owner = claim[k].owner
     /\ \/ claim[k].status = "proposed" /\ claim'[k].status \in Visible /\ Approves(claim[k].owner)
        \/ claim[k].status \in Visible /\ claim'[k].status \in {"disputed", "deprecated"}

LEMMA ClaimMoves == RowsInv /\ [Next]_vars => \A k \in ClaimIds : ClaimMove(k)
<1> SUFFICES ASSUME RowsInv, [Next]_vars, NEW k \in ClaimIds PROVE ClaimMove(k)
  OBVIOUS
<1>a. TypeOK /\ claim \in [ClaimIds -> ClaimRow] /\ claim[k] \in ClaimRow
  BY DEF RowsInv, HistoryInv, TypeOK
<1>1. CASE Quiet
  BY <1>1 DEF Quiet, ClaimMove, Spares
<1>2. ASSUME NEW p \in Proposals, NEW d \in Drafts, CreateProposal(p, d) PROVE ClaimMove(k)
  <2>1. PICK sup \in [Successors(d) -> ClaimIds] : StageClaims(p, d, sup)
    BY <1>2 DEF CreateProposal
  <2>2. Opens(p) /\ \A q \in Proposals : q # p => prop'[q] = prop[q]
    BY <1>a, <1>2, StageOpens
  <2>3. CASE k[1] = p /\ k[2] \in d.claims
    <3>1. claim'[k].status = "proposed" /\ claim'[k].owner = p
      BY <2>1, <2>3 DEF StageClaims
    <3>2. claim[k].status = "none"
      BY <2>2, <2>3 DEF RowsInv, OwnersKnown, Opens
    <3> QED
      BY <2>2, <2>3, <3>1, <3>2 DEF ClaimMove
  <2>4. CASE ~(k[1] = p /\ k[2] \in d.claims)
    <3>1. claim'[k] = claim[k]
      BY <2>1, <2>4 DEF StageClaims
    <3> QED
      BY <2>2, <3>1 DEF ClaimMove, Spares, Opens
  <2> QED
    BY <2>3, <2>4
<1>3. ASSUME NEW p \in Proposals, NEW c \in Concepts, NEW a \in {"delete", "restore"},
             StageConceptLifecycle(p, c, a)
      PROVE  ClaimMove(k)
  <2>1. Opens(p) /\ \A q \in Proposals : q # p => prop'[q] = prop[q]
    BY <1>a, <1>3, StageOpens
  <2>2. claim' = claim
    BY <1>3 DEF StageConceptLifecycle
  <2> QED
    BY <2>1, <2>2 DEF ClaimMove, Spares, Opens
<1>4. ASSUME NEW p \in Proposals, NEW ch \in Channels, ApproveProposal(p, ch) PROVE ClaimMove(k)
  <2>1. Approves(p) /\ \A q \in Proposals : q # p => prop'[q] = prop[q]
    BY <1>a, <1>4, ApproveDecides
  <2>2. claim'[k] = IF k \in DisputedClaims(p) THEN [claim[k] EXCEPT !.status = "disputed"]
                    ELSE IF k \in FreshClaims(p) THEN [claim[k] EXCEPT !.status = "verified"]
                    ELSE IF k \in ReplacedClaims(p) THEN [claim[k] EXCEPT !.status = "deprecated"]
                    ELSE claim[k]
    BY <1>4 DEF ApproveProposal, ApplyClaims
  <2>3. k \in DisputedClaims(p) => k \in FreshClaims(p) \/ claim[k].status \in Visible
    <3> SUFFICES ASSUME NEW pair \in DisputedPairs(p), k = pair[1] \/ k = pair[2]
                 PROVE  k \in FreshClaims(p) \/ claim[k].status \in Visible
      BY DEF DisputedClaims
    <3>1. pair \in FreshClaims(p) \X ClaimIds /\ claim[pair[2]].status \in Visible
      BY DEF DisputedPairs
    <3> QED
      BY <3>1
  <2>4. k \in ReplacedClaims(p) => claim[k].status \in Visible
    BY DEF ReplacedClaims
  <2>5. CASE k \in FreshClaims(p)
    <3>1. claim[k].status = "proposed" /\ claim[k].owner = p
      BY <2>5 DEF FreshClaims
    <3>2. claim'[k].status \in Visible /\ claim'[k].owner = p
      BY <1>a, <2>2, <2>5, <3>1 DEF ClaimRow, Visible
    <3> QED
      BY <2>1, <3>1, <3>2 DEF ClaimMove
  <2>6. CASE k \notin FreshClaims(p) /\ (k \in DisputedClaims(p) \/ k \in ReplacedClaims(p))
    <3>1. claim[k].status \in Visible
      BY <2>3, <2>4, <2>6
    <3>2. claim'[k].status \in {"disputed", "deprecated"} /\ claim'[k].owner = claim[k].owner
      BY <1>a, <2>2, <2>6 DEF ClaimRow
    <3> QED
      BY <3>1, <3>2 DEF ClaimMove
  <2>7. CASE k \notin FreshClaims(p) /\ k \notin DisputedClaims(p) /\ k \notin ReplacedClaims(p)
    <3>1. claim'[k] = claim[k] /\ (claim[k].status = "proposed" => claim[k].owner # p)
      BY <2>2, <2>7 DEF FreshClaims
    <3> QED
      BY <2>1, <3>1 DEF ClaimMove, Spares
  <2> QED
    BY <2>5, <2>6, <2>7
<1>5. ASSUME NEW p \in Proposals, Rejects(p) PROVE ClaimMove(k)
  BY <1>5 DEF Rejects, ClaimMove, Spares
<1>6. ASSUME NEW p \in Proposals, NEW S \in SUBSET Concepts, NEW home \in Homes(S),
             \/ \E rest \in Fresh \cup {Null} : SplitsFull(p, S, home, rest)
             \/ Defers(p, S, home)
      PROVE  ClaimMove(k)
  <2>1. PICK rest \in Fresh \cup {Null} : SplitRows(p, S, home, rest)
    BY <1>6 DEF SplitsFull, Defers
  <2>2. CASE k \in FreshClaims(p) /\ k[2].slug \in S
    <3>1. claim'[k] = [claim[k] EXCEPT !.owner = home[k[2].slug]] /\ claim[k].status = "proposed"
      BY <2>1, <2>2 DEF SplitRows, MoveRows, FreshClaims
    <3>2. claim'[k].status = "proposed" /\ claim'[k].owner = home[k[2].slug]
      BY <1>a, <3>1 DEF ClaimRow
    <3>3. Opens(home[k[2].slug])
      BY <2>1, <2>2 DEF SplitRows
    <3> QED
      BY <3>1, <3>2, <3>3 DEF ClaimMove
  <2>3. CASE ~(k \in FreshClaims(p) /\ k[2].slug \in S)
    <3>1. claim'[k] = claim[k]
      BY <2>1, <2>3 DEF SplitRows, MoveRows
    <3>2. \A q \in Proposals : q # p => Spares(q)
      BY <2>1 DEF SplitRows, Spares, Opens
    <3>3. claim[k].status = "proposed" /\ claim[k].owner = p => Spares(p)
      <4>1. CASE Defers(p, S, home)
        BY <4>1 DEF Defers, Spares
      <4>2. CASE \E t \in Fresh \cup {Null} : SplitsFull(p, S, home, t)
        <5>1. S = StagedConcepts(p) /\ p \in Pending
          BY <2>1, <4>2 DEF SplitsFull, SplitRows, Pending
        <5>2. k \in FreshClaims(p) => k[2].slug \in S
          BY <5>1 DEF RowsInv, Nested
        <5> QED
          BY <2>3, <5>2 DEF FreshClaims
      <4> QED
        BY <1>6, <4>1, <4>2
    <3>4. claim[k].status = "proposed" => Spares(claim[k].owner)
      BY <3>2, <3>3 DEF Spares
    <3> QED
      BY <3>1, <3>4 DEF ClaimMove
  <2> QED
    BY <2>2, <2>3
<1> QED
  BY <1>a, <1>1, <1>2, <1>3, <1>4, <1>5, <1>6, StepForms DEF StageStep, SplitStepForm

DecMove(s) ==
  \/ dec'[s] = dec[s] /\ (dec[s].status = "proposed" => Spares(dec[s].owner))
  \/ dec[s].status # "active" /\ dec'[s].status = "proposed" /\ Opens(dec'[s].owner)
  \/ /\ dec'[s].owner = dec[s].owner
     /\ \/ dec[s].status = "proposed" /\ dec'[s].status = "active" /\ Approves(dec[s].owner)
        \/ dec[s].status = "active" /\ dec'[s].status = "superseded"

LEMMA DecMoves == TypeOK /\ [Next]_vars => \A s \in DecisionSlugs : DecMove(s)
<1> SUFFICES ASSUME TypeOK, [Next]_vars, NEW s \in DecisionSlugs PROVE DecMove(s)
  OBVIOUS
<1>a. dec \in [DecisionSlugs -> DecRow] /\ dec[s] \in DecRow
  BY DEF TypeOK
<1>1. CASE Quiet
  BY <1>1 DEF Quiet, DecMove, Spares
<1>2. ASSUME NEW p \in Proposals, NEW d \in Drafts, CreateProposal(p, d) PROVE DecMove(s)
  <2>1. StageDecisions(p, d)
    BY <1>2 DEF CreateProposal
  <2>2. Opens(p) /\ \A q \in Proposals : q # p => prop'[q] = prop[q]
    BY <1>2, StageOpens
  <2>3. CASE dec[s].status # "active" /\ \E x \in d.decisions : x.slug = s
    <3>1. dec'[s].status = "proposed" /\ dec'[s].owner = p
      BY <2>1, <2>3 DEF StageDecisions
    <3> QED
      BY <2>2, <2>3, <3>1 DEF DecMove
  <2>4. CASE ~(dec[s].status # "active" /\ \E x \in d.decisions : x.slug = s)
    <3>1. dec'[s] = dec[s]
      BY <2>1, <2>4 DEF StageDecisions
    <3> QED
      BY <2>2, <3>1 DEF DecMove, Spares, Opens
  <2> QED
    BY <2>3, <2>4
<1>3. ASSUME NEW p \in Proposals, NEW c \in Concepts, NEW a \in {"delete", "restore"},
             StageConceptLifecycle(p, c, a)
      PROVE  DecMove(s)
  <2>1. Opens(p) /\ \A q \in Proposals : q # p => prop'[q] = prop[q]
    BY <1>3, StageOpens
  <2>2. dec' = dec
    BY <1>3 DEF StageConceptLifecycle
  <2> QED
    BY <2>1, <2>2 DEF DecMove, Spares, Opens
<1>4. ASSUME NEW p \in Proposals, NEW ch \in Channels, ApproveProposal(p, ch) PROVE DecMove(s)
  <2>1. Approves(p) /\ \A q \in Proposals : q # p => prop'[q] = prop[q]
    BY <1>4, ApproveDecides
  <2>2. dec'[s] = IF s \in FreshDecisions(p) THEN [dec[s] EXCEPT !.status = "active"]
                  ELSE IF dec[s].status = "active" /\ \E f \in FreshDecisions(p) : dec[f].supersedes = s
                  THEN [dec[s] EXCEPT !.status = "superseded"]
                  ELSE dec[s]
    BY <1>4 DEF ApproveProposal, ApplyDecisions
  <2>3. CASE s \in FreshDecisions(p)
    <3>1. dec[s].status = "proposed" /\ dec[s].owner = p
      BY <2>3 DEF FreshDecisions
    <3>2. dec'[s].status = "active" /\ dec'[s].owner = p
      BY <1>a, <2>2, <2>3, <3>1 DEF DecRow
    <3> QED
      BY <2>1, <3>1, <3>2 DEF DecMove
  <2>4. CASE s \notin FreshDecisions(p) /\ dec'[s] = dec[s]
    <3>1. dec[s].status = "proposed" => dec[s].owner # p
      BY <2>4 DEF FreshDecisions
    <3> QED
      BY <2>1, <2>4, <3>1 DEF DecMove, Spares
  <2>5. CASE s \notin FreshDecisions(p) /\ dec'[s] # dec[s]
    <3>1. dec[s].status = "active" /\ dec'[s] = [dec[s] EXCEPT !.status = "superseded"]
      BY <2>2, <2>5
    <3>2. dec'[s].status = "superseded" /\ dec'[s].owner = dec[s].owner
      BY <1>a, <3>1 DEF DecRow
    <3> QED
      BY <3>1, <3>2 DEF DecMove
  <2> QED
    BY <2>3, <2>4, <2>5
<1>5. ASSUME NEW p \in Proposals, Rejects(p) PROVE DecMove(s)
  BY <1>5 DEF Rejects, DecMove, Spares
<1>6. ASSUME NEW p \in Proposals, NEW S \in SUBSET Concepts, NEW home \in Homes(S),
             NEW rest \in Fresh \cup {Null}, SplitsFull(p, S, home, rest)
      PROVE  DecMove(s)
  <2>1. \A q \in Proposals : q # p => Spares(q)
    BY <1>6 DEF SplitsFull, SplitRows, Spares, Opens
  <2>2. CASE s \in OwnDecisions(p)
    <3>1. dec'[s] = [dec[s] EXCEPT !.owner = rest] /\ dec[s].status = "proposed"
      BY <1>6, <2>2 DEF SplitsFull, OwnDecisions
    <3>2. dec'[s].status = "proposed" /\ dec'[s].owner = rest
      BY <1>a, <3>1 DEF DecRow
    <3>3. Opens(rest)
      BY <1>6, <2>2 DEF SplitsFull, SplitRows
    <3> QED
      BY <3>1, <3>2, <3>3 DEF DecMove
  <2>3. CASE s \notin OwnDecisions(p)
    <3>1. dec'[s] = dec[s] /\ (dec[s].status = "proposed" => dec[s].owner # p)
      BY <1>6, <2>3 DEF SplitsFull, OwnDecisions
    <3>2. dec[s].status = "proposed" => Spares(dec[s].owner)
      BY <2>1, <3>1 DEF Spares
    <3> QED
      BY <3>1, <3>2 DEF DecMove
  <2> QED
    BY <2>2, <2>3
<1>7. ASSUME NEW p \in Proposals, NEW S \in SUBSET Concepts, NEW home \in Homes(S), Defers(p, S, home)
      PROVE  DecMove(s)
  <2>1. \A q \in Proposals : Spares(q)
    BY <1>7 DEF Defers, SplitRows, Spares, Opens
  <2> QED
    BY <1>7, <2>1 DEF Defers, DecMove, Spares
<1> QED
  BY <1>1, <1>2, <1>3, <1>4, <1>5, <1>6, <1>7, StepForms DEF StageStep, SplitStepForm

(* A relation and, independently, the marker of its removal.                *)
RelMove(x) ==
  /\ \/ /\ rel'[x].status = rel[x].status
        /\ rel'[x].owner = rel[x].owner
        /\ rel[x].status = "proposed" => Spares(rel[x].owner)
     \/ rel'[x].status = "proposed" /\ Opens(rel'[x].owner)
     \/ rel'[x].status \in {"active", "removed"}
  /\ \/ rel'[x].removal = Null
     \/ Opens(rel'[x].removal) /\ rel'[x].status = "active"
     \/ /\ rel[x].removal \in Proposals
        /\ rel'[x].removal = rel[x].removal
        /\ prop'[rel[x].removal].status = "split" => prop[rel[x].removal].status = "split"
        /\ prop'[rel[x].removal].status = "pending" =>
             prop[rel[x].removal].status = "pending" /\ rel'[x].status = "active"

LEMMA RelMoves == RowsInv /\ [Next]_vars => \A x \in Edges : RelMove(x)
<1> SUFFICES ASSUME RowsInv, [Next]_vars, NEW x \in Edges PROVE RelMove(x)
  OBVIOUS
<1>a. TypeOK /\ rel \in [Edges -> RelRow] /\ rel[x] \in RelRow
  BY DEF RowsInv, HistoryInv, TypeOK
<1>b. rel[x].removal = Null \/ (rel[x].removal \in Proposals /\ prop[rel[x].removal].status # "none")
  BY <1>a DEF RowsInv, OwnersKnown, RelRow
<1>c. rel[x].removal \in Proposals /\ prop[rel[x].removal].status = "pending" => rel[x].status = "active"
  BY DEF RowsInv, RemovalUnderReviewIsActive, Pending
<1>1. CASE Quiet
  BY <1>1, <1>b, <1>c DEF Quiet, RelMove, Spares
<1>2. ASSUME NEW p \in Proposals, NEW d \in Drafts, CreateProposal(p, d) PROVE RelMove(x)
  <2>1. StageRelations(p, d) /\ Stageable(d)
    BY <1>2 DEF CreateProposal
  <2>2. Opens(p) /\ \A q \in Proposals : q # p => prop'[q] = prop[q]
    BY <1>a, <1>2, StageOpens
  <2>3. \A q \in Proposals : Spares(q)
    BY <2>2 DEF Spares, Opens
  <2>4. CASE x \in d.relations /\ rel[x].status # "active"
    <3>1. rel'[x] = [rel[x] EXCEPT !.status = "proposed", !.owner = p]
      BY <2>1, <2>4 DEF StageRelations
    <3>2. rel'[x].status = "proposed" /\ rel'[x].owner = p /\ rel'[x].removal = rel[x].removal
      BY <1>a, <3>1 DEF RelRow
    <3>3. rel[x].removal \notin Pending
      BY <2>1, <2>4 DEF Stageable
    <3>4. rel[x].removal \in Proposals => prop'[rel[x].removal] = prop[rel[x].removal]
      BY <1>b, <2>2, NullAssumption DEF Opens
    <3> QED
      BY <1>b, <2>2, <3>2, <3>3, <3>4 DEF RelMove, Pending
  <2>5. CASE ~(x \in d.relations /\ rel[x].status # "active") /\ x \in d.removed
    <3>1. rel'[x] = [rel[x] EXCEPT !.removal = p]
      BY <2>1, <2>5 DEF StageRelations
    <3>2. rel'[x].status = rel[x].status /\ rel'[x].owner = rel[x].owner /\ rel'[x].removal = p
      BY <1>a, <3>1 DEF RelRow
    <3>3. rel[x].status = "active"
      BY <2>1, <2>5 DEF Stageable
    <3> QED
      BY <2>2, <3>2, <3>3 DEF RelMove
  <2>6. CASE ~(x \in d.relations /\ rel[x].status # "active") /\ x \notin d.removed
    <3>1. rel'[x] = rel[x]
      BY <2>1, <2>6 DEF StageRelations
    <3>2. rel[x].removal \in Proposals => prop'[rel[x].removal] = prop[rel[x].removal]
      BY <1>b, <2>2, NullAssumption DEF Opens
    <3>3. rel[x].status = "proposed" => Spares(rel[x].owner)
      BY <2>3 DEF Spares
    <3> QED
      BY <1>b, <1>c, <3>1, <3>2, <3>3 DEF RelMove
  <2> QED
    BY <2>4, <2>5, <2>6
<1>3. ASSUME NEW p \in Proposals, NEW c \in Concepts, NEW a \in {"delete", "restore"},
             StageConceptLifecycle(p, c, a)
      PROVE  RelMove(x)
  <2>1. Opens(p) /\ \A q \in Proposals : q # p => prop'[q] = prop[q]
    BY <1>a, <1>3, StageOpens
  <2>2. \A q \in Proposals : Spares(q)
    BY <2>1 DEF Spares, Opens
  <2>3. rel'[x] = IF a = "delete" /\ rel[x].status = "active" /\ c \in {x.from, x.to}
                  THEN [rel[x] EXCEPT !.removal = p]
                  ELSE rel[x]
    BY <1>3 DEF StageConceptLifecycle
  <2>4. CASE rel'[x] = rel[x]
    <3>1. rel[x].removal \in Proposals => prop'[rel[x].removal] = prop[rel[x].removal]
      BY <1>b, <2>1, NullAssumption DEF Opens
    <3>2. rel[x].status = "proposed" => Spares(rel[x].owner)
      BY <2>2 DEF Spares
    <3> QED
      BY <1>b, <1>c, <2>4, <3>1, <3>2 DEF RelMove
  <2>5. CASE rel'[x] # rel[x]
    <3>1. rel[x].status = "active" /\ rel'[x] = [rel[x] EXCEPT !.removal = p]
      BY <2>3, <2>5
    <3>2. rel'[x].status = "active" /\ rel'[x].removal = p
      BY <1>a, <3>1 DEF RelRow
    <3> QED
      BY <2>1, <3>2 DEF RelMove
  <2> QED
    BY <2>4, <2>5
<1>4. ASSUME NEW p \in Proposals, NEW ch \in Channels, ApproveProposal(p, ch) PROVE RelMove(x)
  <2> DEFINE activated == rel[x].status = "proposed" /\ rel[x].owner = p
             live == activated \/ rel[x].status = "active"
  <2>1. Approves(p) /\ \A q \in Proposals : q # p => prop'[q] = prop[q]
    BY <1>a, <1>4, ApproveDecides
  <2>2. rel'[x] = IF x \in DerivedEdges(p)
                  THEN [status |-> "active", removal |-> Null,
                        owner |-> IF rel[x].status = "none" THEN p ELSE rel[x].owner]
                  ELSE IF live /\ rel[x].removal = p THEN [rel[x] EXCEPT !.status = "removed"]
                  ELSE IF activated THEN [rel[x] EXCEPT !.status = "active"]
                  ELSE rel[x]
    BY <1>4 DEF ApproveProposal, ApplyRelations
  <2>3. CASE x \in DerivedEdges(p)
    <3>1. rel'[x].status = "active" /\ rel'[x].removal = Null
      BY <2>2, <2>3
    <3> QED
      BY <3>1 DEF RelMove
  <2>4. CASE x \notin DerivedEdges(p)
    <3>1. /\ rel'[x].removal = rel[x].removal
          /\ rel'[x].owner = rel[x].owner
          /\ \/ rel'[x].status = "removed" /\ rel[x].removal = p
             \/ rel'[x].status = "active"
             \/ rel'[x].status = rel[x].status /\ ~activated
      BY <1>a, <2>2, <2>4 DEF RelRow
    <3>2. \A q \in Proposals : q # p => Spares(q)
      BY <2>1 DEF Spares
    <3>3. ~activated => (rel[x].status = "proposed" => Spares(rel[x].owner))
      BY <3>2 DEF Spares
    <3>4. rel[x].removal \in Proposals =>
            /\ prop'[rel[x].removal].status = "split" => prop[rel[x].removal].status = "split"
            /\ prop'[rel[x].removal].status = "pending" =>
                 prop[rel[x].removal].status = "pending" /\ rel[x].removal # p
      BY <2>1 DEF Approves
    <3> HIDE DEF activated
    <3>5. rel[x].removal \in Proposals /\ prop'[rel[x].removal].status = "pending" => rel'[x].status = "active"
      BY <1>c, <3>1, <3>4
    <3> QED
      BY <1>b, <3>1, <3>3, <3>4, <3>5 DEF RelMove
  <2> QED
    BY <2>3, <2>4
<1>5. ASSUME NEW p \in Proposals, Rejects(p) PROVE RelMove(x)
  <2>1. rel'[x] = IF rel[x].owner = p /\ rel[x].status = "proposed"
                  THEN [rel[x] EXCEPT !.status = "removed"] ELSE rel[x]
    BY <1>5 DEF Rejects, RejectRows
  <2>2. /\ rel'[x].removal = rel[x].removal /\ rel'[x].owner = rel[x].owner
        /\ \/ rel'[x].status = "removed" /\ rel[x].status = "proposed"
           \/ rel'[x].status = rel[x].status
    BY <1>a, <2>1 DEF RelRow
  <2>3. \A q \in Proposals : /\ Spares(q)
                             /\ prop'[q].status = "split" => prop[q].status = "split"
                             /\ prop'[q].status = "pending" => prop[q].status = "pending"
    BY <1>5 DEF Rejects, Spares
  <2>4. rel[x].status = "proposed" => Spares(rel[x].owner)
    BY <2>3 DEF Spares
  <2> QED
    BY <1>b, <1>c, <2>2, <2>3, <2>4 DEF RelMove
<1>6. ASSUME NEW p \in Proposals, NEW S \in SUBSET Concepts, NEW home \in Homes(S),
             \/ \E rest \in Fresh \cup {Null} : SplitsFull(p, S, home, rest)
             \/ Defers(p, S, home)
      PROVE  RelMove(x)
  <2> DEFINE moved == MovedRelation(p, S, home, x)
  <2>1. PICK rest \in Fresh \cup {Null} :
          /\ SplitRows(p, S, home, rest)
          /\ \/ SplitsFull(p, S, home, rest)
             \/ Defers(p, S, home)
    BY <1>6 DEF SplitsFull, Defers
  <2>2. /\ prop[p].status = "pending" /\ p \in Pending
        /\ \A c \in S : Opens(home[c]) /\ home[c] # p
        /\ \A q \in Proposals : q # p => Spares(q)
        /\ \A q \in Proposals : q # p /\ prop[q].status # "none" => prop'[q] = prop[q]
    BY <2>1 DEF SplitRows, Spares, Opens, Pending
  <2>3. /\ moved.status = rel[x].status
        /\ moved.owner = IF rel[x].owner = p /\ rel[x].status = "proposed" /\ x.from \in S
                         THEN home[x.from] ELSE rel[x].owner
        /\ moved.removal = IF rel[x].removal = p /\ x.from \in S THEN home[x.from] ELSE rel[x].removal
    BY <1>a DEF MovedRelation, RelRow
  <2>4. /\ rel'[x].status = moved.status /\ rel'[x].owner = moved.owner
        /\ moved.removal # p => rel'[x].removal = moved.removal
    <3>1. CASE Defers(p, S, home)
      BY <3>1 DEF Defers
    <3>2. CASE SplitsFull(p, S, home, rest)
      <4>1. rel'[x] = IF moved.removal = p THEN [moved EXCEPT !.removal = rest] ELSE moved
        BY <3>2 DEF SplitsFull
      <4> QED
        BY <1>a, <4>1 DEF MovedRelation, RelRow
    <3> QED
      BY <2>1, <3>1, <3>2
  <2> HIDE DEF moved
  <2>5. \/ rel'[x].status = rel[x].status /\ rel'[x].owner = rel[x].owner
           /\ (rel[x].status = "proposed" => Spares(rel[x].owner))
        \/ rel'[x].status = "proposed" /\ Opens(rel'[x].owner)
    <3>1. CASE rel[x].owner = p /\ rel[x].status = "proposed" /\ x.from \in S
      BY <2>2, <2>3, <2>4, <3>1
    <3>2. CASE ~(rel[x].owner = p /\ rel[x].status = "proposed" /\ x.from \in S)
      <4>1. rel'[x].status = rel[x].status /\ rel'[x].owner = rel[x].owner
        BY <2>3, <2>4, <3>2
      <4>2. rel[x].status = "proposed" /\ rel[x].owner = p => Spares(p)
        <5>1. CASE Defers(p, S, home)
          BY <5>1 DEF Defers, Spares
        <5>2. CASE SplitsFull(p, S, home, rest)
          <6>1. S = StagedConcepts(p)
            BY <5>2 DEF SplitsFull
          <6> QED
            BY <2>2, <3>2, <6>1 DEF RowsInv, Nested
        <5> QED
          BY <2>1, <5>1, <5>2
      <4>3. rel[x].status = "proposed" => Spares(rel[x].owner)
        BY <2>2, <4>2 DEF Spares
      <4> QED
        BY <4>1, <4>3
    <3> QED
      BY <3>1, <3>2
  <2>6. CASE rel[x].removal = p /\ x.from \in S
    <3>1. rel'[x].removal = home[x.from] /\ Opens(home[x.from])
      BY <2>2, <2>3, <2>4, <2>6
    <3>2. rel'[x].status = "active"
      BY <1>c, <2>2, <2>3, <2>4, <2>6
    <3> QED
      BY <3>1, <3>2 DEF RelMove
  <2>7. CASE rel[x].removal = p /\ x.from \notin S
    <3>1. rel'[x].status = "active" /\ moved.removal = p
      BY <1>c, <2>2, <2>3, <2>4, <2>7
    <3>2. CASE Defers(p, S, home)
      <4>1. rel'[x].removal = p /\ prop'[p].status = "pending"
        BY <3>1, <3>2 DEF Defers, moved
      <4> QED
        BY <2>2, <2>7, <3>1, <4>1 DEF RelMove
    <3>3. CASE SplitsFull(p, S, home, rest)
      <4>1. rel'[x] = [moved EXCEPT !.removal = rest]
        BY <3>1, <3>3 DEF SplitsFull, moved
      <4>2. rel'[x].removal = rest
        BY <1>a, <4>1 DEF moved, MovedRelation, RelRow
      <4>3. Opens(rest)
        BY <2>7, <3>3 DEF SplitsFull, SplitRows, LeftoverMarks, Marked
      <4> QED
        BY <3>1, <4>2, <4>3 DEF RelMove
    <3> QED
      BY <2>1, <3>2, <3>3
  <2>8. CASE rel[x].removal # p
    <3>1. rel'[x].removal = rel[x].removal /\ rel'[x].status = rel[x].status
      BY <2>3, <2>4, <2>8
    <3>2. rel[x].removal \in Proposals => prop'[rel[x].removal] = prop[rel[x].removal]
      BY <1>b, <2>2, <2>8, NullAssumption
    <3> QED
      BY <1>b, <1>c, <2>5, <3>1, <3>2 DEF RelMove
  <2> QED
    BY <2>6, <2>7, <2>8
<1> QED
  BY <1>a, <1>1, <1>2, <1>3, <1>4, <1>5, <1>6, StepForms DEF StageStep, SplitStepForm

-----------------------------------------------------------------------------
(* The invariant of the rows. *)

PropMove(q) ==
  \/ prop'[q].status = prop[q].status
  \/ Opens(q)
  \/ prop[q].status = "pending" /\ prop'[q].status \in Terminal

LEMMA PropMoves == TypeOK /\ [Next]_vars => \A q \in Proposals : PropMove(q)
<1> SUFFICES ASSUME TypeOK, [Next]_vars, NEW q \in Proposals PROVE PropMove(q)
  OBVIOUS
<1>1. CASE Quiet
  BY <1>1 DEF Quiet, PropMove, Terminal
<1>2. CASE StageStep
  BY <1>2, StageOpens DEF StageStep, PropMove
<1>3. ASSUME NEW p \in Proposals, NEW ch \in Channels, ApproveProposal(p, ch) PROVE PropMove(q)
  <2>1. Approves(p) /\ (q # p => prop'[q] = prop[q])
    BY <1>3, ApproveDecides
  <2> QED
    BY <2>1 DEF PropMove, Approves, Terminal
<1>4. ASSUME NEW p \in Proposals, Rejects(p) PROVE PropMove(q)
  BY <1>4 DEF Rejects, PropMove, Terminal
<1>5. CASE SplitStepForm
  BY <1>5 DEF SplitStepForm, SplitsFull, Defers, SplitRows, PropMove, Terminal
<1> QED
  BY <1>1, <1>2, <1>3, <1>4, <1>5, StepForms

LEMMA OwnersStep == RowsInv /\ [Next]_vars => OwnersKnown'
<1> SUFFICES ASSUME RowsInv, [Next]_vars PROVE OwnersKnown'
  OBVIOUS
<1>0. TypeOK
  BY DEF RowsInv, HistoryInv
<1>1. \A q \in Proposals : prop[q].status # "none" \/ Opens(q) => prop'[q].status # "none"
  BY <1>0, PropMoves DEF PropMove, Opens, Terminal
<1>2. ASSUME NEW k \in ClaimIds, claim'[k].status # "none"
      PROVE  /\ prop'[k[1]].status # "none" /\ claim'[k].owner \in Proposals
             /\ prop'[claim'[k].owner].status # "none"
  <2>1. ClaimMove(k)
    BY ClaimMoves
  <2>2. k[1] \in Proposals
    BY DEF ClaimIds
  <2>3. claim[k].status # "none" =>
          prop[k[1]].status # "none" /\ claim[k].owner \in Proposals /\ prop[claim[k].owner].status # "none"
    BY DEF RowsInv, OwnersKnown
  <2>4. CASE claim[k].status = "none"
    <3>1. Opens(k[1]) /\ Opens(claim'[k].owner)
      BY <1>2, <2>1, <2>4 DEF ClaimMove, Visible
    <3> QED
      BY <1>1, <3>1 DEF Opens
  <2>5. CASE claim[k].status # "none"
    <3>1. claim'[k].owner = claim[k].owner \/ Opens(claim'[k].owner)
      BY <2>1 DEF ClaimMove
    <3> QED
      BY <1>1, <2>2, <2>3, <2>5, <3>1 DEF Opens
  <2> QED
    BY <2>4, <2>5
<1>3. ASSUME NEW x \in Edges, rel'[x].status = "proposed"
      PROVE  rel'[x].owner \in Proposals /\ prop'[rel'[x].owner].status # "none"
  <2>1. \/ rel[x].status = "proposed" /\ rel'[x].owner = rel[x].owner
        \/ Opens(rel'[x].owner)
    BY <1>3, RelMoves DEF RelMove
  <2> QED
    BY <1>1, <2>1 DEF RowsInv, OwnersKnown, Opens
<1>4. ASSUME NEW x \in Edges, rel'[x].removal # Null
      PROVE  prop'[rel'[x].removal].status # "none"
  <2>1. \/ Opens(rel'[x].removal)
        \/ rel[x].removal \in Proposals /\ rel'[x].removal = rel[x].removal
    BY <1>4, RelMoves DEF RelMove
  <2> QED
    BY <1>1, <2>1, NullAssumption DEF RowsInv, OwnersKnown, Opens
<1>5. ASSUME NEW s \in DecisionSlugs, dec'[s].status # "none"
      PROVE  dec'[s].owner \in Proposals /\ prop'[dec'[s].owner].status # "none"
  <2>1. \/ dec[s].status # "none" /\ dec'[s].owner = dec[s].owner
        \/ Opens(dec'[s].owner)
    BY <1>0, <1>5, DecMoves DEF DecMove
  <2> QED
    BY <1>1, <2>1 DEF RowsInv, OwnersKnown, Opens
<1> QED
  BY <1>2, <1>3, <1>4, <1>5 DEF OwnersKnown

LEMMA RemovalStep == RowsInv /\ [Next]_vars => RemovalUnderReviewIsActive'
<1> SUFFICES ASSUME RowsInv, [Next]_vars, NEW x \in Edges, rel'[x].removal \in Pending'
             PROVE  rel'[x].status = "active"
  BY DEF RemovalUnderReviewIsActive
<1>1. rel'[x].removal # Null /\ prop'[rel'[x].removal].status = "pending"
  BY NullAssumption DEF Pending
<1> QED
  BY <1>1, RelMoves DEF RelMove

(* A proposal that keeps its pages under review keeps what is about them.   *)
LEMMA NestedKept ==
  ASSUME RowsInv, [Next]_vars, NEW p \in Pending, Staged(p) \subseteq Staged(p)'
  PROVE  /\ \A k \in FreshClaims(p)' : k[2].slug \in StagedConcepts(p)'
         /\ \A x \in Edges : rel'[x].status = "proposed" /\ rel'[x].owner = p => x.from \in StagedConcepts(p)'
<1>1. StagedConcepts(p) \subseteq StagedConcepts(p)'
  BY DEF StagedConcepts
<1>2. ~Opens(p)
  BY DEF Pending, Opens
<1>3. \A k \in FreshClaims(p)' : k \in FreshClaims(p)
  BY <1>2, ClaimMoves DEF ClaimMove, FreshClaims, Visible
<1>4. \A x \in Edges : rel'[x].status = "proposed" /\ rel'[x].owner = p
                         => rel[x].status = "proposed" /\ rel[x].owner = p
  BY <1>2, RelMoves DEF RelMove
<1> QED
  BY <1>1, <1>3, <1>4 DEF RowsInv, Nested

(* An opened proposal owned nothing before.                                 *)
LEMMA OpenedIsEmpty ==
  ASSUME RowsInv, NEW q \in Proposals, prop[q].status = "none"
  PROVE  /\ FreshClaims(q) = {} /\ Staged(q) = {}
         /\ \A x \in Edges : ~(rel[x].status = "proposed" /\ rel[x].owner = q)
BY DEF RowsInv, HistoryInv, StagedOnce, OwnersKnown, FreshClaims, Staged

LEMMA NestedStep == RowsInv /\ [Next]_vars => Nested'
<1> SUFFICES ASSUME RowsInv, [Next]_vars, NEW q \in Pending'
             PROVE  /\ \A k \in FreshClaims(q)' : k[2].slug \in StagedConcepts(q)'
                    /\ \A x \in Edges : rel'[x].status = "proposed" /\ rel'[x].owner = q
                                          => x.from \in StagedConcepts(q)'
  BY DEF Nested
<1> DEFINE Goal == /\ \A k \in FreshClaims(q)' : k[2].slug \in StagedConcepts(q)'
                   /\ \A x \in Edges : rel'[x].status = "proposed" /\ rel'[x].owner = q
                                         => x.from \in StagedConcepts(q)'
<1>a. TypeOK /\ q \in Proposals /\ prop'[q].status = "pending"
  BY DEF RowsInv, HistoryInv, Pending
<1>b. Opens(q) \/ q \in Pending
  BY <1>a, PropMoves DEF PropMove, Opens, Pending, Terminal
<1>c. ASSUME q \in Pending, ~SplitStepForm PROVE Goal
  <2>1. \A r \in RevIds : r \in Staged(q) => rev'[r] = rev[r]
    <3> SUFFICES ASSUME NEW r \in RevIds, rev[r].owner = q, rev[r].status = "proposed"
                 PROVE  rev'[r] = rev[r]
      BY DEF Staged
    <3>1. ~(rev'[r].status = "proposed" /\ Opens(rev'[r].owner) /\ rev'[r] # rev[r])
      <4>1. CASE Quiet
        BY <4>1 DEF Quiet
      <4>2. ASSUME NEW p \in Proposals, NEW d \in Drafts, CreateProposal(p, d) PROVE rev'[r] = rev[r]
        <5>1. prop[p].status = "none"
          BY <4>2 DEF CreateProposal
        <5>2. r[1] # p
          BY <5>1 DEF RowsInv, HistoryInv, StagedOnce
        <5>3. PICK base \in [d.entries -> RevIds \cup {Null}] : StageRevisions(p, d, base)
          BY <4>2 DEF CreateProposal
        <5> QED
          BY <5>2, <5>3 DEF StageRevisions
      <4>3. ASSUME NEW p \in Proposals, NEW c \in Concepts, NEW a \in {"delete", "restore"},
                   StageConceptLifecycle(p, c, a)
            PROVE  rev'[r] = rev[r]
        BY <4>3 DEF StageConceptLifecycle
      <4>4. ASSUME NEW p \in Proposals, NEW ch \in Channels, ApproveProposal(p, ch) PROVE ~Opens(rev'[r].owner)
        <5>1. Approves(p) /\ \A o \in Proposals : o # p => prop'[o] = prop[o]
          BY <1>a, <4>4, ApproveDecides
        <5> QED
          BY <5>1 DEF Approves, Opens
      <4>5. ASSUME NEW p \in Proposals, Rejects(p) PROVE ~Opens(rev'[r].owner)
        BY <4>5 DEF Rejects, Opens
      <4> QED
        BY <1>a, <1>c, <4>1, <4>2, <4>3, <4>4, <4>5, StepForms DEF StageStep
    <3>2. RevMove(r)
      BY RevMoves DEF RowsInv
    <3> QED
      BY <1>a, <3>1, <3>2 DEF RevMove, Approves, Published
  <2>2. Staged(q) \subseteq Staged(q)'
    BY <2>1 DEF Staged
  <2> QED
    BY <1>c, <2>2, NestedKept
<1>1. ASSUME NEW d \in Drafts, CreateProposal(q, d) PROVE Goal
  <2>1. prop[q].status = "none" /\ StageRelations(q, d)
    BY <1>1 DEF CreateProposal
  <2>2. PICK base \in [d.entries -> RevIds \cup {Null}], sup \in [Successors(d) -> ClaimIds] :
          StageRevisions(q, d, base) /\ StageClaims(q, d, sup)
    BY <1>1 DEF CreateProposal
  <2>3. \A e \in d.entries : e \in Entries /\ e.slug \in StagedConcepts(q)'
    <3> SUFFICES ASSUME NEW e \in d.entries PROVE e \in Entries /\ e.slug \in StagedConcepts(q)'
      OBVIOUS
    <3>1. e \in Entries
      BY DraftsAssumption DEF DraftType
    <3> DEFINE r == <<q, e>>
    <3>2. r \in RevIds /\ r[1] = q /\ r[2] = e
      BY <1>a, <3>1 DEF RevIds
    <3>3. rev'[r].owner = q /\ rev'[r].status = "proposed"
      BY <2>2, <3>2 DEF StageRevisions
    <3>4. r \in Staged(q)'
      BY <3>2, <3>3 DEF Staged
    <3> HIDE DEF r
    <3> QED
      BY <3>1, <3>2, <3>4 DEF StagedConcepts
  <2>4. Slugs(d) \subseteq StagedConcepts(q)'
    BY <2>3 DEF Slugs
  <2>5. \A k \in FreshClaims(q)' : k[2] \in d.claims
    <3> SUFFICES ASSUME NEW k \in ClaimIds, claim'[k].owner = q, claim'[k].status = "proposed",
                        k[2] \notin d.claims
                 PROVE  FALSE
      BY DEF FreshClaims
    <3>1. claim'[k] = claim[k]
      BY <2>2 DEF StageClaims
    <3> QED
      BY <1>a, <2>1, <3>1, OpenedIsEmpty DEF FreshClaims
  <2>6. \A x \in Edges : rel'[x].status = "proposed" /\ rel'[x].owner = q => x \in d.relations
    <3> SUFFICES ASSUME NEW x \in Edges, rel'[x].status = "proposed", rel'[x].owner = q, x \notin d.relations
                 PROVE  FALSE
      OBVIOUS
    <3>1. rel'[x] = rel[x] \/ rel'[x] = [rel[x] EXCEPT !.removal = q]
      BY <2>1 DEF StageRelations
    <3>2. rel[x] \in RelRow
      BY <1>a DEF TypeOK
    <3>3. rel[x].status = "proposed" /\ rel[x].owner = q
      BY <3>1, <3>2 DEF RelRow
    <3> QED
      BY <1>a, <2>1, <3>3, OpenedIsEmpty
  <2> QED
    BY <2>4, <2>5, <2>6, DraftsAssumption
<1>2. ASSUME Opens(q), NEW c \in Concepts, NEW a \in {"delete", "restore"}, StageConceptLifecycle(q, c, a)
      PROVE  Goal
  <2>1. claim' = claim /\ prop[q].status = "none"
    BY <1>2 DEF StageConceptLifecycle
  <2>2. ASSUME NEW x \in Edges PROVE rel'[x].status = rel[x].status /\ rel'[x].owner = rel[x].owner
    <3>1. rel[x] \in RelRow
      BY <1>a DEF TypeOK
    <3> QED
      BY <1>2, <3>1 DEF StageConceptLifecycle, RelRow
  <2>3. FreshClaims(q)' = FreshClaims(q)
    BY <2>1 DEF FreshClaims
  <2> QED
    BY <1>a, <2>1, <2>2, <2>3, OpenedIsEmpty
<1>3. ASSUME NEW p \in Proposals, NEW S \in SUBSET Concepts, NEW home \in Homes(S),
             \/ \E rest \in Fresh \cup {Null} : SplitsFull(p, S, home, rest)
             \/ Defers(p, S, home)
      PROVE  Goal
  <2>1. PICK rest \in Fresh \cup {Null} :
          /\ SplitRows(p, S, home, rest)
          /\ SplitsFull(p, S, home, rest) \/ Defers(p, S, home)
    BY <1>3 DEF SplitsFull, Defers
  <2>2. /\ prop[p].status = "pending" /\ S \subseteq StagedConcepts(p) /\ MoveRows(p, S, home)
        /\ \A c \in S : Opens(home[c]) /\ home[c] # p
    BY <2>1 DEF SplitRows, Opens
  <2>3. \A r \in RevIds :
          /\ r \in Staged(p) /\ r[2].slug \in S => r \in Staged(home[r[2].slug])'
          /\ ~(r \in Staged(p) /\ r[2].slug \in S) => rev'[r] = rev[r]
    <3>1. rev \in [RevIds -> RevRow]
      BY <1>a DEF TypeOK
    <3> QED
      BY <2>2, <3>1 DEF MoveRows, Staged, RevRow
  <2>4. \A k \in ClaimIds :
          /\ k \in FreshClaims(p) /\ k[2].slug \in S => claim'[k].owner = home[k[2].slug]
          /\ ~(k \in FreshClaims(p) /\ k[2].slug \in S) => claim'[k] = claim[k]
    <3>1. claim \in [ClaimIds -> ClaimRow]
      BY <1>a DEF TypeOK
    <3> QED
      BY <2>2, <3>1 DEF MoveRows, FreshClaims, ClaimRow
  <2>5. \A x \in Edges :
          /\ rel'[x].status = rel[x].status
          /\ rel'[x].owner = IF rel[x].owner = p /\ rel[x].status = "proposed" /\ x.from \in S
                             THEN home[x.from] ELSE rel[x].owner
    <3> SUFFICES ASSUME NEW x \in Edges
                 PROVE  /\ rel'[x].status = rel[x].status
                        /\ rel'[x].owner = IF rel[x].owner = p /\ rel[x].status = "proposed" /\ x.from \in S
                                           THEN home[x.from] ELSE rel[x].owner
      OBVIOUS
    <3> DEFINE moved == MovedRelation(p, S, home, x)
    <3>1. rel[x] \in RelRow
      BY <1>a DEF TypeOK
    <3>2. rel'[x] = moved \/ rel'[x] = [moved EXCEPT !.removal = rest]
      BY <2>1 DEF SplitsFull, Defers
    <3> QED
      BY <3>1, <3>2 DEF MovedRelation, RelRow
  <2>6. \A c \in S : c \in StagedConcepts(home[c])'
    <3> SUFFICES ASSUME NEW c \in S PROVE c \in StagedConcepts(home[c])'
      OBVIOUS
    <3>1. PICK r \in Staged(p) : r[2].slug = c
      BY <2>2 DEF StagedConcepts
    <3>2. r \in RevIds
      BY DEF Staged
    <3>3. r \in Staged(home[c])'
      BY <2>3, <3>1, <3>2
    <3> QED
      BY <3>1, <3>3 DEF StagedConcepts
  <2>7. CASE Opens(q)
    <3>1. FreshClaims(q) = {} /\ \A x \in Edges : ~(rel[x].status = "proposed" /\ rel[x].owner = q)
      BY <1>a, <2>7, OpenedIsEmpty DEF Opens
    <3>2. ASSUME NEW k \in FreshClaims(q)' PROVE k[2].slug \in StagedConcepts(q)'
      <4>1. k \in ClaimIds /\ claim'[k].owner = q /\ claim'[k].status = "proposed"
        BY DEF FreshClaims
      <4>2. k \in FreshClaims(p) /\ k[2].slug \in S
        BY <2>4, <3>1, <4>1 DEF FreshClaims
      <4>3. home[k[2].slug] = q
        BY <2>4, <4>1, <4>2
      <4> QED
        BY <2>6, <4>2, <4>3
    <3>3. ASSUME NEW x \in Edges, rel'[x].status = "proposed", rel'[x].owner = q
          PROVE  x.from \in StagedConcepts(q)'
      <4>1. x.from \in S /\ home[x.from] = q
        BY <2>5, <3>1, <3>3
      <4> QED
        BY <2>6, <4>1
    <3> QED
      BY <3>2, <3>3
  <2>8. CASE q \in Pending /\ q # p
    <3>1. \A r \in RevIds : r \in Staged(q) => rev'[r] = rev[r]
      BY <2>3, <2>8 DEF Staged
    <3>2. Staged(q) \subseteq Staged(q)'
      BY <3>1 DEF Staged
    <3> QED
      BY <2>8, <3>2, NestedKept
  <2>9. CASE q \in Pending /\ q = p
    <3>1. \A c \in S : home[c] # q /\ ~Opens(q)
      BY <2>2, <2>9 DEF Opens
    <3>2. ASSUME NEW c \in StagedConcepts(q) \ S PROVE c \in StagedConcepts(q)'
      <4>1. PICK r \in Staged(q) : r[2].slug = c
        BY DEF StagedConcepts
      <4>2. r \in RevIds /\ rev'[r] = rev[r]
        BY <2>3, <4>1 DEF Staged
      <4>3. r \in Staged(q)'
        BY <4>1, <4>2 DEF Staged
      <4> QED
        BY <4>1, <4>3 DEF StagedConcepts
    <3>3. ASSUME NEW k \in FreshClaims(q)' PROVE k[2].slug \in StagedConcepts(q)'
      <4>1. k \in ClaimIds /\ claim'[k].owner = q /\ claim'[k].status = "proposed"
        BY DEF FreshClaims
      <4>2. ~(k \in FreshClaims(p) /\ k[2].slug \in S)
        BY <2>4, <3>1, <4>1
      <4>3. k \in FreshClaims(q) /\ k[2].slug \notin S
        BY <2>4, <2>9, <4>1, <4>2 DEF FreshClaims
      <4>4. k[2].slug \in StagedConcepts(q)
        BY <2>9, <4>3 DEF RowsInv, Nested
      <4> QED
        BY <3>2, <4>3, <4>4
    <3>4. ASSUME NEW x \in Edges, rel'[x].status = "proposed", rel'[x].owner = q
          PROVE  x.from \in StagedConcepts(q)'
      <4>1. rel[x].status = "proposed" /\ rel[x].owner = q /\ x.from \notin S
        BY <2>5, <2>9, <3>1, <3>4
      <4>2. x.from \in StagedConcepts(q)
        BY <2>9, <4>1 DEF RowsInv, Nested
      <4> QED
        BY <3>2, <4>1, <4>2
    <3> QED
      BY <3>3, <3>4
  <2> QED
    BY <1>b, <2>7, <2>8, <2>9
<1>4. ASSUME Opens(q), ~SplitStepForm PROVE Goal
  <2>1. ASSUME NEW p \in Proposals,
               \/ \E d \in Drafts : CreateProposal(p, d)
               \/ \E c \in Concepts, a \in {"delete", "restore"} : StageConceptLifecycle(p, c, a)
        PROVE  p = q
    <3>1. \A o \in Proposals : o # p => prop'[o] = prop[o]
      BY <1>a, <2>1, StageOpens
    <3> QED
      BY <1>4, <3>1 DEF Opens
  <2>2. ~Quiet
    BY <1>4 DEF Quiet, Opens
  <2>3. ASSUME NEW p \in Proposals, NEW ch \in Channels, ApproveProposal(p, ch) PROVE FALSE
    <3>1. Approves(p) /\ \A o \in Proposals : o # p => prop'[o] = prop[o]
      BY <1>a, <2>3, ApproveDecides
    <3> QED
      BY <1>4, <3>1 DEF Approves, Opens
  <2>4. ASSUME NEW p \in Proposals, Rejects(p) PROVE FALSE
    BY <1>4, <2>4 DEF Rejects, Opens
  <2>5. StageStep
    BY <1>a, <1>4, <2>2, <2>3, <2>4, StepForms
  <2> QED
    BY <1>1, <1>2, <1>4, <2>1, <2>5 DEF StageStep
<1>5. CASE SplitStepForm
  <2>1. PICK p \in Proposals, S \in SUBSET Concepts : \E home \in Homes(S) :
          \/ \E rest \in Fresh \cup {Null} : SplitsFull(p, S, home, rest)
          \/ Defers(p, S, home)
    BY <1>5 DEF SplitStepForm
  <2>2. PICK home \in Homes(S) :
          \/ \E rest \in Fresh \cup {Null} : SplitsFull(p, S, home, rest)
          \/ Defers(p, S, home)
    BY <2>1
  <2> QED
    BY <1>3, <2>2, Zenon
<1>6. CASE q \in Pending /\ ~SplitStepForm
  BY <1>c, <1>6
<1>7. CASE Opens(q) /\ ~SplitStepForm
  BY <1>4, <1>7
<1> QED
  BY <1>b, <1>5, <1>6, <1>7, Zenon

LEMMA RowsStart == Init => RowsInv
<1> SUFFICES ASSUME Init PROVE RowsInv
  OBVIOUS
<1>1. HistoryInv
  BY InitHistory
<1>2. OwnersKnown /\ Nested /\ RemovalUnderReviewIsActive
  BY DEF Init, OwnersKnown, Nested, RemovalUnderReviewIsActive, Pending, NoProposal
<1> QED
  BY <1>1, <1>2 DEF RowsInv

LEMMA RowsNext == RowsInv /\ [Next]_vars => RowsInv'
BY NextHistory, OwnersStep, NestedStep, RemovalStep DEF RowsInv

(* Every row of a space has an owner that exists, and what a pending        *)
(* proposal stages hangs together: the inductive invariant of the rows.     *)
THEOREM RowsInductive == Spec => []RowsInv
BY RowsStart, RowsNext, PTL DEF Spec

-----------------------------------------------------------------------------
(* What is readable, and by which approval. *)

(* An approval, once given, covers its rows for good.                       *)
LEMMA ApprovedStays ==
  ASSUME TypeOK, [Next]_vars, NEW q \in Proposals, prop[q].status = "approved" \/ Approves(q)
  PROVE  prop'[q].status = "approved"
BY PropMoves DEF PropMove, Approves, Opens, Terminal

LEMMA ApprovedStart == Init => OnlyApprovedIsReadable
BY DEF Init, OnlyApprovedIsReadable, Published

LEMMA ApprovedStep == RowsInv /\ OnlyApprovedIsReadable /\ [Next]_vars => OnlyApprovedIsReadable'
<1> SUFFICES ASSUME RowsInv, OnlyApprovedIsReadable, [Next]_vars PROVE OnlyApprovedIsReadable'
  OBVIOUS
<1>0. TypeOK
  BY DEF RowsInv, HistoryInv
<1>1. ASSUME NEW r \in RevIds, rev'[r].status \in Published PROVE prop'[rev'[r].owner].status = "approved"
  <2>1. RevMove(r)
    BY RevMoves DEF RowsInv
  <2>2. rev[r].status # "none" => rev[r].owner \in Proposals
    BY DEF RowsInv, HistoryInv, StagedOnce
  <2>3. /\ rev'[r].owner = rev[r].owner /\ rev[r].status # "none"
        /\ rev[r].status \in Published \/ Approves(rev[r].owner)
    BY <1>1, <2>1 DEF RevMove, Published
  <2>4. prop[rev[r].owner].status = "approved" \/ Approves(rev[r].owner)
    BY <2>3 DEF OnlyApprovedIsReadable
  <2> QED
    BY <1>0, <2>2, <2>3, <2>4, ApprovedStays
<1>2. ASSUME NEW k \in ClaimIds, claim'[k].status \in {"verified", "disputed", "deprecated"}
      PROVE  prop'[claim'[k].owner].status = "approved"
  <2>1. ClaimMove(k)
    BY ClaimMoves
  <2>2. claim[k].status # "none" => claim[k].owner \in Proposals
    BY DEF RowsInv, OwnersKnown
  <2>3. /\ claim'[k].owner = claim[k].owner /\ claim[k].status # "none"
        /\ claim[k].status \in {"verified", "disputed", "deprecated"} \/ Approves(claim[k].owner)
    BY <1>2, <2>1 DEF ClaimMove, Visible
  <2>4. prop[claim[k].owner].status = "approved" \/ Approves(claim[k].owner)
    BY <2>3 DEF OnlyApprovedIsReadable
  <2> QED
    BY <1>0, <2>2, <2>3, <2>4, ApprovedStays
<1>3. ASSUME NEW s \in DecisionSlugs, dec'[s].status = "active" PROVE prop'[dec'[s].owner].status = "approved"
  <2>1. DecMove(s)
    BY <1>0, DecMoves
  <2>2. dec[s].status # "none" => dec[s].owner \in Proposals
    BY DEF RowsInv, OwnersKnown
  <2>3. /\ dec'[s].owner = dec[s].owner /\ dec[s].status # "none"
        /\ dec[s].status = "active" \/ Approves(dec[s].owner)
    BY <1>3, <2>1 DEF DecMove
  <2>4. prop[dec[s].owner].status = "approved" \/ Approves(dec[s].owner)
    BY <2>3 DEF OnlyApprovedIsReadable
  <2> QED
    BY <1>0, <2>2, <2>3, <2>4, ApprovedStays
<1> QED
  BY <1>1, <1>2, <1>3 DEF OnlyApprovedIsReadable

(* Nothing is readable that no approval covers: whoever staged, split or    *)
(* took over a revision, a claim or a decision, its owner was approved when *)
(* wk_apply_proposal let readers see it, and approval is final.             *)
THEOREM ReadableIsApproved == Spec => []OnlyApprovedIsReadable
BY RowsInductive, ApprovedStart, ApprovedStep, PTL DEF Spec

-----------------------------------------------------------------------------
(* Pages come back by a restoration. *)

(* A page that was ever published has a first revision.                     *)
FirstRevision ==
  \A r \in RevIds : rev[r].status \in Published =>
    \E first \in RevIds : /\ SlugOf(first) = SlugOf(r)
                          /\ rev[first].status \in Published /\ rev[first].base = Null

(* A published revision stays published, on the base it was written.        *)
LEMMA PublishedStays ==
  ASSUME HistoryInv, [Next]_vars, NEW r \in RevIds, rev[r].status \in Published
  PROVE  rev'[r].status \in Published /\ rev'[r].base = rev[r].base
BY RevMoves DEF RevMove, Published

LEMMA FirstStep == HistoryInv /\ FirstRevision /\ [Next]_vars => FirstRevision'
<1> SUFFICES ASSUME HistoryInv, FirstRevision, [Next]_vars, NEW r \in RevIds, rev'[r].status \in Published
             PROVE  \E first \in RevIds : /\ SlugOf(first) = SlugOf(r)
                                          /\ rev'[first].status \in Published /\ rev'[first].base = Null
  BY DEF FirstRevision
<1>1. RevMove(r)
  BY RevMoves
<1>2. CASE rev[r].status \in Published
  <2>1. PICK first \in RevIds : /\ SlugOf(first) = SlugOf(r)
                                /\ rev[first].status \in Published /\ rev[first].base = Null
    BY <1>2 DEF FirstRevision
  <2> QED
    BY <2>1, PublishedStays
<1>3. CASE rev[r].status \notin Published
  <2>1. rev'[r].base = rev[r].base /\ rev[r].base = current[SlugOf(r)]
    BY <1>1, <1>3 DEF RevMove, Published
  <2>2. CASE rev[r].base = Null
    BY <2>1, <2>2
  <2>3. CASE rev[r].base # Null
    <3> DEFINE base == current[SlugOf(r)]
    <3>1. SlugOf(r) \in Concepts
      BY EntriesAssumption DEF SlugOf, RevIds
    <3>2. base \in RevIds /\ base # Null
      BY <2>1, <2>3, <3>1 DEF HistoryInv, TypeOK
    <3>3. SlugOf(base) = SlugOf(r) /\ rev[base].status \in Published
      BY <3>1, <3>2 DEF HistoryInv, PointersAgree, Published
    <3>4. PICK first \in RevIds : /\ SlugOf(first) = SlugOf(base)
                                  /\ rev[first].status \in Published /\ rev[first].base = Null
      BY <3>2, <3>3 DEF FirstRevision
    <3> QED
      BY <3>3, <3>4, PublishedStays
  <2> QED
    BY <2>2, <2>3
<1> QED
  BY <1>2, <1>3

(* The pointers move with an approval only.                                 *)
LEMMA PointersMove ==
  ASSUME HistoryInv, [Next]_vars, current' # current \/ deleted' # deleted
  PROVE  \E p \in Proposals, ch \in Channels : ApproveProposal(p, ch)
<1>0. TypeOK
  BY DEF HistoryInv
<1>1. ~Quiet
  BY DEF Quiet
<1>2. ~StageStep
  BY <1>0, StageOpens DEF StageStep
<1>3. ~\E p \in Proposals : Rejects(p)
  BY DEF Rejects
<1>4. ~SplitStepForm
  BY DEF SplitStepForm, SplitsFull, Defers, SplitRows
<1> QED
  BY <1>0, <1>1, <1>2, <1>3, <1>4, StepForms

LEMMA UnbasedStep ==
  HistoryInv /\ FirstRevision /\ OnlyUnbasedResurrects /\ [Next]_vars => OnlyUnbasedResurrects'
<1> SUFFICES ASSUME HistoryInv, FirstRevision, OnlyUnbasedResurrects, [Next]_vars,
                    NEW c \in Concepts, deleted'[c] # Null, current'[c] # Null
             PROVE  \E r1, r2 \in RevIds :
                      /\ r1 # r2 /\ r1[2].slug = c /\ r2[2].slug = c
                      /\ rev'[r1].status \in Published /\ rev'[r1].base = Null
                      /\ rev'[r2].status \in Published /\ rev'[r2].base = Null
  BY DEF OnlyUnbasedResurrects
<1>1. CASE deleted[c] # Null /\ current[c] # Null
  <2>1. PICK r1, r2 \in RevIds :
               /\ r1 # r2 /\ r1[2].slug = c /\ r2[2].slug = c
               /\ rev[r1].status \in Published /\ rev[r1].base = Null
               /\ rev[r2].status \in Published /\ rev[r2].base = Null
    BY <1>1 DEF OnlyUnbasedResurrects
  <2> QED
    BY <2>1, PublishedStays
<1>2. CASE ~(deleted[c] # Null /\ current[c] # Null)
  <2>1. PICK p \in Proposals, ch \in Channels : ApproveProposal(p, ch)
    BY <1>2, PointersMove
  <2>2. ApplyPointers(p) /\ ~StaleRevision(p) /\ ApplyRevisions(p)
    BY <2>1 DEF ApproveProposal, Stale
  <2>3. Deletes(p, c) => c \notin StagedConcepts(p)
    BY DEF Deletes, StagedConcepts, Staged, HistoryInv, StagedOnce
  <2>4. ~Deletes(p, c) /\ ~Restores(p, c)
    BY <2>2, <2>3 DEF ApplyPointers, Deletes, Restores
  <2>5. deleted'[c] = deleted[c] /\ deleted[c] # Null /\ current[c] = Null
    BY <1>2, <2>2, <2>4 DEF ApplyPointers
  <2>6. c \in StagedConcepts(p)
    BY <2>2, <2>4, <2>5 DEF ApplyPointers
  <2>7. PICK r \in Staged(p) : r[2].slug = c
    BY <2>6 DEF StagedConcepts
  <2>8. r \in RevIds /\ rev[r].status = "proposed" /\ rev[r].base = Null
    BY <2>2, <2>5, <2>7 DEF Staged, StaleRevision
  <2>9. rev'[r].status \in Published /\ rev'[r].base = Null
    <3>1. rev[r] \in RevRow
      BY <2>8 DEF HistoryInv, TypeOK
    <3> QED
      BY <2>2, <2>7, <2>8, <3>1 DEF ApplyRevisions, RevRow, Published
  <2>10. deleted[c] \in RevIds /\ SlugOf(deleted[c]) = c /\ rev[deleted[c]].status \in Published
    BY <2>5 DEF HistoryInv, TypeOK, PointersAgree, Published
  <2>11. PICK first \in RevIds : /\ SlugOf(first) = c
                                 /\ rev[first].status \in Published /\ rev[first].base = Null
    BY <2>10 DEF FirstRevision
  <2>12. first # r /\ first[2].slug = c /\ rev'[first].status \in Published /\ rev'[first].base = Null
    BY <2>8, <2>11, PublishedStays DEF SlugOf, Published
  <2> QED
    BY <2>7, <2>8, <2>9, <2>12
<1> QED
  BY <1>1, <1>2

(* Whatever became readable, an approval put there: besides the rows, the   *)
(* lifecycle trigger and the base comparison of wk_apply_proposal let no    *)
(* deleted page come back unless it is restored, or was first written twice *)
(* without a base.                                                          *)
THEOREM ApprovalPutItThere == Spec => []ReadableByApproval
<1>1. Init => FirstRevision /\ OnlyUnbasedResurrects
  BY DEF Init, FirstRevision, OnlyUnbasedResurrects, Published
<1>2. RowsInv => HistoryInv
  BY DEF RowsInv
<1>3. Spec => [](FirstRevision /\ OnlyUnbasedResurrects)
  BY <1>1, <1>2, FirstStep, UnbasedStep, RowsInductive, PTL DEF Spec
<1>4. OnlyApprovedIsReadable /\ FirstRevision /\ OnlyUnbasedResurrects => ReadableByApproval
  BY DEF ReadableByApproval
<1> QED
  BY <1>3, <1>4, ReadableIsApproved, PTL

-----------------------------------------------------------------------------
(* Nothing staged is left behind. *)

LEMMA OrphanedStep == RowsInv /\ NothingOrphaned /\ [Next]_vars => NothingOrphaned'
<1> SUFFICES ASSUME RowsInv, NothingOrphaned, [Next]_vars,
                    NEW p \in Proposals, prop'[p].status \in {"approved", "split"}
             PROVE  /\ Staged(p)' = {} /\ FreshClaims(p)' = {} /\ OwnDecisions(p)' = {}
                    /\ ~\E x \in Edges : rel'[x].owner = p /\ rel'[x].status = "proposed"
                    /\ prop'[p].status = "split" => Marked(p)' = {}
  BY DEF NothingOrphaned
<1>0. TypeOK
  BY DEF RowsInv, HistoryInv
<1>1. ~Opens(p)
  BY DEF Opens
<1>2. Spares(p) => prop[p].status \in {"approved", "split"}
  BY DEF Spares
<1>3. ASSUME NEW r \in RevIds, rev'[r].owner = p, rev'[r].status = "proposed" PROVE FALSE
  <2>1. rev[r].owner = p /\ rev[r].status = "proposed" /\ Spares(p)
    BY <1>1, <1>3, RevMoves DEF RevMove, RowsInv, Published
  <2> QED
    BY <1>2, <2>1 DEF NothingOrphaned, Staged
<1>4. ASSUME NEW k \in ClaimIds, claim'[k].owner = p, claim'[k].status = "proposed" PROVE FALSE
  <2>1. claim[k].owner = p /\ claim[k].status = "proposed" /\ Spares(p)
    BY <1>1, <1>4, ClaimMoves DEF ClaimMove, Visible
  <2> QED
    BY <1>2, <2>1 DEF NothingOrphaned, FreshClaims
<1>5. ASSUME NEW s \in DecisionSlugs, dec'[s].owner = p, dec'[s].status = "proposed" PROVE FALSE
  <2>1. dec[s].owner = p /\ dec[s].status = "proposed" /\ Spares(p)
    BY <1>0, <1>1, <1>5, DecMoves DEF DecMove
  <2> QED
    BY <1>2, <2>1 DEF NothingOrphaned, OwnDecisions
<1>6. ASSUME NEW x \in Edges, rel'[x].owner = p, rel'[x].status = "proposed" PROVE FALSE
  <2>1. rel[x].owner = p /\ rel[x].status = "proposed" /\ Spares(p)
    BY <1>1, <1>6, RelMoves DEF RelMove
  <2> QED
    BY <1>2, <2>1 DEF NothingOrphaned
<1>7. ASSUME NEW x \in Edges, rel'[x].removal = p, prop'[p].status = "split" PROVE FALSE
  <2>1. rel[x].removal = p /\ prop[p].status = "split"
    BY <1>1, <1>7, RelMoves, NullAssumption DEF RelMove
  <2> QED
    BY <2>1 DEF NothingOrphaned, Marked
<1> QED
  BY <1>3, <1>4, <1>5, <1>6, <1>7 DEF Staged, FreshClaims, OwnDecisions, Marked

(* Staged rows and removal markers belong to proposals that can still act   *)
(* on them: an approval takes everything its proposal staged, a full split  *)
(* hands everything to the children, the removal markers of no page         *)
(* included, and a relation whose removal is under review stays active.     *)
THEOREM NothingLeftBehind == Spec => []StagedRowsOwned
<1>1. Init => NothingOrphaned
  BY DEF Init, NothingOrphaned, NoProposal
<1>2. Spec => []NothingOrphaned
  BY <1>1, OrphanedStep, RowsInductive, PTL DEF Spec
<1>3. RowsInv /\ NothingOrphaned => StagedRowsOwned
  BY DEF RowsInv, StagedRowsOwned
<1> QED
  BY <1>2, <1>3, RowsInductive, PTL

-----------------------------------------------------------------------------
(* Claims that contradict each other. *)

LEMMA CollideSymmetric ==
  ASSUME NEW t, NEW u, Collide(t, u)
  PROVE  Collide(u, t)
BY DEF Collide

(* A proposal is approved by wk_apply_proposal only.                        *)
LEMMA OneApproval ==
  ASSUME TypeOK, [Next]_vars, NEW p \in Proposals, Approves(p)
  PROVE  \E ch \in Channels : ApproveProposal(p, ch)
<1>1. ~Quiet
  BY DEF Quiet, Approves
<1>2. ~StageStep
  BY StageOpens DEF StageStep, Approves, Opens
<1>3. ~\E q \in Proposals : Rejects(q)
  BY DEF Rejects, Approves
<1>4. ~SplitStepForm
  BY DEF SplitStepForm, SplitsFull, Defers, SplitRows, Approves, Opens
<1>5. PICK q \in Proposals, ch \in Channels : ApproveProposal(q, ch)
  BY <1>1, <1>2, <1>3, <1>4, StepForms
<1>6. q = p
  BY <1>5, ApproveDecides DEF Approves
<1> QED
  BY <1>5, <1>6

(* A claim that becomes visible against one that is visible already.        *)
LEMMA FreshCollision ==
  ASSUME RowsInv, [Next]_vars, NEW k1 \in ClaimIds, NEW k2 \in ClaimIds,
         claim[k1].status \notin Visible, claim'[k1].status \in Visible, claim'[k2].status \in Visible,
         claim'[k1].owner # claim'[k2].owner, Collide(k1[2], k2[2]), ~k1[2].complementary
  PROVE  claim'[k1].status = "disputed" /\ claim'[k2].status = "disputed"
<1>0. TypeOK
  BY DEF RowsInv, HistoryInv
<1>1. ClaimMove(k1) /\ ClaimMove(k2)
  BY ClaimMoves
<1> DEFINE p == claim[k1].owner
<1>2. claim[k1].status = "proposed" /\ Approves(p) /\ claim'[k1].owner = p
  BY <1>1 DEF ClaimMove, Visible
<1>3. p \in Proposals
  BY <1>2 DEF Approves
<1>4. PICK ch \in Channels : ApproveProposal(p, ch)
  BY <1>0, <1>2, <1>3, OneApproval
<1>5. ApplyClaims(p)
  BY <1>4 DEF ApproveProposal
<1>6. claim[k2].status \in Visible /\ claim[k2].owner # p
  <2>1. ~Approves(claim[k2].owner) \/ claim[k2].owner = p
    BY <1>0, <1>3, <1>4, ApproveDecides DEF Approves
  <2> QED
    BY <1>1, <1>2, <2>1 DEF ClaimMove, Visible
<1>7. claim[k2] \in ClaimRow /\ claim[k1] \in ClaimRow
  BY <1>0 DEF TypeOK
<1>8. k2 \notin FreshClaims(p) /\ k1 \in FreshClaims(p)
  BY <1>2, <1>6 DEF FreshClaims, Visible
<1>9. k2 \notin ReplacedClaims(p)
  <2> SUFFICES ASSUME k2 \in ReplacedClaims(p) PROVE FALSE
    OBVIOUS
  <2>1. k2 \notin DisputedClaims(p)
    BY <1>8 DEF DisputedClaims, DisputedPairs
  <2>2. claim'[k2].status = "deprecated"
    BY <1>5, <1>7, <1>8, <2>1 DEF ApplyClaims, ClaimRow
  <2> QED
    BY <2>2 DEF Visible
<1>10. <<k1, k2>> \in DisputedPairs(p)
  BY <1>6, <1>8, <1>9 DEF DisputedPairs
<1>11. k1 \in DisputedClaims(p) /\ k2 \in DisputedClaims(p)
  BY <1>10 DEF DisputedClaims
<1> QED
  BY <1>5, <1>7, <1>11 DEF ApplyClaims, ClaimRow

LEMMA CollisionStep == RowsInv /\ CollisionsAreDisputed /\ [Next]_vars => CollisionsAreDisputed'
<1> SUFFICES ASSUME RowsInv, CollisionsAreDisputed, [Next]_vars, NEW k1 \in ClaimIds, NEW k2 \in ClaimIds,
                    claim'[k1].status \in Visible, claim'[k2].status \in Visible,
                    claim'[k1].owner # claim'[k2].owner, Collide(k1[2], k2[2]),
                    ~k1[2].complementary, ~k2[2].complementary
             PROVE  claim'[k1].status = "disputed" /\ claim'[k2].status = "disputed"
  BY DEF CollisionsAreDisputed
<1>1. CASE claim[k1].status \notin Visible
  BY <1>1, FreshCollision
<1>2. CASE claim[k2].status \notin Visible
  BY <1>2, FreshCollision, CollideSymmetric
<1>3. CASE claim[k1].status \in Visible /\ claim[k2].status \in Visible
  <2>1. \A k \in {k1, k2} : /\ claim'[k].owner = claim[k].owner
                            /\ claim'[k].status = claim[k].status \/ claim'[k].status = "disputed"
    BY <1>3, ClaimMoves DEF ClaimMove, Visible
  <2>2. claim[k1].status = "disputed" /\ claim[k2].status = "disputed"
    BY <1>3, <2>1 DEF CollisionsAreDisputed
  <2> QED
    BY <2>1, <2>2
<1> QED
  BY <1>1, <1>2, <1>3

(* Two visible claims of different proposals that answer one single-valued  *)
(* question differently are both disputed: flip 5 of wk_apply_proposal      *)
(* compares every fresh claim with all that is visible, disputed ones       *)
(* included, and nothing ever settles a dispute but a successor.            *)
THEOREM DisputesShown == Spec => []CollisionsAreDisputed
<1>1. Init => CollisionsAreDisputed
  BY DEF Init, CollisionsAreDisputed, Visible
<1> QED
  BY <1>1, CollisionStep, RowsInductive, PTL DEF Spec

-----------------------------------------------------------------------------
(* Events. *)

(* The outbox rows about a proposal match its status.                       *)
ToldOnce(p) ==
  LET n == events[p] s == prop[p].status IN
  /\ n.approved = IF s = "approved" THEN 1 ELSE 0
  /\ n.rejected + n.changesRequested = IF s = "rejected" THEN 1 ELSE 0
  /\ n.changesRequested = IF prop[p].changesRequested THEN 1 ELSE 0
  /\ s = "split" => n.split > 0

(* A step that tells nothing new about q but, perhaps, its creation or its  *)
(* split.                                                                   *)
LEMMA ToldKept ==
  ASSUME NEW q, ToldOnce(q),
         events'[q].approved = events[q].approved, events'[q].rejected = events[q].rejected,
         events'[q].changesRequested = events[q].changesRequested,
         prop'[q].changesRequested = prop[q].changesRequested,
         \/ prop'[q].status = prop[q].status
         \/ /\ prop[q].status \notin {"approved", "rejected"}
            /\ prop'[q].status \notin {"approved", "rejected"},
         prop'[q].status = "split" => events'[q].split > 0
  PROVE  ToldOnce(q)'
<1> DEFINE n == events[q]
           s == prop[q].status
           t == prop'[q].status
<1>1. (s = "approved" <=> t = "approved") /\ (s = "rejected" <=> t = "rejected")
  OBVIOUS
<1> QED
  BY <1>1 DEF ToldOnce

LEMMA ToldStep ==
  ASSUME TypeOK, [Next]_vars, NEW q \in Proposals, ToldOnce(q)
  PROVE  ToldOnce(q)'
<1>0. events[q] \in ProposalEvents /\ events \in [Proposals -> ProposalEvents]
  BY DEF TypeOK
<1>a. prop[q].changesRequested \in BOOLEAN
  BY DEF TypeOK, ProposalRow
<1>b. prop[q].status = "none" => ~prop[q].changesRequested
  BY <1>0, <1>a DEF ToldOnce, ProposalEvents
<1>1. CASE Quiet
  <2>1. events' = events /\ prop'[q].changesRequested = prop[q].changesRequested
    BY <1>1 DEF Quiet
  <2>2. \/ prop'[q].status = prop[q].status
        \/ prop[q].status = "pending" /\ prop'[q].status = "failed"
    BY <1>1 DEF Quiet
  <2>3. prop'[q].status = "split" => events'[q].split > 0
    BY <2>1, <2>2 DEF ToldOnce
  <2> QED
    BY <2>1, <2>2, <2>3, ToldKept
<1>2. ASSUME NEW p \in Proposals,
             \/ \E d \in Drafts : CreateProposal(p, d)
             \/ \E c \in Concepts, a \in {"delete", "restore"} : StageConceptLifecycle(p, c, a)
      PROVE  ToldOnce(q)'
  <2>1. /\ Opens(p) /\ ~prop'[p].changesRequested
        /\ \A o \in Proposals : o # p => prop'[o] = prop[o]
        /\ events' = [events EXCEPT ![p].created = @ + 1]
    BY <1>2, StageOpens
  <2>2. /\ events'[q].approved = events[q].approved /\ events'[q].rejected = events[q].rejected
        /\ events'[q].changesRequested = events[q].changesRequested
        /\ events'[q].split = events[q].split
    BY <1>0, <2>1 DEF ProposalEvents
  <2>3. CASE q # p
    BY <2>1, <2>2, <2>3, ToldKept DEF ToldOnce
  <2>4. CASE q = p
    <3>1. prop[q].status = "none" /\ prop'[q].status = "pending"
      BY <2>1, <2>4 DEF Opens
    <3>2. ~prop'[q].changesRequested /\ ~prop[q].changesRequested
      BY <1>b, <2>1, <2>4, <3>1
    <3> QED
      BY <1>0, <2>2, <3>1, <3>2 DEF ToldOnce, ProposalEvents
  <2> QED
    BY <2>3, <2>4
<1>3. ASSUME NEW p \in Proposals, NEW ch \in Channels, ApproveProposal(p, ch) PROVE ToldOnce(q)'
  <2>1. /\ Approves(p) /\ prop'[p].changesRequested = prop[p].changesRequested
        /\ \A o \in Proposals : o # p => prop'[o] = prop[o]
    BY <1>3, ApproveDecides
  <2>2. events' = [events EXCEPT ![p].approved = @ + 1]
    BY <1>3 DEF ApproveProposal
  <2>3. CASE q # p
    BY <1>0, <2>1, <2>2, <2>3, ToldKept DEF ToldOnce
  <2>4. CASE q = p
    <3>1. /\ events'[q].approved = events[q].approved + 1 /\ events'[q].rejected = events[q].rejected
          /\ events'[q].changesRequested = events[q].changesRequested
      BY <1>0, <2>2, <2>4 DEF ProposalEvents
    <3>2. prop[q].status = "pending" /\ prop'[q].status = "approved"
      BY <2>1, <2>4 DEF Approves
    <3>3. prop'[q].changesRequested = prop[q].changesRequested
      BY <2>1, <2>4
    <3> QED
      BY <3>1, <3>2, <3>3 DEF ToldOnce
  <2> QED
    BY <2>3, <2>4
<1>4. ASSUME NEW p \in Proposals, Rejects(p) PROVE ToldOnce(q)'
  <2>1. /\ prop[p].status = "pending" /\ prop'[p].status = "rejected"
        /\ \A o \in Proposals : o # p => prop'[o] = prop[o]
        /\ \/ /\ prop'[p].changesRequested = prop[p].changesRequested
              /\ events' = [events EXCEPT ![p].rejected = @ + 1]
           \/ /\ prop'[p].changesRequested = TRUE
              /\ events' = [events EXCEPT ![p].changesRequested = @ + 1]
    BY <1>4 DEF Rejects
  <2>2. CASE q # p
    <3>1. events'[q] = events[q]
      BY <1>0, <2>1, <2>2
    <3> QED
      BY <2>1, <2>2, <3>1, ToldKept DEF ToldOnce
  <2>3. CASE q = p
    <3>1. /\ events[q].approved = 0 /\ events[q].rejected = 0 /\ events[q].changesRequested = 0
          /\ ~prop[q].changesRequested
      BY <1>0, <1>a, <2>1, <2>3 DEF ToldOnce, ProposalEvents
    <3>2. /\ events'[q].approved = 0
          /\ \/ /\ ~prop'[q].changesRequested
                /\ events'[q].rejected = 1 /\ events'[q].changesRequested = 0
             \/ /\ prop'[q].changesRequested
                /\ events'[q].rejected = 0 /\ events'[q].changesRequested = 1
      <4>1. CASE /\ prop'[p].changesRequested = prop[p].changesRequested
                 /\ events' = [events EXCEPT ![p].rejected = @ + 1]
        BY <1>0, <2>3, <3>1, <4>1 DEF ProposalEvents
      <4>2. CASE /\ prop'[p].changesRequested = TRUE
                 /\ events' = [events EXCEPT ![p].changesRequested = @ + 1]
        BY <1>0, <2>3, <3>1, <4>2 DEF ProposalEvents
      <4> QED
        BY <2>1, <4>1, <4>2
    <3> QED
      BY <2>1, <2>3, <3>2 DEF ToldOnce
  <2> QED
    BY <2>2, <2>3
<1>5. ASSUME NEW p \in Proposals, NEW S, NEW home, NEW rest, SplitRows(p, S, home, rest),
             prop'[p].status \in {"pending", "split"}
      PROVE  ToldOnce(q)'
  <2>1. /\ prop[p].status = "pending"
        /\ \A o \in Proposals : Opens(o) => ~prop'[o].changesRequested
        /\ \A o \in Proposals : o # p /\ ~Opens(o) => prop'[o] = prop[o]
        /\ prop'[p].changesRequested = prop[p].changesRequested
        /\ events' = [events EXCEPT ![p].split = @ + 1]
    BY <1>5 DEF SplitRows
  <2>2. /\ events'[q].approved = events[q].approved /\ events'[q].rejected = events[q].rejected
        /\ events'[q].changesRequested = events[q].changesRequested
        /\ events'[q].split = IF q = p THEN events[q].split + 1 ELSE events[q].split
        /\ events[q].split \in Nat
    BY <1>0, <2>1 DEF ProposalEvents
  <2>3. CASE q = p
    BY <1>5, <2>1, <2>2, <2>3, ToldKept
  <2>4. CASE q # p /\ ~Opens(q)
    BY <2>1, <2>2, <2>4, ToldKept DEF ToldOnce
  <2>5. CASE q # p /\ Opens(q)
    <3>1. prop[q].status = "none" /\ prop'[q].status = "pending"
      BY <2>5 DEF Opens
    <3>2. ~prop'[q].changesRequested /\ ~prop[q].changesRequested
      BY <1>b, <2>1, <2>5, <3>1
    <3> QED
      BY <1>0, <2>2, <3>1, <3>2 DEF ToldOnce, ProposalEvents
  <2> QED
    BY <2>3, <2>4, <2>5
<1>6. CASE SplitStepForm
  BY <1>5, <1>6 DEF SplitStepForm, SplitsFull, Defers
<1> QED
  BY <1>1, <1>2, <1>3, <1>4, <1>6, StepForms DEF StageStep

(* The outbox rows about a revision match its status.                       *)
AnnouncedOnce(r) == revEvents[r].updated = IF rev[r].status \in Published THEN 1 ELSE 0

LEMMA AnnounceStep ==
  ASSUME HistoryInv, [Next]_vars, NEW r \in RevIds, AnnouncedOnce(r)
  PROVE  AnnouncedOnce(r)'
<1>0. TypeOK
  BY DEF HistoryInv
<1>1. RevMove(r)
  BY RevMoves
<1>2. ASSUME NEW p \in Proposals, NEW ch \in Channels, ApproveProposal(p, ch) PROVE AnnouncedOnce(r)'
  <2>1. ApplyRevisionEvents(p) /\ ApplyRevisions(p)
    BY <1>2 DEF ApproveProposal
  <2>2. rev[r] \in RevRow /\ revEvents[r].updated \in Nat
    BY <1>0 DEF TypeOK, RevisionEvents
  <2>3. revEvents'[r].updated = revEvents[r].updated + (IF r \in Staged(p) THEN 1 ELSE 0)
    BY <2>1 DEF ApplyRevisionEvents
  <2>4. CASE r \in Staged(p)
    <3>1. rev[r].status \notin Published /\ rev'[r].status \in Published
      BY <2>1, <2>2, <2>4 DEF ApplyRevisions, Staged, RevRow, Published
    <3> QED
      BY <2>3, <2>4, <3>1 DEF AnnouncedOnce
  <2>5. CASE r \notin Staged(p)
    <3>1. ~(rev[r].status = "proposed" /\ Approves(rev[r].owner))
      BY <1>0, <1>2, <2>5, ApproveDecides DEF Staged, Approves
    <3>2. rev'[r].status \in Published <=> rev[r].status \in Published
      BY <1>1, <3>1 DEF RevMove, Published
    <3> QED
      BY <2>2, <2>3, <2>5, <3>2 DEF AnnouncedOnce
  <2> QED
    BY <2>4, <2>5
<1>3. ASSUME revEvents' = revEvents, \A q \in Proposals : ~Approves(q) PROVE AnnouncedOnce(r)'
  <2>1. rev[r].status # "none" => rev[r].owner \in Proposals
    BY DEF HistoryInv, StagedOnce
  <2>2. rev'[r].status \in Published <=> rev[r].status \in Published
    BY <1>1, <1>3, <2>1 DEF RevMove, Published
  <2> QED
    BY <1>3, <2>2 DEF AnnouncedOnce
<1>4. CASE Quiet
  BY <1>3, <1>4 DEF Quiet, Approves
<1>5. CASE StageStep
  BY <1>0, <1>3, <1>5, StageOpens DEF StageStep, Approves, Opens
<1>6. CASE \E p \in Proposals : Rejects(p)
  BY <1>3, <1>6 DEF Rejects, Approves
<1>7. CASE SplitStepForm
  BY <1>3, <1>7 DEF SplitStepForm, SplitsFull, Defers, SplitRows, Approves, Opens
<1> QED
  BY <1>0, <1>2, <1>4, <1>5, <1>6, <1>7, StepForms

(* The outbox tells every decision once: the event of an approval, a        *)
(* rejection or a request for changes is written in the transaction that    *)
(* takes the decision, and the event of a page in the one that publishes    *)
(* its revision, so that neither is repeated or missing whatever is split,  *)
(* restored or retired later.                                               *)
THEOREM DecisionsTold == Spec => []DecisionsAnnouncedOnce
<1>1. DecisionsAnnouncedOnce <=>
        (\A p \in Proposals : ToldOnce(p)) /\ \A r \in RevIds : AnnouncedOnce(r)
  BY DEF DecisionsAnnouncedOnce, ToldOnce, AnnouncedOnce
<1>2. Init => DecisionsAnnouncedOnce
  BY DEF Init, DecisionsAnnouncedOnce, NoProposal, NoEvents, Published
<1>3. RowsInv /\ DecisionsAnnouncedOnce /\ [Next]_vars => DecisionsAnnouncedOnce'
  <2> SUFFICES ASSUME RowsInv, DecisionsAnnouncedOnce, [Next]_vars PROVE DecisionsAnnouncedOnce'
    OBVIOUS
  <2>1. HistoryInv /\ TypeOK
    BY DEF RowsInv, HistoryInv
  <2>2. (\A p \in Proposals : ToldOnce(p)') /\ \A r \in RevIds : AnnouncedOnce(r)'
    BY <1>1, <2>1, ToldStep, AnnounceStep
  <2> QED
    BY <2>2 DEF DecisionsAnnouncedOnce, ToldOnce, AnnouncedOnce
<1> QED
  BY <1>2, <1>3, RowsInductive, PTL DEF Spec

-----------------------------------------------------------------------------
(* The epoch. *)

(* What readers see of a claim; the rest of Readable names statuses.        *)
Seen(k) == IF claim[k].status = "proposed" THEN "none" ELSE claim[k].status

(* A step leaves what a reader sees as it is, but for superseded decisions  *)
(* that a new proposal stages anew.                                         *)
Unread ==
  /\ current' = current
  /\ \A k \in ClaimIds : Seen(k)' = Seen(k)
  /\ \A x \in Edges : rel'[x].status = "active" <=> rel[x].status = "active"
  /\ \A s \in DecisionSlugs : DecisionRead(s)' = DecisionRead(s) \/ Restaged(s)

LEMMA UnreadSame == Unread => Readable' = Readable
<1> SUFFICES ASSUME Unread PROVE Readable' = Readable
  OBVIOUS
<1>1. [k \in ClaimIds |-> IF claim[k].status = "proposed" THEN "none" ELSE claim[k].status]'
        = [k \in ClaimIds |-> IF claim[k].status = "proposed" THEN "none" ELSE claim[k].status]
  BY DEF Unread, Seen
<1>2. {x \in Edges : rel[x].status = "active"}' = {x \in Edges : rel[x].status = "active"}
  BY DEF Unread
<1> QED
  BY <1>1, <1>2 DEF Unread, Readable

(* Only an approval changes what readers see: staging, turning down,        *)
(* splitting and retiring move rows nobody reads yet.                       *)
LEMMA OnlyApprovalIsSeen ==
  ASSUME RowsInv, [Next]_vars, ~\E p \in Proposals, ch \in Channels : ApproveProposal(p, ch)
  PROVE  Unread
<1>a. /\ TypeOK
      /\ claim \in [ClaimIds -> ClaimRow]
      /\ rel \in [Edges -> RelRow]
      /\ dec \in [DecisionSlugs -> DecRow]
  BY DEF RowsInv, HistoryInv, TypeOK
<1>1. CASE Quiet
  BY <1>1 DEF Quiet, Unread, Seen, DecisionRead
<1>2. ASSUME NEW p \in Proposals, NEW d \in Drafts, CreateProposal(p, d) PROVE Unread
  <2>1. PICK sup : StageClaims(p, d, sup)
    BY <1>2 DEF CreateProposal
  <2>2. StageRelations(p, d) /\ StageDecisions(p, d) /\ current' = current
    BY <1>2 DEF CreateProposal
  <2>3. ASSUME NEW k \in ClaimIds PROVE Seen(k)' = Seen(k)
    <3>1. claim'[k] = claim[k] \/ claim'[k].status = "proposed"
      BY <2>1 DEF StageClaims
    <3>2. ClaimMove(k)
      BY ClaimMoves
    <3>3. claim'[k].status = "proposed" => (claim[k].status \in {"none", "proposed"} \/ claim'[k] = claim[k])
      BY <3>2 DEF ClaimMove, Visible
    <3> QED
      BY <3>1, <3>3 DEF Seen
  <2>4. ASSUME NEW x \in Edges PROVE rel'[x].status = "active" <=> rel[x].status = "active"
    <3>1. rel[x] \in RelRow
      BY <1>a
    <3> QED
      BY <2>2, <3>1 DEF StageRelations, RelRow
  <2>5. ASSUME NEW s \in DecisionSlugs PROVE DecisionRead(s)' = DecisionRead(s) \/ Restaged(s)
    <3>1. CASE dec'[s] = dec[s]
      BY <3>1 DEF DecisionRead
    <3>2. CASE dec[s].status # "active" /\ dec'[s].status = "proposed" /\ dec'[s].owner = p
      <4>1. prop[p].status = "none" /\ prop'[p].status = "pending"
        BY <1>2, <1>a DEF CreateProposal, InsertProposal, TypeOK
      <4>2. dec[s].status \in {"none", "proposed", "superseded"}
        BY <1>a, <3>2 DEF DecRow, DecStatus
      <4> QED
        BY <3>2, <4>1, <4>2 DEF DecisionRead, Restaged
    <3> QED
      BY <2>2, <3>1, <3>2 DEF StageDecisions
  <2> QED
    BY <2>2, <2>3, <2>4, <2>5 DEF Unread
<1>3. ASSUME NEW p \in Proposals, NEW c \in Concepts, NEW a \in {"delete", "restore"},
             StageConceptLifecycle(p, c, a)
      PROVE  Unread
  <2>1. ASSUME NEW x \in Edges PROVE rel'[x].status = "active" <=> rel[x].status = "active"
    <3>1. rel[x] \in RelRow
      BY <1>a
    <3>2. rel'[x] \in {rel[x], [rel[x] EXCEPT !.removal = p]}
      BY <1>3 DEF StageConceptLifecycle
    <3> QED
      BY <3>1, <3>2 DEF RelRow
  <2> QED
    BY <1>3, <2>1 DEF StageConceptLifecycle, Unread, Seen, DecisionRead
<1>4. ASSUME NEW p \in Proposals, Rejects(p) PROVE Unread
  <2>1. ASSUME NEW x \in Edges PROVE rel'[x].status = "active" <=> rel[x].status = "active"
    <3>1. rel[x] \in RelRow
      BY <1>a
    <3> QED
      BY <1>4, <3>1 DEF Rejects, RejectRows, RelRow
  <2> QED
    BY <1>4, <2>1 DEF Rejects, Unread, Seen, DecisionRead
<1>5. ASSUME NEW p \in Proposals, NEW S \in SUBSET Concepts, NEW home \in Homes(S),
             NEW rest, SplitsFull(p, S, home, rest) \/ Defers(p, S, home)
      PROVE  Unread
  <2>1. current' = current /\ MoveRows(p, S, home)
    BY <1>5 DEF SplitsFull, Defers, SplitRows
  <2>2. ASSUME NEW k \in ClaimIds PROVE Seen(k)' = Seen(k)
    <3>1. claim[k] \in ClaimRow
      BY <1>a
    <3>2. claim'[k].status = claim[k].status
      BY <2>1, <3>1 DEF MoveRows, ClaimRow
    <3> QED
      BY <3>2 DEF Seen
  <2>3. ASSUME NEW x \in Edges PROVE rel'[x].status = "active" <=> rel[x].status = "active"
    <3>1. rel[x] \in RelRow
      BY <1>a
    <3>2. MovedRelation(p, S, home, x).status = rel[x].status
      BY <3>1 DEF MovedRelation, RelRow
    <3>3. [MovedRelation(p, S, home, x) EXCEPT !.removal = rest].status = rel[x].status
      BY <3>1 DEF MovedRelation, RelRow
    <3>4. rel'[x] \in {MovedRelation(p, S, home, x), [MovedRelation(p, S, home, x) EXCEPT !.removal = rest]}
      BY <1>5 DEF SplitsFull, Defers
    <3> QED
      BY <3>2, <3>3, <3>4
  <2>4. ASSUME NEW s \in DecisionSlugs PROVE DecisionRead(s)' = DecisionRead(s)
    <3>1. dec[s] \in DecRow
      BY <1>a
    <3>2. dec'[s] \in {dec[s], [dec[s] EXCEPT !.owner = rest]}
      BY <1>5 DEF SplitsFull, Defers
    <3> QED
      BY <3>1, <3>2 DEF DecRow, DecisionRead
  <2> QED
    BY <2>1, <2>2, <2>3, <2>4 DEF Unread
<1> QED
  BY <1>a, <1>1, <1>2, <1>3, <1>4, <1>5, StepForms DEF StageStep, SplitStepForm

(* Readers that cache on the epoch: whatever a step does to the pages,      *)
(* claims, relations and decisions that somebody can read, superseded ones  *)
(* included, it moves the epoch too, because only wk_apply_proposal does    *)
(* and it ends by counting the epoch up.  The one exception is a superseded *)
(* decision that a proposal, created in this step, stages anew.             *)
THEOREM CachesAreSound == Spec => EpochValidates
<1>1. ASSUME RowsInv, [Next]_vars
      PROVE  \/ epoch' > epoch
             \/ /\ Readable' = Readable
                /\ \A s \in DecisionSlugs : DecisionRead(s)' = DecisionRead(s) \/ Restaged(s)
  <2>1. CASE Unread
    <3>1. Readable' = Readable
      BY <2>1, UnreadSame
    <3> QED
      BY <2>1, <3>1 DEF Unread
  <2>2. ASSUME NEW p \in Proposals, NEW ch \in Channels, ApproveProposal(p, ch)
        PROVE  epoch' > epoch
    <3>1. epoch \in Nat
      BY <1>1 DEF RowsInv, HistoryInv, TypeOK
    <3> QED
      BY <2>2, <3>1 DEF ApproveProposal
  <2> QED
    BY <1>1, <2>1, <2>2, OnlyApprovalIsSeen
<1> QED
  BY <1>1, RowsInductive, PTL DEF Spec, EpochValidates

-----------------------------------------------------------------------------
(* What the reviewer was shown. *)

(* A proposal that changes no page's life names no page to change.          *)
LifeNamed == \A p \in Proposals : change[p].action = "none" => change[p].concept = Null

LEMMA LifeNamedStep == TypeOK /\ LifeNamed /\ [Next]_vars => LifeNamed'
<1> SUFFICES ASSUME TypeOK, LifeNamed, [Next]_vars PROVE LifeNamed'
  OBVIOUS
<1>1. ASSUME NEW p \in Proposals, NEW c \in Concepts, NEW a \in {"delete", "restore"},
             StageConceptLifecycle(p, c, a)
      PROVE  LifeNamed'
  <2>1. change \in [Proposals -> ChangeRow]
    BY DEF TypeOK
  <2>2. PICK v : change' = [change EXCEPT ![p] = [action |-> a, concept |-> c, revision |-> v]]
    BY <1>1 DEF StageConceptLifecycle
  <2>3. change'[p].action = a /\ \A q \in Proposals : q # p => change'[q] = change[q]
    BY <2>1, <2>2
  <2> QED
    BY <2>3 DEF LifeNamed
<1>2. CASE change' = change
  BY <1>2 DEF LifeNamed
<1>3. change' = change \/ \E p \in Proposals, c \in Concepts, a \in {"delete", "restore"} :
                            StageConceptLifecycle(p, c, a)
  BY DEF Next, vars, CreateProposal, ApproveProposal, ApproveStaleMcp, MarkFailed, LoseMark,
         ApproveStaleRest, RejectProposal, RequestChanges, RetireSupersededProposals,
         SplitFull, SplitDefer
<1> QED
  BY <1>1, <1>2, <1>3

(* No page that an approved proposal rewrites, deletes or restores had      *)
(* moved on: the diff showed none as stale.                                 *)
LEMMA NothingStaleApproved ==
  ASSUME LifeNamed, TypeOK, NEW p \in Proposals, ~Stale(p)
  PROVE  StalePages(p) \cup StaleLifecycle(p) = {}
<1>1. StalePages(p) = {}
  BY DEF StalePages, Stale, StaleRevision, SlugOf
<1>2. ASSUME NEW c \in StaleLifecycle(p) PROVE FALSE
  <2>1. c \in Concepts /\ change[p].concept = c /\ c # Null
    BY NullAssumption DEF StaleLifecycle
  <2>2. change[p].action \in {"delete", "restore"}
    BY <2>1 DEF LifeNamed, TypeOK, ChangeRow
  <2> QED
    BY <2>1, <2>2 DEF StaleLifecycle, Stale, StaleChange
<1> QED
  BY <1>1, <1>2

LEMMA DisputesAsShown ==
  ASSUME TypeOK, NEW p \in Proposals, ApplyClaims(p)
  PROVE  DisputesForetold(p)
<1>a. \A k \in ClaimIds : claim[k] \in ClaimRow
  BY DEF TypeOK
<1>1. ASSUME NEW pair \in DisputedPairs(p)
      PROVE  /\ pair[1] \in FreshClaims(p) /\ pair[1] \in ClaimIds
             /\ pair[2] \in ClaimIds /\ pair[2] \notin FreshClaims(p)
             /\ pair[2] \notin ReplacedClaims(p)
             /\ pair[1] \in Collides(p)
             /\ <<pair[1], pair[2]>> \in LintContradictions(p)
  <2>1. /\ pair[1] \in FreshClaims(p) /\ pair[2] \in ClaimIds
        /\ claim[pair[2]].status \in Visible /\ claim[pair[2]].owner # p
        /\ pair[2] \notin ReplacedClaims(p)
        /\ Collide(pair[1][2], pair[2][2]) /\ ~pair[1][2].complementary
    BY DEF DisputedPairs
  <2>2. claim[pair[1]].supersedes # pair[2]
    BY <2>1 DEF ReplacedClaims
  <2>3. pair[1] \in ClaimIds /\ claim[pair[1]].owner = p /\ claim[pair[1]].status = "proposed"
    BY <2>1 DEF FreshClaims
  <2>4. pair[2] \notin FreshClaims(p)
    BY <2>1 DEF FreshClaims
  <2>5. pair[1] \in Collides(p)
    BY <2>1, <2>2 DEF Collides
  <2>6. <<pair[1], pair[2]>> \in LintContradictions(p)
    BY <2>1, <2>2, <2>3 DEF LintContradictions
  <2> QED
    BY <2>1, <2>3, <2>4, <2>5, <2>6
<1>2. ASSUME NEW k \in ClaimIds, claim'[k].status = "disputed", claim[k].status # "disputed"
      PROVE  k \in DisputedClaims(p)
  BY <1>a, <1>2 DEF ApplyClaims, ClaimRow
<1>3. ASSUME NEW f \in FreshClaims(p), claim'[f].status = "disputed" PROVE f \in Collides(p)
  <2>1. f \in ClaimIds /\ claim[f].status = "proposed"
    BY DEF FreshClaims
  <2>2. PICK pair \in DisputedPairs(p) : f = pair[1] \/ f = pair[2]
    BY <1>2, <1>3, <2>1 DEF DisputedClaims
  <2> QED
    BY <1>1, <2>2
<1>4. ASSUME NEW k \in ClaimIds \ FreshClaims(p), Now(k, "disputed")
      PROVE  \E pair \in LintContradictions(p) : pair[2] = k
  <2>1. PICK pair \in DisputedPairs(p) : k = pair[1] \/ k = pair[2]
    BY <1>2, <1>4 DEF Now, DisputedClaims
  <2>2. k = pair[2] /\ <<pair[1], pair[2]>> \in LintContradictions(p)
    BY <1>1, <2>1
  <2> QED
    BY <2>2
<1>5. ASSUME NEW f \in Collides(p), claim'[f].status # "disputed",
             NEW pair \in LintContradictions(p), pair[1] = f
      PROVE  Now(pair[2], "deprecated")
  <2> DEFINE k == pair[2]
  <2>1. /\ f \in FreshClaims(p) /\ f \in ClaimIds /\ k \in ClaimIds
        /\ claim[k].owner # p /\ claim[k].status \in Visible
        /\ Collide(f[2], k[2]) /\ ~f[2].complementary
    BY <1>5 DEF LintContradictions, FreshClaims
  <2>2. f \notin DisputedClaims(p)
    BY <1>a, <1>5, <2>1 DEF ApplyClaims, ClaimRow
  <2>3. k \in ReplacedClaims(p)
    <3> SUFFICES ASSUME k \notin ReplacedClaims(p) PROVE FALSE
      OBVIOUS
    <3>1. <<f, k>> \in DisputedPairs(p)
      BY <2>1 DEF DisputedPairs
    <3> QED
      BY <2>2, <3>1 DEF DisputedClaims
  <2>4. k \notin FreshClaims(p)
    BY <2>1 DEF FreshClaims, Visible
  <2>5. k \notin DisputedClaims(p)
    <3> SUFFICES ASSUME NEW q \in DisputedPairs(p), k = q[1] \/ k = q[2] PROVE FALSE
      BY DEF DisputedClaims
    <3> QED
      BY <1>1, <2>3, <2>4
  <2>6. claim'[k].status = "deprecated"
    BY <1>a, <2>1, <2>3, <2>4, <2>5 DEF ApplyClaims, ClaimRow
  <2> QED
    BY <2>1, <2>6 DEF Now, Visible
<1> QED
  BY <1>3, <1>4, <1>5 DEF DisputesForetold

(* What an approval does to one relation.                                   *)
LEMMA RelationApproved ==
  ASSUME TypeOK, RemovalUnderReviewIsActive, NEW p \in Proposals, prop[p].status = "pending",
         ApplyRelations(p), NEW x \in Edges
  PROVE  /\ x \in DerivedEdges(p) => rel'[x].status = "active"
         /\ x \notin DerivedEdges(p) =>
              /\ rel[x].removal = p => rel'[x].status = "removed"
              /\ rel[x].removal # p => 
                   rel'[x].status = IF rel[x].status = "proposed" /\ rel[x].owner = p
                                    THEN "active" ELSE rel[x].status
<1>1. rel[x] \in RelRow
  BY DEF TypeOK
<1>2. rel[x].removal = p => rel[x].status = "active"
  BY DEF RemovalUnderReviewIsActive, Pending
<1> QED
  BY <1>1, <1>2 DEF ApplyRelations, RelRow

(* ... and to the pointer of one page.                                      *)
LEMMA PointerApproved ==
  ASSUME TypeOK, StagedOnce, NEW p \in Proposals, ApplyPointers(p), NEW c \in Concepts
  PROVE  /\ c \in StagedConcepts(p) => current'[c] # Null /\ change[p].action = "none"
         /\ c \notin StagedConcepts(p) /\ current'[c] = Null => Deletes(p, c) \/ current[c] = Null
         /\ c \notin StagedConcepts(p) /\ change[p].action = "none" => current'[c] = current[c]
<1>1. ASSUME c \in StagedConcepts(p) PROVE current'[c] # Null /\ change[p].action = "none"
  <2>1. PICK r \in Staged(p) : r[2].slug = c
    BY <1>1 DEF StagedConcepts
  <2>2. (CHOOSE q \in Staged(p) : q[2].slug = c) \in Staged(p)
    BY <2>1
  <2>3. current'[c] \in Staged(p)
    BY <1>1, <2>2 DEF ApplyPointers
  <2>4. current'[c] # Null
    BY <2>3, NullAssumption DEF Staged
  <2> QED
    BY <2>1, <2>4 DEF Staged, StagedOnce
<1>2. ASSUME c \notin StagedConcepts(p), current'[c] = Null PROVE Deletes(p, c) \/ current[c] = Null
  <2>1. CASE Restores(p, c)
    <3>1. change[p].revision # Null
      BY <2>1 DEF Restores, StagedOnce
    <3> QED
      BY <1>2, <2>1, <3>1 DEF ApplyPointers
  <2>2. CASE ~Restores(p, c)
    BY <1>2, <2>2 DEF ApplyPointers
  <2> QED
    BY <2>1, <2>2
<1>3. ASSUME c \notin StagedConcepts(p), change[p].action = "none" PROVE current'[c] = current[c]
  BY <1>3 DEF ApplyPointers, Deletes, Restores
<1> QED
  BY <1>1, <1>2, <1>3

LEMMA BreaksAsShown ==
  ASSUME RowsInv, NEW p \in Proposals, prop[p].status = "pending", ApplyRelations(p), ApplyPointers(p)
  PROVE  BreaksForetold(p)
<1>a. TypeOK /\ StagedOnce /\ RemovalUnderReviewIsActive
  BY DEF RowsInv, HistoryInv
<1>b. ASSUME NEW x \in Edges PROVE x.from \in Concepts /\ x.to \in Concepts
  BY DEF Edges
<1>c. ASSUME NEW x \in Edges, rel[x].status = "proposed", rel[x].owner = p
      PROVE  x.from \in StagedConcepts(p) /\ change[p].action = "none" /\ rel[x].removal # p
  <2>1. x.from \in StagedConcepts(p)
    BY <1>c DEF RowsInv, Nested, Pending
  <2>2. change[p].action = "none"
    BY <1>a, <1>b, <2>1, PointerApproved
  <2>3. rel[x].removal # p
    BY <1>a, <1>c DEF RemovalUnderReviewIsActive, Pending
  <2> QED
    BY <2>1, <2>2, <2>3
<1>1. ASSUME NEW x \in LintDangling(p) PROVE x \in BrokenRelations'
  <2>1. /\ x \in Edges /\ rel[x].owner = p /\ rel[x].status = "proposed"
        /\ current[x.to] = Null /\ x.to \notin StagedConcepts(p)
    BY DEF LintDangling
  <2>2. current'[x.to] = Null
    BY <1>a, <1>b, <1>c, <2>1, PointerApproved
  <2>3. rel'[x].status = "active"
    BY <1>a, <1>c, <2>1, RelationApproved
  <2> QED
    BY <2>1, <2>2, <2>3 DEF BrokenRelations
<1>2. ASSUME NEW x \in BrokenRelations' \ BrokenRelations, x \notin DerivedEdges(p)
      PROVE  \/ x \in LintDangling(p)
             \/ x \notin RelationsRemoved(p) /\ \E c \in {x.from, x.to} : Deletes(p, c)
  <2>1. /\ x \in Edges /\ rel'[x].status = "active"
        /\ current'[x.from] = Null \/ current'[x.to] = Null
        /\ rel[x].status = "active" => current[x.from] # Null /\ current[x.to] # Null
    BY DEF BrokenRelations
  <2>2. rel[x].removal # p
    BY <1>a, <1>2, <2>1, RelationApproved
  <2>3. CASE rel[x].status = "active"
    <3>1. ASSUME NEW c \in {x.from, x.to}, current'[c] = Null PROVE Deletes(p, c)
      BY <1>a, <1>b, <2>1, <2>3, <3>1, PointerApproved
    <3> QED
      BY <2>1, <2>2, <3>1 DEF RelationsRemoved
  <2>4. CASE rel[x].status = "proposed" /\ rel[x].owner = p
    <3>1. x.from \in StagedConcepts(p) /\ change[p].action = "none"
      BY <1>c, <2>1, <2>4
    <3>2. current'[x.to] = Null
      BY <1>a, <1>b, <2>1, <3>1, PointerApproved
    <3>3. x.to \notin StagedConcepts(p) /\ current[x.to] = Null
      BY <1>a, <1>b, <2>1, <3>1, <3>2, PointerApproved
    <3> QED
      BY <2>1, <2>4, <3>3 DEF LintDangling
  <2> QED
    BY <1>a, <1>2, <2>1, <2>2, <2>3, <2>4, RelationApproved
<1>3. \A x \in BrokenRelations' : x \in Edges
  BY DEF BrokenRelations
<1> QED
  BY <1>1, <1>2, <1>3 DEF BreaksForetold

LEMMA RemovalsAsShown ==
  ASSUME RowsInv, NEW p \in Proposals, prop[p].status = "pending", ApplyRelations(p), ApplyDecisions(p)
  PROVE  RemovalsForetold(p)
<1>a. TypeOK /\ RemovalUnderReviewIsActive
  BY DEF RowsInv, HistoryInv
<1>1. ASSUME NEW x \in RelationsRemoved(p) \ DerivedEdges(p) PROVE rel'[x].status # "active"
  BY <1>a, RelationApproved DEF RelationsRemoved
<1>2. ASSUME NEW s \in DecisionsReplaced(p) \ OwnDecisions(p) PROVE dec'[s].status # "active"
  <2>1. PICK f \in OwnDecisions(p) : s = dec[f].supersedes /\ s # Null
    BY DEF DecisionsReplaced
  <2>2. s \in DecisionSlugs /\ dec[s] \in DecRow
    BY <1>a, <2>1 DEF TypeOK, DecRow, OwnDecisions
  <2>3. f \in FreshDecisions(p) /\ s \notin FreshDecisions(p)
    BY <1>2, <2>1 DEF OwnDecisions, FreshDecisions
  <2> QED
    BY <2>1, <2>2, <2>3 DEF ApplyDecisions, DecRow
<1> QED
  BY <1>1, <1>2 DEF RemovalsForetold

(* An approval does what the diff and the lint of its proposal said: it      *)
(* lands only where no stale page was shown, and the disputes, broken links  *)
(* and removals it causes are the ones shown.  The queries behind the review *)
(* surfaces and the flips of wk_apply_proposal agree on every state the gate *)
(* can be in, for any pages, claims, relations and decisions.                *)
THEOREM PreviewsAreTrue == Spec => ApprovalKeepsItsWord
<1>1. Init => LifeNamed
  BY DEF Init, LifeNamed
<1>2. Spec => []LifeNamed
  BY <1>1, LifeNamedStep, TypeCorrect, PTL DEF Spec
<1>3. ASSUME RowsInv, LifeNamed, [Next]_vars, NEW p \in Proposals, Approved(p)
      PROVE  /\ StalePages(p) \cup StaleLifecycle(p) = {}
             /\ DisputesForetold(p) /\ BreaksForetold(p) /\ RemovalsForetold(p)
  <2>0. TypeOK /\ Approves(p)
    BY <1>3 DEF RowsInv, HistoryInv, Approved, Approves
  <2>1. PICK ch \in Channels : ApproveProposal(p, ch)
    BY <1>3, <2>0, OneApproval
  <2>2. /\ prop[p].status = "pending" /\ ~Stale(p)
        /\ ApplyClaims(p) /\ ApplyRelations(p) /\ ApplyDecisions(p) /\ ApplyPointers(p)
    BY <2>1 DEF ApproveProposal
  <2> QED
    BY <1>3, <2>0, <2>2, NothingStaleApproved, DisputesAsShown, BreaksAsShown, RemovalsAsShown
<1>4. RowsInv /\ LifeNamed /\ [Next]_vars =>
        [\A p \in Proposals : Approved(p) =>
           /\ StalePages(p) \cup StaleLifecycle(p) = {}
           /\ DisputesForetold(p) /\ BreaksForetold(p) /\ RemovalsForetold(p)]_vars
  BY <1>3
<1> QED
  BY <1>2, <1>4, RowsInductive, PTL DEF Spec, ApprovalKeepsItsWord
=============================================================================
