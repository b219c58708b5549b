--------------------------- MODULE PublishedPages ---------------------------
(***************************************************************************)
(* What the review gate promises a reader of pages: every page is a        *)
(* register written by compare-and-swap.  An approval replaces any number  *)
(* of pages at once, each by a revision that was never published before    *)
(* and was written against the revision it replaces; a page is deleted or  *)
(* its deleted revision restored; and the version of the space counts      *)
(* these steps, so that nothing changes under one version.                 *)
(***************************************************************************)
EXTENDS Naturals

CONSTANTS Pages, Revisions, SlugOf(_), Null

VARIABLES page,       \* page -> the revision readers see
          grave,      \* page -> the revision last deleted
          published,  \* revisions readers ever saw
          writtenOn,  \* published revision -> the one it replaced
          version

vars == <<page, grave, published, writtenOn, version>>

Init ==
  /\ page = [c \in Pages |-> Null]
  /\ grave = [c \in Pages |-> Null]
  /\ published = {}
  /\ writtenOn = [r \in Revisions |-> Null]
  /\ version = 0

(* One approval publishes the set R: at most one revision a page, all new. *)
Publish(R) ==
  /\ R \cap published = {}
  /\ \A r1, r2 \in R : SlugOf(r1) = SlugOf(r2) => r1 = r2
  /\ page' = [c \in Pages |->
                IF \E r \in R : SlugOf(r) = c THEN CHOOSE r \in R : SlugOf(r) = c ELSE page[c]]
  /\ published' = published \cup R
  /\ writtenOn' = [r \in Revisions |-> IF r \in R THEN page[SlugOf(r)] ELSE writtenOn[r]]
  /\ version' = version + 1
  /\ UNCHANGED grave

Delete(c) ==
  /\ page[c] # Null
  /\ page' = [page EXCEPT ![c] = Null]
  /\ grave' = [grave EXCEPT ![c] = page[c]]
  /\ version' = version + 1
  /\ UNCHANGED <<published, writtenOn>>

Restore(c) ==
  /\ page[c] = Null
  /\ grave[c] # Null
  /\ page' = [page EXCEPT ![c] = grave[c]]
  /\ grave' = [grave EXCEPT ![c] = Null]
  /\ version' = version + 1
  /\ UNCHANGED <<published, writtenOn>>

Next ==
  \/ Publish(published' \ published)
  \/ \E c \in Pages : Delete(c) \/ Restore(c)

Spec == Init /\ [][Next]_vars
=============================================================================
