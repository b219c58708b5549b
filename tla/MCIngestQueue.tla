--------------------------- MODULE MCIngestQueue ---------------------------
(* Small instances of IngestQueue: one or two server processes, two or     *)
(* three jobs, and the submissions each run is about.                      *)
EXTENDS IngestQueue, TLC

CONSTANTS c1, c2, s1, w1, w2, p1, p2

Note(c) == [body |-> c, kind |-> "body", stream |-> Null, evidence |-> FALSE,
            capture |-> FALSE, again |-> "no"]
Push(c) == [Note(c) EXCEPT !.stream = s1]

(* One note submitted and resubmitted, as evidence, again, or parked. *)
NoteInputs == {Note(c1), [Note(c1) EXCEPT !.evidence = TRUE],
               [Note(c1) EXCEPT !.again = "source"], [Note(c1) EXCEPT !.capture = TRUE]}
(* Two versions of one document. *)
PushInputs == {Push(c1), Push(c2)}
OneNote == {Note(c1)}

OneProcess == [w \in Workers |-> p1]
TwoProcesses == [w \in Workers |-> IF w = w1 THEN p1 ELSE p2]

(* Two processes of one loop each are interchangeable. *)
Symmetry == {w1 :> w1 @@ w2 :> w2 @@ p1 :> p1 @@ p2 :> p2,
             w1 :> w2 @@ w2 :> w1 @@ p1 :> p2 @@ p2 :> p1}
=============================================================================
