--------------------------- MODULE MCLectureUnit ---------------------------
(* LectureUnit with small sets of requests. *)
EXTENDS LectureUnit

CONSTANTS i1, i2, r1, v1, v2, d1, nobody, old, new

(* The ingestions still carry the name a rename replaces. *)
Renamed == [j \in Ingestions \cup Renames |-> IF j \in Renames THEN new ELSE old]

(* One of the ingestions brings a transcription, too. *)
SomeUploads ==
  [j \in Ingestions |-> {[version |-> 2, pdf |-> TRUE, video |-> j = i1]}]

(* One request hides a slide and lists them all, the other one lists some    *)
(* or sets nothing but the release.                                        *)
SomeHidings ==
  [j \in Visibilities |->
     IF j = v1 THEN {[listed |-> Pages, hide |-> {1}, open |-> TRUE]}
     ELSE {[listed |-> {2}, hide |-> {2}, open |-> TRUE], [listed |-> {}, hide |-> {}, open |-> TRUE]}]
=============================================================================
