------------------------- MODULE MCStudyController -------------------------
(* Two runners share a schedule of two cells. *)
EXTENDS StudyController
=============================================================================
