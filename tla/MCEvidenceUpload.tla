-------------------------- MODULE MCEvidenceUpload --------------------------
(***************************************************************************)
(* Small instances of EvidenceUpload for TLC: their members are all given  *)
(* as model values.  FilesSettle is a liveness property, so there is no    *)
(* symmetry.                                                               *)
(***************************************************************************)
EXTENDS EvidenceUpload
=============================================================================
