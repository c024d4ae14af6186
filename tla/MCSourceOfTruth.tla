-------------------------- MODULE MCSourceOfTruth --------------------------
(* SourceOfTruth on small instances. *)
EXTENDS SourceOfTruth, TLC

CONSTANTS gradle, manifest

MCFiles == {gradle, manifest}
MCKind == gradle :> "dependency" @@ manifest :> "manifest"
MCSize == <<1, 2, 1>>

=============================================================================
