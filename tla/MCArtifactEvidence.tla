------------------------- MODULE MCArtifactEvidence -------------------------
(***************************************************************************)
(* The artifact paths that the run of ArtifactEvidence uses.               *)
(***************************************************************************)
EXTENDS ArtifactEvidence

\* Two artifacts of one file name in two directories, and the manifest's path.
ThreePaths == {<<"artifacts", "main.py">>, <<"src", "main.py">>, ManifestAt}
Outside == <<"..", "main.py">>
=============================================================================
