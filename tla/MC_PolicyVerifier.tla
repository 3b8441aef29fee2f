-------------------------- MODULE MC_PolicyVerifier --------------------------
(***************************************************************************)
(* A small instance of PolicyVerifier: three file contents, of which two   *)
(* are JSON; each JSON policy is signed by a different chain; one policy   *)
(* lists one of the two FMSPCs as a collateral key.                        *)
(***************************************************************************)
EXTENDS PolicyVerifier

CONSTANTS d1, d2, d3, f1, f2

MCDocs == {d1, d2, d3}
MCFmspcs == {f1, f2}
MCJsonDocs == {d1, d2}
MCSignedBy == {<<d1, d2>>, <<d2, d1>>, <<d3, d3>>}
MCCollateralKeys == {<<d1, f1>>}

=============================================================================
