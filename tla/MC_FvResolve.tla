---------------------------- MODULE MC_FvResolve ----------------------------
(***************************************************************************)
(* Every buffer of up to seven bytes of four values; the same scaled header  *)
(* layout as MC_IgvmVerifier: length field at 0, signature <<3, 2>> at 2.  *)
(***************************************************************************)
EXTENDS FvResolveCheck

MCFvhSig == <<3, 2>>

=============================================================================
