------------------------ MODULE PolicyVerifier_proofs ------------------------
(***************************************************************************)
(* Proofs about the standalone policy verifier for every value of its      *)
(* constants: its exit-code contract and that it implements the safety     *)
(* part of the policy gate.                                                *)
(***************************************************************************)
EXTENDS PolicyVerifier, TLAPS

USE VerifierAssumption

(* PvInv is inductive: each stage of main keeps the facts the stages       *)
(* before it established, and no exit code is set but by the last step or *)
(* by a returned error.                                                    *)
THEOREM PvInvariant == PvSpec => []PvInv
<1>1. PvInit => PvInv
  BY DEF PvInit, PvInv, PvTypeOK, PvStageFacts, PvExitContract, Args, Stages, ExitCodes
<1>2. PvInv /\ [PvNext]_pvars => PvInv'
  <2> SUFFICES ASSUME PvInv, [PvNext]_pvars PROVE PvInv'
    OBVIOUS
  <2> USE DEF PvInv, PvTypeOK, PvStageFacts, PvExitContract, Stages, ExitCodes, PvFail
  <2>1. CASE ReadPolicy
    BY <2>1 DEF ReadPolicy, Args
  <2>2. CASE ReadChain
    BY <2>2 DEF ReadChain, Args
  <2>3. CASE PvDeserialize
    BY <2>3 DEF PvDeserialize
  <2>4. CASE PvVerify
    BY <2>4 DEF PvVerify
  <2>5. CASE PvCheckFmspc
    BY <2>5 DEF PvCheckFmspc
  <2>6. CASE PvExited
    BY <2>6 DEF PvExited, pvars
  <2>7. CASE UNCHANGED pvars
    BY <2>7 DEF pvars
  <2>. QED  BY <2>1, <2>2, <2>3, <2>4, <2>5, <2>6, <2>7 DEF PvNext
<1>. QED  BY <1>1, <1>2, PTL DEF PvSpec

(* Type correctness of the standalone verifier: no error of main falls     *)
(* through to a later stage.                                               *)
COROLLARY PvTypeCorrect == PvSpec => []PvTypeOK
<1>1. PvInv => PvTypeOK
  BY DEF PvInv
<1>. QED  BY <1>1, PvInvariant, PTL

(* The exit-code convention holds for every set of file contents and every *)
(* behaviour of the policy library: exit 0 or 2 only for the --policy file *)
(* verified against the --cert-chain file, 2 exactly for a missing FMSPC.  *)
COROLLARY PvExitContractHolds == PvSpec => []PvExitContract
<1>1. PvInv => PvExitContract
  BY DEF PvInv
<1>. QED  BY <1>1, PvInvariant, PTL

-----------------------------------------------------------------------------
(* Every step of the standalone verifier is a step of the policy gate, or  *)
(* leaves the gate's state alone: reading the chain obtains the pair,      *)
(* every returned error rejects, and the FMSPC check admits a verified     *)
(* pair.                                                                   *)
THEOREM PvRefinesGate == PvSpec => PvGate!GateSafety
<1>1. PvInit => PvGate!GateInit
  BY DEF PvInit, PvGate!GateInit, Args
<1>2. PvInv /\ [PvNext]_pvars => [PvGate!GateNext]_PvGate!gvars
  <2> SUFFICES ASSUME PvInv, [PvNext]_pvars PROVE [PvGate!GateNext]_PvGate!gvars
    OBVIOUS
  <2> USE DEF PvInv, PvTypeOK, PvStageFacts, Stages, ExitCodes, PvFail, PvGate!gvars
  <2>1. CASE ReadPolicy
    <3>1. CASE policyBytes' = args.policy /\ pc' = "readChain" /\ UNCHANGED <<exitCode, errorAt>>
      BY <2>1, <3>1 DEF ReadPolicy
    <3>2. CASE PvFail("readPolicy") /\ UNCHANGED policyBytes
      BY <2>1, <3>2 DEF ReadPolicy, PvGate!GateNext, PvGate!Reject
    <3>. QED  BY <2>1, <3>1, <3>2 DEF ReadPolicy
  <2>2. CASE ReadChain
    <3>1. CASE chainBytes' = args.chain /\ pc' = "deserialize" /\ UNCHANGED <<exitCode, errorAt>>
      BY <2>2, <3>1 DEF ReadChain, PvGate!GateNext, PvGate!Obtain, Args
    <3>2. CASE PvFail("readChain") /\ UNCHANGED chainBytes
      BY <2>2, <3>2 DEF ReadChain, PvGate!GateNext, PvGate!Reject
    <3>. QED  BY <2>2, <3>1, <3>2 DEF ReadChain
  <2>3. CASE PvDeserialize
    BY <2>3 DEF PvDeserialize, PvGate!GateNext, PvGate!Reject
  <2>4. CASE PvVerify
    BY <2>4 DEF PvVerify, PvGate!GateNext, PvGate!Reject
  <2>5. CASE PvCheckFmspc
    <3>1. chainBytes # NoValue /\ policyBytes \in Docs
      BY <2>5 DEF PvCheckFmspc, Args
    <3>. QED  BY <2>5, <3>1 DEF PvCheckFmspc, PvGate!GateNext, PvGate!Admit
  <2>6. CASE PvExited
    BY <2>6 DEF PvExited, pvars
  <2>7. CASE UNCHANGED pvars
    BY <2>7 DEF pvars
  <2>. QED  BY <2>1, <2>2, <2>3, <2>4, <2>5, <2>6, <2>7 DEF PvNext
<1>. QED  BY <1>1, <1>2, PvInvariant, PTL DEF PvSpec, PvGate!GateSafety

=============================================================================
