------------------------- MODULE IgvmVerifier_proofs -------------------------
(***************************************************************************)
(* Proofs about IgvmVerifier for every value of its constants.             *)
(***************************************************************************)
EXTENDS IgvmVerifier, SequenceTheorems, TLAPS

-----------------------------------------------------------------------------
(* Lemmas on the byte-level operators of FvVolume.                         *)

(* The FvLength field of a header that starts before the last SigOff      *)
(* bytes of the buffer is read inside the buffer and is a number.          *)
LEMMA FvLengthType ==
    ASSUME NEW buf \in Seq(Byte), NEW s \in Nat, s + SigOff < Len(buf)
    PROVE  /\ FvLength(buf, s) \in Nat
           /\ FvEnd(buf, s) \in Nat
<1> DEFINE lo == buf[s + LenOff + 1]
           hi == buf[s + LenOff + 2]
<1>1. lo \in Nat /\ hi \in Nat
  <2>1. s + LenOff + 1 \in 1 .. Len(buf) /\ s + LenOff + 2 \in 1 .. Len(buf)
    BY HeaderAssumption
  <2>. QED  BY <2>1, BaseAssumption DEF Byte
<1>2. FvLength(buf, s) \in Nat
  <2>1. Base * hi \in Nat
    BY <1>1, BaseAssumption
  <2>. QED  BY <1>1, <2>1 DEF FvLength
<1>3. FvEnd(buf, s) \in Nat
  BY <1>2, BaseAssumption DEF FvEnd, UsizeMod
<1>. QED  BY <1>2, <1>3

(* Re-slicing a buffer at a header whose slice does not panic gives a      *)
(* buffer of bytes.                                                        *)
LEMMA FvSliceType ==
    ASSUME NEW buf \in Seq(Byte), NEW s \in Nat, ~SlicePanics(buf, s)
    PROVE  FvSlice(buf, s) \in Seq(Byte)
<1>1. CASE s + SigOff >= Len(buf)
  BY <1>1 DEF FvSlice
<1>2. CASE s + SigOff < Len(buf)
  <2>1. FvEnd(buf, s) \in Nat
    BY <1>2, FvLengthType
  <2>2. CASE FvEnd(buf, s) <= Len(buf)
    <3>1. s <= FvEnd(buf, s)
      BY <1>2, <2>1, <2>2 DEF SlicePanics
    <3>2. SubSeq(buf, s + 1, FvEnd(buf, s)) \in Seq(Byte)
      <4>1. \A i \in (s + 1) .. FvEnd(buf, s) : buf[i] \in Byte
        BY <2>1, <2>2
      <4>. QED  BY <2>1, <4>1, SubSeqProperties
    <3>. QED  BY <1>2, <2>2, <3>2 DEF FvSlice
  <2>3. CASE ~(FvEnd(buf, s) <= Len(buf))
    <3>1. SubSeq(buf, s + 1, Len(buf)) \in Seq(Byte)
      <4>1. \A i \in (s + 1) .. Len(buf) : buf[i] \in Byte
        OBVIOUS
      <4>. QED  BY <4>1, SubSeqProperties
    <3>. QED  BY <1>2, <2>3, <3>1 DEF FvSlice
  <2>. QED  BY <2>2, <2>3
<1>. QED  BY <1>1, <1>2, HeaderAssumption

(* Whatever the resolution of main.rs:279-309 returns is a buffer of       *)
(* bytes.                                                                  *)
LEMMA ResolveFvType ==
    ASSUME NEW buf \in Seq(Byte), NEW out, NEW panics, ResolveFv(buf, out, panics)
    PROVE  out \in Seq(Byte)
<1>1. CASE ~HeaderLocated(buf) /\ out = buf /\ panics = FALSE
  BY <1>1
<1>2. CASE \E o \in SigOffsets(buf) :
             /\ IsFirstSig(buf, o)
             /\ o >= SigOff
             /\ panics = SlicePanics(buf, o - SigOff)
             /\ out = IF panics THEN buf ELSE FvSlice(buf, o - SigOff)
  <2>1. PICK o \in SigOffsets(buf) :
             /\ o >= SigOff
             /\ panics = SlicePanics(buf, o - SigOff)
             /\ out = IF panics THEN buf ELSE FvSlice(buf, o - SigOff)
    BY <1>2
  <2>2. o - SigOff \in Nat
    BY <2>1, HeaderAssumption DEF SigOffsets
  <2>3. CASE panics
    BY <2>1, <2>3
  <2>4. CASE ~panics
    BY <2>1, <2>2, <2>4, FvSliceType
  <2>. QED  BY <2>3, <2>4
<1>. QED  BY <1>1, <1>2 DEF ResolveFv

(* The payload of a file record is a byte of the buffer.                   *)
LEMMA FilePayloadType ==
    ASSUME NEW buf \in Seq(Byte), NEW o \in RecordOffsets(buf)
    PROVE  FilePayload(buf, o) \in Byte
BY HeaderAssumption, SigAssumption DEF RecordOffsets, FilePayload, HdrLen, RecLen

(* Zero padding is a buffer of bytes.                                      *)
LEMMA ZerosType ==
    ASSUME NEW n \in Nat
    PROVE  Zeros(n) \in Seq(Byte)
BY BaseAssumption DEF Zeros, Byte

-----------------------------------------------------------------------------
(* Every step of main keeps the types.                                    *)
LEMMA TypeStep == TypeOK /\ [Next]_vars => TypeOK'
<1> SUFFICES ASSUME TypeOK, [Next]_vars PROVE TypeOK'
  OBVIOUS
<1> USE ContractAssumption, BaseAssumption DEF TypeOK, Stages, ExitCodes, Fail
<1>1. CASE LoadConfig
  BY <1>1 DEF LoadConfig
<1>2. CASE ParseIgvm
  BY <1>2 DEF ParseIgvm
<1>3. CASE FindCfv
  BY <1>3 DEF FindCfv
<1>4. CASE CollectPage
  <2>1. PICK i \in Remaining :
             /\ cfvData' = cfvData \o boot.dirs[i].data
             /\ consumed' = consumed \cup {i}
    BY <1>4 DEF CollectPage
  <2>2. i \in DOMAIN boot.dirs
    BY <2>1 DEF Remaining
  <2>3. boot.dirs[i].data \in Seq(Byte)
    <3>1. boot.dirs \in Seq(PageData)
      BY DEF BootInput
    <3>2. boot.dirs[i] \in PageData
      BY <2>2, <3>1
    <3>. QED  BY <3>2 DEF PageData
  <2>4. cfvData' \in Seq(Byte)
    BY <2>1, <2>3, ConcatProperties
  <2>. QED  BY <1>4, <2>1, <2>2, <2>4 DEF CollectPage
<1>5. CASE PadCfv
  <2>1. args.cfvSize \in Nat
    BY SizeAssumption DEF Args
  <2>2. Len(cfvData) < args.cfvSize => Zeros(args.cfvSize - Len(cfvData)) \in Seq(Byte)
    <3>1. Len(cfvData) < args.cfvSize => args.cfvSize - Len(cfvData) \in Nat
      BY <2>1
    <3>. QED  BY <3>1, ZerosType
  <2>3. cfvData' \in Seq(Byte)
    BY <1>5, <2>2, ConcatProperties DEF PadCfv
  <2>. QED  BY <1>5, <2>3 DEF PadCfv
<1>6. CASE ResolveHeader
  <2>1. PICK panics \in BOOLEAN :
             /\ ResolveFv(cfvData, cfvData', panics)
             /\ IF panics
                  THEN pc' = "done" /\ exitCode' = 101
                  ELSE pc' = "extractPolicy" /\ UNCHANGED exitCode
    BY <1>6 DEF ResolveHeader
  <2>2. cfvData' \in Seq(Byte)
    BY <2>1, ResolveFvType
  <2>. QED  BY <1>6, <2>1, <2>2 DEF ResolveHeader
<1>7. CASE ExtractPolicy
  <2>1. CASE \E o \in RecordOffsets(cfvData) :
                /\ IsFirstFile(cfvData, PolicyTag, o)
                /\ policyData' = FilePayload(cfvData, o)
                /\ pc' = "extractChain"
                /\ UNCHANGED <<exitCode, errorAt>>
    BY <1>7, <2>1, FilePayloadType DEF ExtractPolicy
  <2>2. CASE ~HasFile(cfvData, PolicyTag) /\ Fail("extractPolicy") /\ UNCHANGED policyData
    BY <1>7, <2>2 DEF ExtractPolicy
  <2>. QED  BY <1>7, <2>1, <2>2 DEF ExtractPolicy
<1>8. CASE ExtractChain
  <2>1. CASE \E o \in RecordOffsets(cfvData) :
                /\ IsFirstFile(cfvData, ChainTag, o)
                /\ chainData' = FilePayload(cfvData, o)
                /\ pc' = "savePolicy"
                /\ UNCHANGED <<exitCode, errorAt>>
    BY <1>8, <2>1, FilePayloadType DEF ExtractChain
  <2>2. CASE ~HasFile(cfvData, ChainTag) /\ Fail("extractChain") /\ UNCHANGED chainData
    BY <1>8, <2>2 DEF ExtractChain
  <2>. QED  BY <1>8, <2>1, <2>2 DEF ExtractChain
<1>9. CASE SavePolicy
  BY <1>9 DEF SavePolicy
<1>10. CASE SaveChain
  BY <1>10 DEF SaveChain
<1>11. CASE Deserialize
  BY <1>11 DEF Deserialize
<1>12. CASE Verify
  BY <1>12 DEF Verify
<1>13. CASE ConvertRootCa
  BY <1>13 DEF ConvertRootCa
<1>14. CASE CheckFmspc
  BY <1>14 DEF CheckFmspc
<1>15. CASE Exited
  BY <1>15 DEF Exited, vars
<1>16. CASE UNCHANGED vars
  BY <1>16 DEF vars
<1>. QED
  BY <1>1, <1>2, <1>3, <1>4, <1>5, <1>6, <1>7, <1>8, <1>9, <1>10, <1>11,
     <1>12, <1>13, <1>14, <1>15, <1>16 DEF Next

(* Type correctness: every reachable state satisfies TypeOK, so no stage   *)
(* of main falls through after an error and the buffers stay byte          *)
(* sequences through rebuilding, padding and re-slicing.                   *)
THEOREM TypeCorrect == Spec => []TypeOK
<1>1. Init => TypeOK
  BY BootAssumption, ContractAssumption DEF Init, TypeOK, Stages
<1>. QED  BY <1>1, TypeStep, PTL DEF Spec

-----------------------------------------------------------------------------
(* The stage facts and the exit-code contract are preserved by every step  *)
(* of main in a state of the right types: the extractions establish the   *)
(* first-file facts, no later stage changes cfv_data, and each check of    *)
(* the policy library is passed on to the next stage.                      *)
LEMMA StageStep ==
    TypeOK /\ StageFacts /\ ExitContract /\ [Next]_vars => StageFacts' /\ ExitContract'
<1> SUFFICES ASSUME TypeOK, StageFacts, ExitContract, [Next]_vars
             PROVE  StageFacts' /\ ExitContract'
  OBVIOUS
<1> USE StageAssumption, ContractAssumption
        DEF TypeOK, StageFacts, ExitContract, AfterPolicy, AfterChain, Stages, ExitCodes, Fail
<1>1. CASE LoadConfig
  BY <1>1 DEF LoadConfig
<1>2. CASE ParseIgvm
  BY <1>2 DEF ParseIgvm
<1>3. CASE FindCfv
  BY <1>3 DEF FindCfv
<1>4. CASE CollectPage
  BY <1>4 DEF CollectPage
<1>5. CASE PadCfv
  BY <1>5 DEF PadCfv
<1>6. CASE ResolveHeader
  BY <1>6 DEF ResolveHeader
<1>7. CASE ExtractPolicy
  BY <1>7 DEF ExtractPolicy
<1>8. CASE ExtractChain
  BY <1>8 DEF ExtractChain
<1>9. CASE SavePolicy
  BY <1>9 DEF SavePolicy
<1>10. CASE SaveChain
  BY <1>10 DEF SaveChain
<1>11. CASE Deserialize
  BY <1>11 DEF Deserialize
<1>12. CASE Verify
  BY <1>12 DEF Verify
<1>13. CASE ConvertRootCa
  BY <1>13 DEF ConvertRootCa
<1>14. CASE CheckFmspc
  BY <1>14 DEF CheckFmspc
<1>15. CASE Exited
  BY <1>15 DEF Exited, vars
<1>16. CASE UNCHANGED vars
  BY <1>16 DEF vars
<1>. QED
  BY <1>1, <1>2, <1>3, <1>4, <1>5, <1>6, <1>7, <1>8, <1>9, <1>10, <1>11,
     <1>12, <1>13, <1>14, <1>15, <1>16 DEF Next

(* IInv is an invariant of the image verifier.                             *)
THEOREM IgvmInvariant == Spec => []IInv
<1>1. Init => IInv
  <2> SUFFICES ASSUME Init PROVE IInv
    OBVIOUS
  <2>1. TypeOK
    BY BootAssumption, ContractAssumption DEF Init, TypeOK, Stages
  <2>2. StageFacts
    BY DEF Init, StageFacts, AfterPolicy, AfterChain
  <2>3. ExitContract
    BY ContractAssumption DEF Init, ExitContract, ExitCodes
  <2>. QED  BY <2>1, <2>2, <2>3 DEF IInv
<1>2. IInv /\ [Next]_vars => IInv'
  BY TypeStep, StageStep DEF IInv
<1>. QED  BY <1>1, <1>2, PTL DEF Spec

(* The exit-code contract of main holds for every IGVM file, configuration *)
(* and behaviour of the policy library: exit 0 or 2 only for the first     *)
(* policy file of the rebuilt volume, deserialized, verified against the  *)
(* first issuer-chain file of the same volume and with a convertible root  *)
(* CA; exit 2 exactly for a requested FMSPC the collateral lacks.          *)
COROLLARY ExitContractHolds == Spec => []ExitContract
<1>1. IInv => ExitContract
  BY DEF IInv
<1>. QED  BY <1>1, IgvmInvariant, PTL

-----------------------------------------------------------------------------
(* A payload extracted as the first file of a buffer of bytes is a byte,   *)
(* and so never NoValue.                                                   *)
LEMMA ExtractedIsByte ==
    ASSUME NEW buf \in Seq(Byte), NEW tag, NEW d,
           \E o \in RecordOffsets(buf) : IsFirstFile(buf, tag, o) /\ d = FilePayload(buf, o)
    PROVE  d \in Byte /\ d # NoValue
BY FilePayloadType, ContractAssumption

(* Every step of the image verifier is a step of the policy gate or leaves *)
(* the gate's state alone: extracting the issuer chain obtains the pair,   *)
(* every returned error and the panic of the re-slice reject, and the      *)
(* FMSPC check admits a policy that passed the three library checks.      *)
THEOREM IgvmRefinesGate == Spec => Gate!GateSafety
<1>1. Init => Gate!GateInit
  BY DEF Init, Gate!GateInit, Args
<1>2. IInv /\ [Next]_vars => [Gate!GateNext]_Gate!gvars
  <2> SUFFICES ASSUME IInv, [Next]_vars PROVE [Gate!GateNext]_Gate!gvars
    OBVIOUS
  <2> USE StageAssumption, ContractAssumption
          DEF IInv, TypeOK, StageFacts, AfterPolicy, AfterChain, Stages, ExitCodes, Fail,
              Gate!gvars, Gate!GateNext, Gate!Reject
  <2>1. CASE LoadConfig
    BY <2>1 DEF LoadConfig
  <2>2. CASE ParseIgvm
    BY <2>2 DEF ParseIgvm
  <2>3. CASE FindCfv
    BY <2>3 DEF FindCfv
  <2>4. CASE CollectPage
    BY <2>4 DEF CollectPage
  <2>5. CASE PadCfv
    BY <2>5 DEF PadCfv
  <2>6. CASE ResolveHeader
    BY <2>6 DEF ResolveHeader
  <2>7. CASE ExtractPolicy
    BY <2>7 DEF ExtractPolicy
  <2>8. CASE ExtractChain
    <3>1. CASE \E o \in RecordOffsets(cfvData) :
                  /\ IsFirstFile(cfvData, ChainTag, o)
                  /\ chainData' = FilePayload(cfvData, o)
                  /\ pc' = "savePolicy"
                  /\ UNCHANGED <<exitCode, errorAt>>
      <4>1. policyData \in Byte /\ policyData # NoValue
        BY <2>8, ExtractedIsByte DEF ExtractChain
      <4>2. chainData' \in Byte /\ chainData' # NoValue
        BY <3>1, ExtractedIsByte
      <4>3. chainData = NoValue /\ exitCode = NoValue
        BY <2>8 DEF ExtractChain
      <4>. QED  BY <2>8, <4>1, <4>2, <4>3 DEF ExtractChain, Gate!Obtain
    <3>2. CASE ~HasFile(cfvData, ChainTag) /\ Fail("extractChain") /\ UNCHANGED chainData
      BY <2>8, <3>2 DEF ExtractChain
    <3>. QED  BY <2>8, <3>1, <3>2 DEF ExtractChain
  <2>9. CASE SavePolicy
    BY <2>9 DEF SavePolicy
  <2>10. CASE SaveChain
    BY <2>10 DEF SaveChain
  <2>11. CASE Deserialize
    BY <2>11 DEF Deserialize
  <2>12. CASE Verify
    BY <2>12 DEF Verify
  <2>13. CASE ConvertRootCa
    BY <2>13 DEF ConvertRootCa
  <2>14. CASE CheckFmspc
    <3>1. chainData \in Byte /\ chainData # NoValue
      BY <2>14, ExtractedIsByte DEF CheckFmspc
    <3>2. policyData # NoValue /\ exitCode = NoValue
      BY <2>14 DEF CheckFmspc
    <3>. QED  BY <2>14, <3>1, <3>2 DEF CheckFmspc, Gate!Admit
  <2>15. CASE Exited
    BY <2>15 DEF Exited, vars
  <2>16. CASE UNCHANGED vars
    BY <2>16 DEF vars
  <2>. QED
    BY <2>1, <2>2, <2>3, <2>4, <2>5, <2>6, <2>7, <2>8, <2>9, <2>10, <2>11,
       <2>12, <2>13, <2>14, <2>15, <2>16 DEF Next
<1>. QED  BY <1>1, <1>2, IgvmInvariant, PTL DEF Spec, Gate!GateSafety

=============================================================================
