------------------------- MODULE IgvmPipeline_proofs -------------------------
(***************************************************************************)
(* The image verifier end to end, proved for every value of the constants: *)
(* for an image that is a region of whole pages and carries the payloads   *)
(* of its volume, a run of main that gets past extraction holds exactly    *)
(* those payloads (PolicyFromCarriedImage).  It rests on the region        *)
(* contract of IgvmRegion_proofs and on the header search and the file     *)
(* lookup each having one result.                                          *)
(***************************************************************************)
EXTENDS IgvmRegion_proofs

-----------------------------------------------------------------------------
(* Lemmas on the operators of FvVolume.                                    *)

(* windows(..).position(..) has one result: the first signature match.     *)
LEMMA FirstSigUnique ==
    ASSUME NEW b, NEW o1, NEW o2, IsFirstSig(b, o1), IsFirstSig(b, o2)
    PROVE  o1 = o2
BY DEF IsFirstSig, SigOffsets

(* The header search and re-slice of main.rs:279-311 are deterministic:    *)
(* one buffer has one outcome, panic or result.                            *)
LEMMA ResolveFvUnique ==
    ASSUME NEW b, NEW o1, NEW o2, NEW p1, NEW p2,
           ResolveFv(b, o1, p1), ResolveFv(b, o2, p2)
    PROVE  o1 = o2 /\ p1 = p2
<1>1. CASE ~HeaderLocated(b)
  BY <1>1 DEF ResolveFv, HeaderLocated
<1>2. CASE HeaderLocated(b)
  <2>1. PICK s1 \in SigOffsets(b) :
           /\ IsFirstSig(b, s1)
           /\ s1 >= SigOff
           /\ p1 = SlicePanics(b, s1 - SigOff)
           /\ o1 = IF p1 THEN b ELSE FvSlice(b, s1 - SigOff)
    BY <1>2 DEF ResolveFv
  <2>2. PICK s2 \in SigOffsets(b) :
           /\ IsFirstSig(b, s2)
           /\ s2 >= SigOff
           /\ p2 = SlicePanics(b, s2 - SigOff)
           /\ o2 = IF p2 THEN b ELSE FvSlice(b, s2 - SigOff)
    BY <1>2 DEF ResolveFv
  <2>3. s1 = s2
    BY <2>1, <2>2, FirstSigUnique
  <2>. QED  BY <2>1, <2>2, <2>3
<1>. QED  BY <1>1, <1>2

(* get_file_from_fv returns one record for a key: the first in table order. *)
LEMMA FirstFileUnique ==
    ASSUME NEW b, NEW t, NEW o1, NEW o2, IsFirstFile(b, t, o1), IsFirstFile(b, t, o2)
    PROVE  o1 = o2
BY DEF IsFirstFile, RecordOffsets

-----------------------------------------------------------------------------
(* No step of main changes the IGVM file or the arguments.                 *)
LEMMA InputsFixed == [Next]_vars => boot' = boot /\ args' = args
BY DEF Next, vars, LoadConfig, ParseIgvm, FindCfv, CollectPage, PadCfv, ResolveHeader,
       ExtractPolicy, ExtractChain, SavePolicy, SaveChain, Deserialize, Verify,
       ConvertRootCa, CheckFmspc, Exited

(* An image that carries a volume is not empty: the empty buffer has no    *)
(* signature, so the search leaves it empty, and it has no records.        *)
LEMMA CarriedNotEmpty ==
    ASSUME TypeOK, ImageCarries
    PROVE  boot.gpaImage # <<>>
<1> SUFFICES ASSUME boot.gpaImage = <<>> PROVE FALSE
  OBVIOUS
<1>1. SigOffsets(<<>>) = {}
  BY SigAssumption DEF SigOffsets
<1>2. ResolveCandidates(boot.gpaImage) = {<<>>}
  BY <1>1 DEF ResolveCandidates
<1>3. RecordOffsets(<<>>) = {}
  BY SigAssumption, HeaderAssumption DEF RecordOffsets, HdrLen, RecLen
<1>. QED  BY <1>2, <1>3 DEF ImageCarries

(* Such an image passes the FindCfv check of main.rs:256-259: its first    *)
(* page is given by a directive at CFV_GPA with a page of data.            *)
LEMMA CarriedFindsCfv ==
    ASSUME TypeOK, WholePageImage, ImageCarries
    PROVE  \E i \in DOMAIN boot.dirs : boot.dirs[i].gpa = CfvGpa /\ boot.dirs[i].data # <<>>
<1>1. args.cfvSize \in Nat /\ Len(boot.gpaImage) = args.cfvSize /\ args.cfvSize % PageSize = 0
      /\ boot.gpaImage \in Seq(Byte)
  BY WholePageFacts
<1>2. 0 < args.cfvSize
  BY <1>1, CarriedNotEmpty
<1>3. PageSize <= args.cfvSize
  <2>1. PICK a \in Nat : args.cfvSize = a * PageSize
    BY <1>1, PageMultiple, PageAssumption
  <2>2. a # 0
    BY <1>2, <2>1, PageAssumption
  <2>. QED  BY <2>1, <2>2, PageAssumption
<1>4. PICK j \in DOMAIN boot.dirs : InRange(j) /\ Off(j) = 0
  BY <1>2, WholePageFacts, PageAssumption
<1>5. boot.dirs[j].data = SubSeq(boot.gpaImage, 1, PageSize)
  <2>1. boot.dirs[j].data = SubSeq(boot.gpaImage, Off(j) + 1, Off(j) + PageSize)
    BY <1>4, WholePageFacts
  <2>. QED  BY <2>1, <1>4, PageAssumption
<1>6. Len(SubSeq(boot.gpaImage, 1, PageSize)) = PageSize
  BY <1>1, <1>3, SubSeqProperties, PageAssumption
<1>7. boot.dirs[j].gpa = CfvGpa
  BY <1>4, WholePageFacts, PageAssumption DEF Off
<1>. QED  BY <1>5, <1>6, <1>7, PageAssumption

-----------------------------------------------------------------------------
(* Every step of main keeps CarriedFacts.  The header search, run on the  *)
(* guest memory (RegionFacts), has the one outcome the image carries, so   *)
(* it neither panics nor yields another volume; each extraction then finds *)
(* the file and, the first file being unique, takes the carried payload.   *)
LEMMA CarriedStep ==
    TypeOK /\ RegionFacts /\ CarriedFacts /\ [Next]_vars => CarriedFacts'
<1> SUFFICES ASSUME TypeOK, RegionFacts, CarriedFacts, [Next]_vars
             PROVE  CarriedFacts'
  OBVIOUS
<1>1. boot' = boot /\ args' = args
  BY InputsFixed
<1>2. (WholePageImage /\ ImageCarries)' = (WholePageImage /\ ImageCarries)
  BY <1>1 DEF WholePageImage, FaithfulImage, InRange, CfvPages, ImageCarries
<1> SUFFICES ASSUME WholePageImage, ImageCarries
             PROVE  /\ pc' \in {"extractPolicy", "extractChain"} =>
                          ResolveFv(boot.gpaImage, cfvData', FALSE)
                    /\ pc' \in AfterPolicy => policyData' = boot.policy
                    /\ pc' \in AfterChain => chainData' = boot.chain
                    /\ pc' = "done" =>
                          \/ errorAt' \in {"config", "parse"}
                          \/ policyData' = boot.policy /\ chainData' = boot.chain
  BY <1>1, <1>2 DEF CarriedFacts
<1>3. /\ pc \in {"extractPolicy", "extractChain"} => ResolveFv(boot.gpaImage, cfvData, FALSE)
      /\ pc \in AfterPolicy => policyData = boot.policy
      /\ pc \in AfterChain => chainData = boot.chain
      /\ pc = "done" =>
            \/ errorAt \in {"config", "parse"}
            \/ policyData = boot.policy /\ chainData = boot.chain
  BY DEF CarriedFacts
<1>4. pc = "resolve" => cfvData = boot.gpaImage
  BY DEF RegionFacts
<1>5. PICK v \in ResolveCandidates(boot.gpaImage) :
         /\ ResolveFv(boot.gpaImage, v, FALSE)
         /\ \E o \in RecordOffsets(v) :
               IsFirstFile(v, PolicyTag, o) /\ FilePayload(v, o) = boot.policy
         /\ \E o \in RecordOffsets(v) :
               IsFirstFile(v, ChainTag, o) /\ FilePayload(v, o) = boot.chain
  BY DEF ImageCarries
<1>6. pc \in {"extractPolicy", "extractChain"} => cfvData = v
  BY <1>3, <1>5, ResolveFvUnique
<1>7. CASE LoadConfig
  BY <1>7 DEF LoadConfig, Fail, AfterPolicy, AfterChain
<1>8. CASE ParseIgvm
  BY <1>8 DEF ParseIgvm, Fail, AfterPolicy, AfterChain
<1>9. CASE FindCfv
  <2>1. \E i \in DOMAIN boot.dirs : boot.dirs[i].gpa = CfvGpa /\ boot.dirs[i].data # <<>>
    BY CarriedFindsCfv
  <2>2. pc' = "collect"
    BY <1>9, <2>1 DEF FindCfv
  <2>. QED  BY <2>2 DEF AfterPolicy, AfterChain
<1>10. CASE CollectPage \/ PadCfv
  BY <1>10 DEF CollectPage, PadCfv, AfterPolicy, AfterChain
<1>11. CASE ResolveHeader
  <2>1. PICK panics \in BOOLEAN :
           /\ ResolveFv(cfvData, cfvData', panics)
           /\ IF panics THEN pc' = "done" /\ exitCode' = 101
                        ELSE pc' = "extractPolicy" /\ UNCHANGED exitCode
    BY <1>11 DEF ResolveHeader
  <2>2. cfvData = boot.gpaImage
    BY <1>4, <1>11 DEF ResolveHeader
  <2>3. cfvData' = v /\ panics = FALSE
    <3> DEFINE g == boot.gpaImage
               out == cfvData'
    <3>1. ResolveFv(g, out, panics) /\ ResolveFv(g, v, FALSE)
      BY <1>5, <2>1, <2>2
    <3> HIDE DEF g, out
    <3>2. out = v /\ panics = FALSE
      BY <3>1, ResolveFvUnique
    <3>. QED  BY <3>2 DEF out
  <2>4. pc' = "extractPolicy"
    BY <2>1, <2>3
  <2>. QED  BY <1>5, <2>3, <2>4 DEF AfterPolicy, AfterChain
<1>12. CASE ExtractPolicy
  <2>1. pc = "extractPolicy" /\ cfvData' = cfvData /\ chainData' = chainData
    BY <1>12 DEF ExtractPolicy
  <2>2. cfvData = v
    BY <1>6, <2>1
  <2>3. PICK op \in RecordOffsets(cfvData) :
           IsFirstFile(cfvData, PolicyTag, op) /\ FilePayload(cfvData, op) = boot.policy
    BY <1>5, <2>2
  <2>4. HasFile(cfvData, PolicyTag)
    BY <2>3 DEF HasFile
  <2>5. PICK o \in RecordOffsets(cfvData) :
           /\ IsFirstFile(cfvData, PolicyTag, o)
           /\ policyData' = FilePayload(cfvData, o)
           /\ pc' = "extractChain"
    BY <1>12, <2>4 DEF ExtractPolicy
  <2>6. o = op
    BY <2>3, <2>5, FirstFileUnique
  <2>7. ResolveFv(boot.gpaImage, cfvData', FALSE)
    BY <1>3, <2>1
  <2>. QED  BY <2>3, <2>5, <2>6, <2>7 DEF AfterPolicy, AfterChain
<1>13. CASE ExtractChain
  <2>1. pc = "extractChain" /\ cfvData' = cfvData /\ policyData' = policyData
    BY <1>13 DEF ExtractChain
  <2>2. cfvData = v
    BY <1>6, <2>1
  <2>3. PICK oc \in RecordOffsets(cfvData) :
           IsFirstFile(cfvData, ChainTag, oc) /\ FilePayload(cfvData, oc) = boot.chain
    BY <1>5, <2>2
  <2>4. HasFile(cfvData, ChainTag)
    BY <2>3 DEF HasFile
  <2>5. PICK o \in RecordOffsets(cfvData) :
           /\ IsFirstFile(cfvData, ChainTag, o)
           /\ chainData' = FilePayload(cfvData, o)
           /\ pc' = "savePolicy"
    BY <1>13, <2>4 DEF ExtractChain
  <2>6. o = oc
    BY <2>3, <2>5, FirstFileUnique
  <2>7. policyData = boot.policy
    BY <1>3, <2>1 DEF AfterPolicy
  <2>. QED  BY <2>1, <2>3, <2>5, <2>6, <2>7 DEF AfterPolicy, AfterChain
<1>14. CASE \/ SavePolicy \/ SaveChain \/ Deserialize \/ Verify \/ ConvertRootCa
            \/ CheckFmspc
  <2>1. pc \in AfterChain /\ policyData' = policyData /\ chainData' = chainData
    BY <1>14 DEF SavePolicy, SaveChain, Deserialize, Verify, ConvertRootCa, CheckFmspc,
                 AfterPolicy, AfterChain
  <2>2. policyData = boot.policy /\ chainData = boot.chain
    BY <1>3, <2>1 DEF AfterPolicy, AfterChain
  <2>3. pc' \notin {"extractPolicy", "extractChain"}
    BY <1>14 DEF SavePolicy, SaveChain, Deserialize, Verify, ConvertRootCa, CheckFmspc, Fail
  <2>. QED  BY <2>1, <2>2, <2>3
<1>15. CASE Exited \/ UNCHANGED vars
  BY <1>3, <1>15 DEF Exited, vars
<1>. QED  BY <1>7, <1>8, <1>9, <1>10, <1>11, <1>12, <1>13, <1>14, <1>15 DEF Next

(* The end-to-end contract of the image verifier (spec sections 2 and 8):  *)
(* for an IGVM file whose CFV pages are each given once with their bytes,  *)
(* over a region of whole pages whose guest memory resolves to a volume    *)
(* with policy p and issuer chain c, every run of main that gets past      *)
(* extraction holds exactly p and c, whatever the directive order, and     *)
(* never fails at FindCfv, at the header search or at an extraction.       *)
THEOREM PolicyFromCarriedImageHolds == Spec => []PolicyFromCarriedImage
<1> DEFINE Inv == TypeOK /\ RegionFacts /\ CarriedFacts
<1>1. Init => Inv
  BY BootAssumption, ContractAssumption
     DEF Init, TypeOK, Stages, RegionFacts, CarriedFacts, AfterPolicy, AfterChain
<1>2. Inv /\ [Next]_vars => Inv'
  BY TypeStep, RegionStep, CarriedStep
<1>3. Inv => PolicyFromCarriedImage
  <2> SUFFICES ASSUME Inv, WholePageImage, ImageCarries, PastExtraction
               PROVE  policyData = boot.policy /\ chainData = boot.chain
    BY DEF PolicyFromCarriedImage, PolicyFromImage, WholePageImage
  <2>1. pc \in AfterChain \/ (pc = "done" /\ errorAt \notin {"config", "parse"})
    BY DEF PastExtraction, TypeOK, Stages, AfterPolicy, AfterChain
  <2>. QED  BY <2>1 DEF CarriedFacts, AfterPolicy, AfterChain
<1>. QED  BY <1>1, <1>2, <1>3, PTL DEF Spec

=============================================================================
