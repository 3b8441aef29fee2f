---------------------------- MODULE IgvmVerifier ----------------------------
(***************************************************************************)
(* The run of the migtd-igvm-verifier tool (tools/migtd-igvm-verifier/     *)
(* src/main.rs): load the build configuration, parse the IGVM file,        *)
(* rebuild the CFV from its page-data directives, re-slice it to the       *)
(* firmware volume, extract the policy and issuer-chain files, optionally  *)
(* save them, deserialize and verify the policy, convert its root CA, and  *)
(* check an FMSPC.  The tool is one sequential thread; pc is the statement *)
(* of main (or of extract_cfv_from_igvm) that runs next.                   *)
(*                                                                         *)
(* The policy library (RawPolicyData, VerifiedPolicy) and crypto are       *)
(* external; their results are given by the constant relations JsonDocs,  *)
(* SignedBy, PemRootCa and Collateral over payloads.  The IGVM parser is   *)
(* external too and may reject a file.                                     *)
(***************************************************************************)
EXTENDS FvVolume

CONSTANTS
    PageSize,     \* bytes per IGVM page
    CfvGpa,       \* CFV_GPA (0x2000000)
    CfvSizes,     \* values of the Config size in image_layout.json
    Boots,        \* the IGVM files the tool may be given (see BootInput)
    Fmspcs,       \* FMSPC strings a user may pass with --fmspc
    JsonDocs,     \* payloads RawPolicyData::deserialize_from_json accepts
    SignedBy,     \* <<policy, chain>>: verify(chain) succeeds
    PemRootCa,    \* policies whose root CA pem_cert_to_der accepts
    Collateral,   \* <<policy, fmspc>>: get_tcb_with_fmspc finds the FMSPC
    NoValue       \* an absent Option value

PageData == [gpa : Nat, data : Seq(Byte)]

(* An IGVM file: its page-data directives in file order, and, for stating *)
(* properties only, the bytes the guest sees at [CfvGpa, CfvGpa + size)    *)
(* (gpaImage) and the payloads of the policy and issuer-chain files of the *)
(* volume the image was built from.                                        *)
BootInput == [dirs : Seq(PageData), gpaImage : Seq(Byte),
              policy : Byte, chain : Byte]

(* 0 success, 1 an Err returned from main, 2 the FMSPC is absent, 101 a   *)
(* panic.                                                                  *)
ExitCodes == {0, 1, 2, 101}

ASSUME PageAssumption == PageSize \in Nat \ {0} /\ CfvGpa \in Nat
ASSUME SizeAssumption == CfvSizes \subseteq Nat
ASSUME BootAssumption == Boots \subseteq BootInput
ASSUME ContractAssumption ==
    /\ JsonDocs \subseteq Byte
    /\ SignedBy \subseteq Byte \X Byte
    /\ PemRootCa \subseteq Byte
    /\ Collateral \subseteq Byte \X Fmspcs
    /\ NoValue \notin Byte \cup Fmspcs \cup ExitCodes

Stages == {"config", "parse", "findCfv", "collect", "resolve", "extractPolicy",
           "extractChain", "savePolicy", "saveChain", "deserialize", "verify",
           "rootCa", "fmspc", "done"}

ASSUME StageAssumption == NoValue \notin Stages

Args == [cfvSize : CfvSizes, fmspc : Fmspcs \cup {NoValue},
         savePolicy : BOOLEAN, saveChain : BOOLEAN]

VARIABLES
    boot,        \* the IGVM file given with --igvm
    args,        \* the command line and the Config size
    pc,          \* the stage that runs next
    exitCode,    \* the process exit code, NoValue while running
    errorAt,     \* the stage whose error main returned, NoValue if none
    consumed,    \* indices of the in-range pages already appended
    cfvData,     \* the buffer cfv_data
    policyData,  \* the policy payload extracted from the CFV
    chainData,   \* the issuer-chain payload extracted from the CFV
    saved        \* the files written by --save-policy / --save-chain

vars == <<boot, args, pc, exitCode, errorAt, consumed, cfvData, policyData,
          chainData, saved>>

-----------------------------------------------------------------------------
Zeros(n) == [k \in 1 .. n |-> 0]

(* Indices of the page-data directives whose GPA lies in                  *)
(* [start_gpa, end_gpa) (main.rs:265-268).                                 *)
InRange(i) ==
    /\ CfvGpa <= boot.dirs[i].gpa
    /\ boot.dirs[i].gpa < CfvGpa + args.cfvSize

(* Page order without the sort of main.rs:253: file order.               *)
FileOrder(i, j) == i < j

(* all_pages.sort_by_key(|(gpa, _)| *gpa) is a stable sort: page i comes  *)
(* before page j in all_pages.                                             *)
SortsBefore(i, j) ==
    \/ boot.dirs[i].gpa < boot.dirs[j].gpa
    \/ boot.dirs[i].gpa = boot.dirs[j].gpa /\ i < j

Remaining == {i \in DOMAIN boot.dirs : InRange(i) /\ i \notin consumed}

(* main returns the Err of stage s: the process exits with code 1.         *)
Fail(s) ==
    /\ pc' = "done"
    /\ exitCode' = 1
    /\ errorAt' = s

-----------------------------------------------------------------------------
Init ==
    /\ boot \in Boots
    /\ args \in Args
    /\ pc = "config"
    /\ exitCode = NoValue
    /\ errorAt = NoValue
    /\ consumed = {}
    /\ cfvData = <<>>
    /\ policyData = NoValue
    /\ chainData = NoValue
    /\ saved = {}

(* Read and parse image_layout.json and metadata.json, find the CFV        *)
(* section and parse its hex fields (main.rs:88-114); any of these may     *)
(* fail on the files given.                                                *)
LoadConfig ==
    /\ pc = "config"
    /\ \/ pc' = "parse" /\ UNCHANGED <<exitCode, errorAt>>
       \/ Fail("config")
    /\ UNCHANGED <<boot, args, consumed, cfvData, policyData, chainData, saved>>

(* Read and parse the IGVM file and collect its page-data directives      *)
(* (main.rs:118-123, 232-250).                                             *)
ParseIgvm ==
    /\ pc = "parse"
    /\ \/ /\ boot.dirs # <<>>
          /\ pc' = "findCfv"
          /\ UNCHANGED <<exitCode, errorAt>>
       \/ Fail("parse")
    /\ UNCHANGED <<boot, args, consumed, cfvData, policyData, chainData, saved>>

(* The CFV is present iff some page at CFV_GPA has data (main.rs:256-259). *)
FindCfv ==
    /\ pc = "findCfv"
    /\ IF \E i \in DOMAIN boot.dirs : boot.dirs[i].gpa = CfvGpa /\ boot.dirs[i].data # <<>>
         THEN pc' = "collect" /\ UNCHANGED <<exitCode, errorAt>>
         ELSE Fail("findCfv")
    /\ UNCHANGED <<boot, args, consumed, cfvData, policyData, chainData, saved>>

(* One iteration of the loop of main.rs:267-271 over the sorted pages:    *)
(* the next in-range page is appended to cfv_data.                         *)
CollectPage ==
    /\ pc = "collect"
    /\ \E i \in Remaining :
          /\ \A j \in Remaining : SortsBefore(i, j) \/ i = j
          /\ cfvData' = cfvData \o boot.dirs[i].data
          /\ consumed' = consumed \cup {i}
    /\ UNCHANGED <<boot, args, pc, exitCode, errorAt, policyData, chainData, saved>>

(* After the loop, zero-pad cfv_data up to the CFV size (main.rs:274-277). *)
PadCfv ==
    /\ pc = "collect"
    /\ Remaining = {}
    /\ cfvData' = IF Len(cfvData) < args.cfvSize
                    THEN cfvData \o Zeros(args.cfvSize - Len(cfvData))
                    ELSE cfvData
    /\ pc' = "resolve"
    /\ UNCHANGED <<boot, args, exitCode, errorAt, consumed, policyData, chainData, saved>>

(* Locate "_FVH" and re-slice cfv_data to the volume (main.rs:279-311); *)
(* a panic ends the process with code 101.                                 *)
ResolveHeader ==
    /\ pc = "resolve"
    /\ \E panics \in BOOLEAN :
          /\ ResolveFv(cfvData, cfvData', panics)
          /\ IF panics
               THEN pc' = "done" /\ exitCode' = 101
               ELSE pc' = "extractPolicy" /\ UNCHANGED exitCode
    /\ UNCHANGED <<boot, args, errorAt, consumed, policyData, chainData, saved>>

(* extract_file_from_cfv(&cfv_data, MIGTD_POLICY_FFS_GUID) (main.rs:128,   *)
(* 316-330).                                                               *)
ExtractPolicy ==
    /\ pc = "extractPolicy"
    /\ \/ \E o \in RecordOffsets(cfvData) :
             /\ IsFirstFile(cfvData, PolicyTag, o)
             /\ policyData' = FilePayload(cfvData, o)
             /\ pc' = "extractChain"
             /\ UNCHANGED <<exitCode, errorAt>>
       \/ /\ ~HasFile(cfvData, PolicyTag)
          /\ Fail("extractPolicy")
          /\ UNCHANGED policyData
    /\ UNCHANGED <<boot, args, consumed, cfvData, chainData, saved>>

(* The same for MIGTD_POLICY_ISSUER_CHAIN_FFS_GUID (main.rs:133).          *)
ExtractChain ==
    /\ pc = "extractChain"
    /\ \/ \E o \in RecordOffsets(cfvData) :
             /\ IsFirstFile(cfvData, ChainTag, o)
             /\ chainData' = FilePayload(cfvData, o)
             /\ pc' = "savePolicy"
             /\ UNCHANGED <<exitCode, errorAt>>
       \/ /\ ~HasFile(cfvData, ChainTag)
          /\ Fail("extractChain")
          /\ UNCHANGED chainData
    /\ UNCHANGED <<boot, args, consumed, cfvData, policyData, saved>>

(* if let Some(path) = &args.save_policy { fs::write(path, ..)? }          *)
(* (main.rs:137-140); the write may fail.                                  *)
SavePolicy ==
    /\ pc = "savePolicy"
    /\ \/ /\ ~args.savePolicy
          /\ pc' = "saveChain"
          /\ UNCHANGED <<exitCode, errorAt, saved>>
       \/ /\ args.savePolicy
          /\ pc' = "saveChain"
          /\ saved' = saved \cup {"policy"}
          /\ UNCHANGED <<exitCode, errorAt>>
       \/ /\ args.savePolicy
          /\ Fail("savePolicy")
          /\ UNCHANGED saved
    /\ UNCHANGED <<boot, args, consumed, cfvData, policyData, chainData>>

(* The same for --save-chain (main.rs:141-144).                            *)
SaveChain ==
    /\ pc = "saveChain"
    /\ \/ /\ ~args.saveChain
          /\ pc' = "deserialize"
          /\ UNCHANGED <<exitCode, errorAt, saved>>
       \/ /\ args.saveChain
          /\ pc' = "deserialize"
          /\ saved' = saved \cup {"chain"}
          /\ UNCHANGED <<exitCode, errorAt>>
       \/ /\ args.saveChain
          /\ Fail("saveChain")
          /\ UNCHANGED saved
    /\ UNCHANGED <<boot, args, consumed, cfvData, policyData, chainData>>

(* RawPolicyData::deserialize_from_json(&policy_data) (main.rs:148-150).   *)
Deserialize ==
    /\ pc = "deserialize"
    /\ IF policyData \in JsonDocs
         THEN pc' = "verify" /\ UNCHANGED <<exitCode, errorAt>>
         ELSE Fail("deserialize")
    /\ UNCHANGED <<boot, args, consumed, cfvData, policyData, chainData, saved>>

(* A verification failure that is reported but not returned.             *)
VerifyNoReturn ==
    /\ pc = "verify"
    /\ IF <<policyData, chainData>> \in SignedBy
         THEN pc' = "rootCa" /\ UNCHANGED <<exitCode, errorAt>>
         ELSE pc' = "rootCa" /\ exitCode' = 1 /\ errorAt' = "verify"
    /\ UNCHANGED <<boot, args, consumed, cfvData, policyData, chainData, saved>>

(* raw_policy.verify(&issuer_chain_data, None, None) (main.rs:152-158).    *)
Verify ==
    /\ pc = "verify"
    /\ IF <<policyData, chainData>> \in SignedBy
         THEN pc' = "rootCa" /\ UNCHANGED <<exitCode, errorAt>>
         ELSE Fail("verify")
    /\ UNCHANGED <<boot, args, consumed, cfvData, policyData, chainData, saved>>

(* crypto::pem_cert_to_der of the collateral's root CA (main.rs:161-167).  *)
ConvertRootCa ==
    /\ pc = "rootCa"
    /\ IF policyData \in PemRootCa
         THEN pc' = "fmspc" /\ UNCHANGED <<exitCode, errorAt>>
         ELSE Fail("rootCa")
    /\ UNCHANGED <<boot, args, consumed, cfvData, policyData, chainData, saved>>

(* The FMSPC check without std::process::exit(2).                         *)
CheckFmspcNoExit2 ==
    /\ pc = "fmspc"
    /\ pc' = "done"
    /\ exitCode' = 0
    /\ UNCHANGED <<boot, args, errorAt, consumed, cfvData, policyData, chainData, saved>>

(* The optional FMSPC check and the end of main (main.rs:209-226); the    *)
(* FMSPC listing of lines 170-206 only prints.                             *)
CheckFmspc ==
    /\ pc = "fmspc"
    /\ pc' = "done"
    /\ exitCode' = IF args.fmspc = NoValue \/ <<policyData, args.fmspc>> \in Collateral
                     THEN 0 ELSE 2
    /\ UNCHANGED <<boot, args, errorAt, consumed, cfvData, policyData, chainData, saved>>

(* The process has exited.                                                 *)
Exited ==
    /\ pc = "done"
    /\ UNCHANGED vars

Next ==
    \/ LoadConfig \/ ParseIgvm \/ FindCfv \/ CollectPage \/ PadCfv
    \/ ResolveHeader \/ ExtractPolicy \/ ExtractChain \/ SavePolicy
    \/ SaveChain \/ Deserialize \/ Verify \/ ConvertRootCa \/ CheckFmspc
    \/ Exited

Spec == Init /\ [][Next]_vars

(* The tool is one process that is never descheduled for good: while it   *)
(* has a step to take, it takes one.  Every external call (file I/O, the  *)
(* IGVM parser, the policy library) returns.                               *)
FairSpec == Spec /\ WF_vars(Next)

-----------------------------------------------------------------------------
(***************************************************************************)
(* Properties.                                                             *)
(***************************************************************************)

(* Every variable has its type, and the process has an exit code exactly  *)
(* when it has stopped: no error path of main falls through to a later    *)
(* stage.                                                                  *)
TypeOK ==
    /\ boot \in BootInput
    /\ args \in Args
    /\ pc \in Stages
    /\ exitCode \in ExitCodes \cup {NoValue}
    /\ (exitCode = NoValue) <=> (pc # "done")
    /\ errorAt \in Stages \cup {NoValue}
    /\ consumed \subseteq DOMAIN boot.dirs
    /\ cfvData \in Seq(Byte)
    /\ policyData \in Byte \cup {NoValue}
    /\ chainData \in Byte \cup {NoValue}
    /\ saved \subseteq {"policy", "chain"}

(* The exit code contract of main (spec sections 4.5, 6 and 7): the tool  *)
(* exits 0 or 2 only after the policy file of the rebuilt volume was      *)
(* deserialized and verified against the issuer-chain file of the same    *)
(* volume and its root CA converted; it exits 2 exactly when a requested  *)
(* FMSPC is absent from that policy's collateral; every exit 1 names the  *)
(* stage that failed.                                                      *)
ExitContract ==
    /\ exitCode \in {0, 2} =>
          /\ \E o \in RecordOffsets(cfvData) :
                IsFirstFile(cfvData, PolicyTag, o) /\ policyData = FilePayload(cfvData, o)
          /\ \E o \in RecordOffsets(cfvData) :
                IsFirstFile(cfvData, ChainTag, o) /\ chainData = FilePayload(cfvData, o)
          /\ policyData \in JsonDocs
          /\ <<policyData, chainData>> \in SignedBy
          /\ policyData \in PemRootCa
          /\ (exitCode = 2 <=> /\ args.fmspc # NoValue
                               /\ <<policyData, args.fmspc>> \notin Collateral)
    /\ exitCode = 1 => errorAt # NoValue

(* Offsets, relative to CfvGpa, of the pages of the CFV region.           *)
CfvPages == {k * PageSize : k \in 0 .. ((args.cfvSize - 1) \div PageSize)}

(* Every page of the CFV region is given by exactly one page-data         *)
(* directive, which carries the bytes the guest sees there.                *)
FaithfulImage ==
    /\ \A i \in DOMAIN boot.dirs :
          InRange(i) =>
             LET off == boot.dirs[i].gpa - CfvGpa
             IN  /\ off \in CfvPages
                 /\ boot.dirs[i].data = SubSeq(boot.gpaImage, off + 1, off + PageSize)
    /\ \A off \in CfvPages :
          \E i \in DOMAIN boot.dirs :
             /\ boot.dirs[i].gpa = CfvGpa + off
             /\ \A j \in DOMAIN boot.dirs : boot.dirs[j].gpa = CfvGpa + off => j = i

(* The run got past loading the configuration and parsing the IGVM file   *)
(* and past extracting the two files or failing at it.                     *)
PastExtraction ==
    /\ pc \notin {"config", "parse", "findCfv", "collect", "resolve",
                   "extractPolicy", "extractChain"}
    /\ errorAt \notin {"config", "parse"}

(* End to end (spec sections 2 and 8, scenario A): for an IGVM file whose  *)
(* CFV pages are each given once with their bytes, rebuilding the region,  *)
(* re-slicing it by its FV header and looking the two GUIDs up yields the  *)
(* payloads of the volume the image was built from, whatever the padding   *)
(* before the header, the directive order and a declared length past the  *)
(* end of the region.                                                      *)
PolicyFromImage ==
    FaithfulImage /\ PastExtraction =>
        /\ policyData = boot.policy
        /\ chainData = boot.chain

(* The buffers the header search can return for buf: buf itself, or its  *)
(* slice at a signature found at least SigOff bytes in.                    *)
ResolveCandidates(buf) ==
    {buf} \cup {FvSlice(buf, s - SigOff) : s \in {s \in SigOffsets(buf) : s >= SigOff}}

(* The image carries the payloads of its volume: the header search of     *)
(* main.rs:279-311 resolves the guest memory of the region, without a     *)
(* panic, to a volume whose first policy and issuer-chain files hold       *)
(* boot.policy and boot.chain.                                             *)
ImageCarries ==
    \E v \in ResolveCandidates(boot.gpaImage) :
        /\ ResolveFv(boot.gpaImage, v, FALSE)
        /\ \E o \in RecordOffsets(v) :
              IsFirstFile(v, PolicyTag, o) /\ FilePayload(v, o) = boot.policy
        /\ \E o \in RecordOffsets(v) :
              IsFirstFile(v, ChainTag, o) /\ FilePayload(v, o) = boot.chain

(* The Region Reconstructor's contract (spec sections 4.2 and 8): the      *)
(* buffer rebuilt from the pages is the guest memory of                    *)
(* [CFV_GPA, CFV_GPA + size), of exactly that length, with every byte no   *)
(* page covers zero.                                                       *)
RegionIsGpaImage ==
    pc = "resolve" => cfvData = boot.gpaImage

(* An image that meets the contract's premise: every CFV page given once  *)
(* with its bytes, and a region of whole pages that the guest memory      *)
(* fills exactly.                                                          *)
WholePageImage ==
    /\ FaithfulImage
    /\ args.cfvSize % PageSize = 0
    /\ Len(boot.gpaImage) = args.cfvSize

(* The collect loop of main.rs:253-277 keeps the contract for such images: *)
(* whatever the order of the directives in the file, the GPA sort makes   *)
(* the loop append the pages in address order, none twice and none        *)
(* skipped, so the buffer handed to the header search is the guest memory *)
(* of the region.                                                          *)
RegionFromWholePages ==
    WholePageImage => RegionIsGpaImage

(* PolicyFromImage for every image that is a region of whole pages and    *)
(* carries its payloads: once past extraction, the tool holds exactly the  *)
(* policy and the issuer chain of the volume, so no failure at FindCfv,   *)
(* at the header search or at an extraction, and no other copy of a file,  *)
(* can take their place (main.rs:118-133, 253-330).                        *)
PolicyFromCarriedImage ==
    WholePageImage /\ ImageCarries => PolicyFromImage

(* The loop's invariant for such images: the buffer is a prefix of the    *)
(* guest memory ending on a page boundary, and the pages consumed are      *)
(* exactly the in-range ones below its end.                                *)
CollectFacts ==
    /\ Len(cfvData) % PageSize = 0
    /\ Len(cfvData) <= args.cfvSize
    /\ cfvData = SubSeq(boot.gpaImage, 1, Len(cfvData))
    /\ \A i \in DOMAIN boot.dirs :
          InRange(i) => (i \in consumed <=> boot.dirs[i].gpa - CfvGpa < Len(cfvData))

(* The inductive form of RegionFromWholePages: nothing is collected before *)
(* the loop, the loop keeps CollectFacts, and the padding that ends it     *)
(* leaves the guest memory.                                                *)
RegionFacts ==
    WholePageImage =>
        /\ pc \in {"config", "parse", "findCfv"} => consumed = {} /\ cfvData = <<>>
        /\ pc = "collect" => CollectFacts
        /\ pc = "resolve" => cfvData = boot.gpaImage

(* The stages after each extraction.                                      *)
AfterPolicy == {"extractChain", "savePolicy", "saveChain", "deserialize", "verify",
                "rootCa", "fmspc"}
AfterChain == AfterPolicy \ {"extractChain"}

(* What each stage of main knows from the stages before it: the two       *)
(* payloads are the first files of the buffer, which no later stage       *)
(* changes, and each passed check still holds.  The inductive form of     *)
(* ExitContract.                                                           *)
StageFacts ==
    /\ pc \in AfterPolicy =>
          \E o \in RecordOffsets(cfvData) :
             IsFirstFile(cfvData, PolicyTag, o) /\ policyData = FilePayload(cfvData, o)
    /\ pc \in AfterChain =>
          \E o \in RecordOffsets(cfvData) :
             IsFirstFile(cfvData, ChainTag, o) /\ chainData = FilePayload(cfvData, o)
    /\ pc \notin AfterChain \cup {"done"} => chainData = NoValue
    /\ pc \in {"verify", "rootCa", "fmspc"} => policyData \in JsonDocs
    /\ pc \in {"rootCa", "fmspc"} => <<policyData, chainData>> \in SignedBy
    /\ pc = "fmspc" => policyData \in PemRootCa

IInv == TypeOK /\ StageFacts /\ ExitContract

(* The inductive form of PolicyFromCarriedImage, with RegionFacts: the      *)
(* header search turns the rebuilt region into the volume the image        *)
(* carries, each extraction takes that volume's payload, and the run stops *)
(* before extraction only when the configuration or the IGVM file fails.   *)
CarriedFacts ==
    WholePageImage /\ ImageCarries =>
        /\ pc \in {"extractPolicy", "extractChain"} => ResolveFv(boot.gpaImage, cfvData, FALSE)
        /\ pc \in AfterPolicy => policyData = boot.policy
        /\ pc \in AfterChain => chainData = boot.chain
        /\ pc = "done" =>
              \/ errorAt \in {"config", "parse"}
              \/ policyData = boot.policy /\ chainData = boot.chain

-----------------------------------------------------------------------------
(* The refinement mapping to the abstract gate: the pair is obtained when  *)
(* the issuer chain has been extracted, and the outcome is the exit code.  *)
Gate == INSTANCE PolicyGate WITH
            Docs <- Byte,
            RootCaOk <- PemRootCa,
            request <- args.fmspc,
            policy <- IF chainData = NoValue THEN NoValue ELSE policyData,
            chain <- chainData,
            outcome <- exitCode

(* The image verifier implements the policy gate of the spec: it decides   *)
(* its exit code once and eventually, never changes the extracted policy   *)
(* and chain, and exits 0 or 2 only for a policy that deserialized,        *)
(* verified against the chain extracted with it and has a convertible root *)
(* CA.                                                                     *)
GateRefinement == Gate!GateSpec

=============================================================================
