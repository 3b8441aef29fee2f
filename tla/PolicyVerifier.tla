--------------------------- MODULE PolicyVerifier ---------------------------
(***************************************************************************)
(* The standalone policy verifier (tools/migtd-policy-verifier/src/        *)
(* main.rs): read a signed policy and an issuer chain from two files,      *)
(* deserialize and verify the policy, and look an optional FMSPC up as a   *)
(* key of its collateral.  The tool is one sequential thread; pc is the    *)
(* statement of main that runs next.                                       *)
(*                                                                         *)
(* File contents are abstracted to members of Docs; the policy library is  *)
(* external and is given by the constant relations JsonDocs, SignedBy and  *)
(* CollateralKeys.  A read may fail whatever the path names.               *)
(***************************************************************************)
EXTENDS Naturals

CONSTANTS
    Docs,            \* the contents a file may have
    Fmspcs,          \* FMSPC strings a user may pass with --fmspc
    JsonDocs,        \* contents RawPolicyData::deserialize_from_json accepts
    SignedBy,        \* <<policy, chain>>: verify(chain) succeeds
    CollateralKeys,  \* <<policy, fmspc>>: get_collaterals().contains_key(fmspc)
    NoValue          \* an absent Option value, or no content read yet

ExitCodes == {0, 1, 2}

ASSUME VerifierAssumption ==
    /\ JsonDocs \subseteq Docs
    /\ SignedBy \subseteq Docs \X Docs
    /\ CollateralKeys \subseteq Docs \X Fmspcs
    /\ NoValue \notin Docs \cup Fmspcs \cup ExitCodes

Stages == {"readPolicy", "readChain", "deserialize", "verify", "fmspc", "done"}

(* The command line: the contents of the --policy and --cert-chain files  *)
(* and the --fmspc option.                                                 *)
Args == [policy : Docs, chain : Docs, fmspc : Fmspcs \cup {NoValue}]

VARIABLES
    args,        \* the command line and the files it names
    pc,          \* the stage that runs next
    exitCode,    \* the process exit code, NoValue while running
    errorAt,     \* the stage whose error main returned, NoValue if none
    policyBytes, \* policy_bytes
    chainBytes   \* cert_chain_bytes

pvars == <<args, pc, exitCode, errorAt, policyBytes, chainBytes>>

(* main returns the Err of stage s: the process exits with code 1.         *)
PvFail(s) ==
    /\ pc' = "done"
    /\ exitCode' = 1
    /\ errorAt' = s

-----------------------------------------------------------------------------
PvInit ==
    /\ args \in Args
    /\ pc = "readPolicy"
    /\ exitCode = NoValue
    /\ errorAt = NoValue
    /\ policyBytes = NoValue
    /\ chainBytes = NoValue

(* fs::read(&args.policy)? (main.rs:26-27).                                *)
ReadPolicy ==
    /\ pc = "readPolicy"
    /\ \/ /\ policyBytes' = args.policy
          /\ pc' = "readChain"
          /\ UNCHANGED <<exitCode, errorAt>>
       \/ PvFail("readPolicy") /\ UNCHANGED policyBytes
    /\ UNCHANGED <<args, chainBytes>>

(* A failed read of the chain file that is reported but not returned.     *)
ReadChainNoReturn ==
    /\ pc = "readChain"
    /\ \/ /\ chainBytes' = args.chain
          /\ pc' = "deserialize"
          /\ UNCHANGED <<exitCode, errorAt>>
       \/ /\ pc' = "deserialize" /\ exitCode' = 1 /\ errorAt' = "readChain"
          /\ UNCHANGED chainBytes
    /\ UNCHANGED <<args, policyBytes>>

(* fs::read(&args.cert_chain)? (main.rs:28-29).                            *)
ReadChain ==
    /\ pc = "readChain"
    /\ \/ /\ chainBytes' = args.chain
          /\ pc' = "deserialize"
          /\ UNCHANGED <<exitCode, errorAt>>
       \/ PvFail("readChain") /\ UNCHANGED chainBytes
    /\ UNCHANGED <<args, policyBytes>>

(* RawPolicyData::deserialize_from_json(&policy_bytes)? (main.rs:31-32).   *)
PvDeserialize ==
    /\ pc = "deserialize"
    /\ IF policyBytes \in JsonDocs
         THEN pc' = "verify" /\ UNCHANGED <<exitCode, errorAt>>
         ELSE PvFail("deserialize")
    /\ UNCHANGED <<args, policyBytes, chainBytes>>

(* policy.verify(&cert_chain_bytes, None, None)? (main.rs:33-37).          *)
PvVerify ==
    /\ pc = "verify"
    /\ IF <<policyBytes, chainBytes>> \in SignedBy
         THEN pc' = "fmspc" /\ UNCHANGED <<exitCode, errorAt>>
         ELSE PvFail("verify")
    /\ UNCHANGED <<args, policyBytes, chainBytes>>

(* The FMSPC check with the comparison inverted.                          *)
PvCheckFmspcInverted ==
    /\ pc = "fmspc"
    /\ pc' = "done"
    /\ exitCode' = IF args.fmspc = NoValue \/ <<policyBytes, args.fmspc>> \notin CollateralKeys
                     THEN 0 ELSE 2
    /\ UNCHANGED <<args, errorAt, policyBytes, chainBytes>>

(* if let Some(fmspc) = args.fmspc { .. contains_key .. exit(2) } and the *)
(* Ok(()) of main (main.rs:39-49).                                         *)
PvCheckFmspc ==
    /\ pc = "fmspc"
    /\ pc' = "done"
    /\ exitCode' = IF args.fmspc = NoValue \/ <<policyBytes, args.fmspc>> \in CollateralKeys
                     THEN 0 ELSE 2
    /\ UNCHANGED <<args, errorAt, policyBytes, chainBytes>>

(* The process has exited.                                                 *)
PvExited ==
    /\ pc = "done"
    /\ UNCHANGED pvars

PvNext ==
    \/ ReadPolicy \/ ReadChain \/ PvDeserialize \/ PvVerify \/ PvCheckFmspc
    \/ PvExited

PvSpec == PvInit /\ [][PvNext]_pvars

(* One process that is never descheduled for good; both reads and the      *)
(* policy library calls return.                                            *)
PvFairSpec == PvSpec /\ WF_pvars(PvNext)

-----------------------------------------------------------------------------
(* Every variable has its type, and the process has an exit code exactly  *)
(* when it has stopped: no error of main falls through to a later stage.   *)
PvTypeOK ==
    /\ args \in Args
    /\ pc \in Stages
    /\ exitCode \in ExitCodes \cup {NoValue}
    /\ (exitCode = NoValue) <=> (pc # "done")
    /\ errorAt \in Stages \cup {NoValue}
    /\ policyBytes \in Docs \cup {NoValue}
    /\ chainBytes \in Docs \cup {NoValue}

(* The exit-code convention of the standalone verifier (spec section 6):  *)
(* it exits 0 or 2 only when the contents of the --policy file were        *)
(* accepted as JSON and verified against the contents of the --cert-chain  *)
(* file, and 2 exactly when a requested FMSPC is not a collateral key of   *)
(* that policy.                                                            *)
PvExitContract ==
    exitCode \in {0, 2} =>
        /\ policyBytes = args.policy /\ chainBytes = args.chain
        /\ args.policy \in JsonDocs
        /\ <<args.policy, args.chain>> \in SignedBy
        /\ (exitCode = 2 <=> /\ args.fmspc # NoValue
                             /\ <<args.policy, args.fmspc>> \notin CollateralKeys)

-----------------------------------------------------------------------------
(* The refinement mapping to the abstract gate.  This tool converts no     *)
(* root CA, so every policy passes that test; its FMSPC query is           *)
(* contains_key.                                                           *)
PvGate == INSTANCE PolicyGate WITH
              RootCaOk <- Docs,
              Collateral <- CollateralKeys,
              request <- args.fmspc,
              policy <- IF chainBytes = NoValue THEN NoValue ELSE policyBytes,
              chain <- chainBytes,
              outcome <- exitCode

(* The standalone verifier implements the same policy gate as the image    *)
(* verifier (spec section 6: the same exit-code convention).               *)
PvGateRefinement == PvGate!GateSpec

(* The stage reached determines what is already known of the two files:   *)
(* the inductive form of PvExitContract.                                   *)
PvStageFacts ==
    /\ pc \in {"readChain", "deserialize", "verify", "fmspc"} => policyBytes = args.policy
    /\ pc \in {"deserialize", "verify", "fmspc"} => chainBytes = args.chain
    /\ pc \in {"readPolicy", "readChain"} => chainBytes = NoValue
    /\ pc \in {"verify", "fmspc"} => policyBytes \in JsonDocs
    /\ pc = "fmspc" => <<policyBytes, chainBytes>> \in SignedBy

PvInv == PvTypeOK /\ PvStageFacts /\ PvExitContract

=============================================================================
