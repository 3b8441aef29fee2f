----------------------------- MODULE PolicyGate -----------------------------
(***************************************************************************)
(* What the two verifier tools promise (spec sections 4.5, 5 and 6), with  *)
(* no stages: a tool obtains one policy and one issuer chain, and then     *)
(* decides its exit code once.  It may reject (exit 1, or 101 for a        *)
(* panic) at any time; it admits (exit 0, or 2 for a requested FMSPC that  *)
(* the collateral lacks) only a policy that deserializes, verifies against *)
(* the chain it obtained with it, and whose root CA converts.  Neither the *)
(* pair nor the exit code changes once set, and a decision is eventually   *)
(* made.                                                                   *)
(***************************************************************************)
CONSTANTS
    Docs,        \* the payloads a policy or a chain may be
    Fmspcs,      \* FMSPC strings a user may pass with --fmspc
    JsonDocs,    \* policies that deserialize
    SignedBy,    \* <<policy, chain>> pairs that verify
    RootCaOk,    \* policies whose root CA converts to DER
    Collateral,  \* <<policy, fmspc>>: the policy's collateral has the FMSPC
    NoValue      \* nothing yet, or no --fmspc

VARIABLES
    request,  \* the --fmspc option
    policy,   \* the policy obtained, NoValue before
    chain,    \* the issuer chain obtained with it
    outcome   \* the exit code, NoValue before the decision

gvars == <<request, policy, chain, outcome>>

GateInit ==
    /\ request \in Fmspcs \cup {NoValue}
    /\ policy = NoValue
    /\ chain = NoValue
    /\ outcome = NoValue

(* The policy and the chain are obtained, once.                            *)
Obtain ==
    /\ outcome = NoValue
    /\ policy = NoValue
    /\ policy' \in Docs
    /\ chain' \in Docs
    /\ UNCHANGED <<request, outcome>>

(* The tool fails.                                                         *)
Reject ==
    /\ outcome = NoValue
    /\ outcome' \in {1, 101}
    /\ UNCHANGED <<request, policy, chain>>

(* The tool accepts a verified policy and answers the FMSPC query.        *)
Admit ==
    /\ outcome = NoValue
    /\ policy # NoValue
    /\ policy \in JsonDocs
    /\ <<policy, chain>> \in SignedBy
    /\ policy \in RootCaOk
    /\ outcome' = IF request = NoValue \/ <<policy, request>> \in Collateral
                    THEN 0 ELSE 2
    /\ UNCHANGED <<request, policy, chain>>

GateNext == Obtain \/ Reject \/ Admit

(* The safety part of the gate: what a tool may do, without the promise   *)
(* that it decides.                                                        *)
GateSafety == GateInit /\ [][GateNext]_gvars

GateSpec == GateInit /\ [][GateNext]_gvars /\ WF_gvars(Reject \/ Admit)

=============================================================================
