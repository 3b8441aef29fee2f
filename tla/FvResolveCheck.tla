--------------------------- MODULE FvResolveCheck ---------------------------
(***************************************************************************)
(* The volume-header resolution of extract_cfv_from_igvm (main.rs:279-309) *)
(* applied to every buffer of at most MaxLen bytes and compared with the   *)
(* resolver the spec defines (section 4.3).  The buffers are any bytes:    *)
(* the code does not validate the header, which may be malformed.          *)
(***************************************************************************)
EXTENDS FvVolume

CONSTANT MaxLen

ASSUME MaxLenAssumption == MaxLen \in Nat

Buffers == UNION {[1 .. n -> Byte] : n \in 0 .. MaxLen}

VARIABLES
    input,     \* the buffer given to the resolution
    buf,       \* cfv_data after it
    resolved,  \* the resolution has returned or panicked
    panicked   \* it panicked

vars == <<input, buf, resolved, panicked>>

Init ==
    /\ input \in Buffers
    /\ buf = input
    /\ resolved = FALSE
    /\ panicked = FALSE

(* One call of the resolution.                                             *)
Resolve ==
    /\ ~resolved
    /\ \E panics \in BOOLEAN :
          /\ ResolveFv(input, buf', panics)
          /\ panicked' = panics
    /\ resolved' = TRUE
    /\ UNCHANGED input

(* The resolution has returned.                                            *)
Finished ==
    /\ resolved
    /\ UNCHANGED vars

Next == Resolve \/ Finished

Spec == Init /\ [][Next]_vars

-----------------------------------------------------------------------------
(* The first signature of spec section 4.3: the least offset of a match.  *)
(* The resolver of spec section 4.3, over unbounded integers: from the     *)
(* first signature s, if s >= SigOff, the volume starts at h = s - SigOff  *)
(* and is declaredLen bytes long, cut at the end of the buffer; otherwise  *)
(* the buffer is returned unchanged.                                       *)
SpecFirstSig(b) == CHOOSE o \in SigOffsets(b) : \A p \in SigOffsets(b) : o <= p

SpecResolve(b) ==
    LET S == SigOffsets(b)
        s == SpecFirstSig(b)
        h == s - SigOff
        declaredLen == b[h + LenOff + 1] + Base * b[h + LenOff + 2]
    IN  IF S = {} \/ s < SigOff THEN b
        ELSE IF h + declaredLen <= Len(b) THEN SubSeq(b, h + 1, h + declaredLen)
        ELSE SubSeq(b, h + 1, Len(b))

(* Whenever the code's resolution returns, it returns what the spec's      *)
(* resolver returns: the first signature is used, the volume starts        *)
(* SigOff bytes before it, and it is cut to the declared length or to the  *)
(* end of the buffer.                                                      *)
ResolveMatchesSpec ==
    resolved /\ ~panicked => buf = SpecResolve(input)

(* A declared length past the end of the region is a soft inconsistency:  *)
(* the resolver returns the volume from its header to the end of the       *)
(* buffer (spec section 4.3, step 4) and never aborts the tool.           *)
ResolveNeverPanics ==
    ~panicked

(* What the harness knows of the one call: the input is a buffer of bytes  *)
(* and, once the call returned, the result and the panic flag are the ones *)
(* ResolveFv relates to it.  The inductive form of ResolveMatchesSpec,     *)
(* with the agreement of the two resolvers as a lemma.                     *)
ResolveInv ==
    /\ input \in Seq(Byte)
    /\ panicked \in BOOLEAN
    /\ ~resolved => buf = input /\ panicked = FALSE
    /\ resolved => ResolveFv(input, buf, panicked)

=============================================================================
