------------------------------ MODULE FvVolume ------------------------------
(***************************************************************************)
(* The byte-level operators of the Configuration Firmware Volume (CFV)     *)
(* handling in tools/migtd-igvm-verifier/src/main.rs: locating the "_FVH"  *)
(* signature, reading the little-endian FvLength field, re-slicing the     *)
(* buffer to the volume (extract_cfv_from_igvm, lines 279-309), and the    *)
(* lookup of a RAW file by GUID (extract_file_from_cfv -> the td-shim      *)
(* firmware-volume parser).                                                *)
(*                                                                         *)
(* A buffer is a sequence of bytes; byte offsets are 0-based as in Rust,   *)
(* so the byte at offset o is buf[o+1].  The header layout is scaled down: *)
(* the FvLength field is two bytes of base Base at LenOff (0x20 in the     *)
(* code, eight bytes of base 256) and the signature FvhSig starts at       *)
(* SigOff (0x28 in the code).  A usize addition wraps modulo UsizeMod,     *)
(* which is the range of the length field, as u64 and usize coincide on   *)
(* the 64-bit targets the tool is built for.                               *)
(***************************************************************************)
EXTENDS Naturals, Sequences

CONSTANTS
    Base,       \* number of distinct byte values (256 in the code)
    FvhSig,     \* the signature bytes b"_FVH"
    LenOff,     \* offset of the FvLength field in the header (0x20)
    SigOff,     \* offset of the signature in the header (0x28)
    PolicyTag,  \* the (FV_FILETYPE_RAW, MIGTD_POLICY_FFS_GUID) key
    ChainTag    \* the (FV_FILETYPE_RAW, MIGTD_POLICY_ISSUER_CHAIN_FFS_GUID) key

Byte == 0 .. (Base - 1)

ASSUME BaseAssumption == Base \in Nat /\ Base >= 2
ASSUME SigAssumption == FvhSig \in Seq(Byte) /\ Len(FvhSig) >= 1
ASSUME HeaderAssumption ==
    /\ LenOff \in Nat /\ SigOff \in Nat
    /\ LenOff + 2 <= SigOff          \* the length field precedes the signature
ASSUME TagAssumption == PolicyTag \in Byte /\ ChainTag \in Byte /\ PolicyTag # ChainTag

UsizeMod == Base * Base

(* Length of the header up to and including the signature; file records   *)
(* follow it.                                                             *)
HdrLen == SigOff + Len(FvhSig)

(* A file record is abstracted to two bytes: its key (type and GUID) and   *)
(* its payload.                                                           *)
RecLen == 2

-----------------------------------------------------------------------------
(* cfv_data.windows(4) compared with fvh_signature (main.rs:281).          *)
SigAt(buf, o) == \A k \in 1 .. Len(FvhSig) : buf[o + k] = FvhSig[k]

SigOffsets(buf) == {o \in 0 .. (Len(buf) - Len(FvhSig)) : SigAt(buf, o)}

(* o is the offset that windows(..).position(..) returns: the first match. *)
IsFirstSig(buf, o) ==
    /\ o \in SigOffsets(buf)
    /\ \A p \in SigOffsets(buf) : o <= p

(* The branch of main.rs:281-284 that recomputes the volume bounds is      *)
(* taken: the first signature exists and lies at least SigOff bytes in.    *)
HeaderLocated(buf) == \E o \in SigOffsets(buf) : IsFirstSig(buf, o) /\ o >= SigOff

(* u64::from_le_bytes of the FvLength field of the header at fvStart       *)
(* (main.rs:290-295).                                                      *)
FvLength(buf, fvStart) ==
    buf[fvStart + LenOff + 1] + Base * buf[fvStart + LenOff + 2]

(* fv_start + fv_length as usize: a release build wraps the sum.           *)
FvEnd(buf, fvStart) == (fvStart + FvLength(buf, fvStart)) % UsizeMod

(* The slice cfv_data[fv_start..fv_start + fv_length] of main.rs:300 has   *)
(* an end before its start, which panics.  A debug build panics one step  *)
(* earlier, on the overflowing addition; the outcome is the same.          *)
SlicePanics(buf, fvStart) ==
    /\ fvStart + SigOff < Len(buf)
    /\ FvEnd(buf, fvStart) <= Len(buf)
    /\ FvEnd(buf, fvStart) < fvStart

(* The slice taken with an inclusive range, fv_start..=fv_start+fv_length. *)
FvSliceInclusive(buf, fvStart) ==
    IF fvStart + SigOff >= Len(buf) THEN buf
    ELSE IF FvEnd(buf, fvStart) < Len(buf)
         THEN SubSeq(buf, fvStart + 1, FvEnd(buf, fvStart) + 1)
         ELSE SubSeq(buf, fvStart + 1, Len(buf))

(* The buffer after main.rs:289-307 re-slices it to the header at fvStart: *)
(* exactly fv_length bytes when they fit, otherwise up to the end.         *)
FvSlice(buf, fvStart) ==
    IF fvStart + SigOff >= Len(buf) THEN buf
    ELSE IF FvEnd(buf, fvStart) <= Len(buf)
         THEN SubSeq(buf, fvStart + 1, FvEnd(buf, fvStart))
         ELSE SubSeq(buf, fvStart + 1, Len(buf))

(* The whole of main.rs:279-309: out is cfv_data afterwards and panics    *)
(* says whether the re-slicing panicked.  Without a located header the    *)
(* buffer is left as it is.                                                *)
ResolveFv(buf, out, panics) ==
    \/ /\ ~HeaderLocated(buf)
       /\ out = buf
       /\ panics = FALSE
    \/ \E o \in SigOffsets(buf) :
          /\ IsFirstSig(buf, o)
          /\ o >= SigOff
          /\ panics = SlicePanics(buf, o - SigOff)
          /\ out = IF panics THEN buf ELSE FvSlice(buf, o - SigOff)

-----------------------------------------------------------------------------
(* fv::get_file_from_fv(cfv_data, FV_FILETYPE_RAW, guid) (main.rs:326),    *)
(* from its contract in the spec: the records of a volume that starts with *)
(* a header are scanned in table order and the payload of the first one    *)
(* whose key matches is returned.                                          *)
HasFvHeader(buf) == Len(buf) >= HdrLen /\ SigAt(buf, SigOff)

RecordOffsets(buf) ==
    {o \in HdrLen .. (Len(buf) - RecLen) : (o - HdrLen) % RecLen = 0}

IsFirstFile(buf, tag, o) ==
    /\ HasFvHeader(buf)
    /\ o \in RecordOffsets(buf)
    /\ buf[o + 1] = tag
    /\ \A p \in RecordOffsets(buf) : p < o => buf[p + 1] # tag

FilePayload(buf, o) == buf[o + 2]

HasFile(buf, tag) == \E o \in RecordOffsets(buf) : IsFirstFile(buf, tag, o)

=============================================================================
