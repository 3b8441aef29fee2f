------------------------ MODULE FvResolveCheck_proofs ------------------------
(***************************************************************************)
(* The volume-header resolution of extract_cfv_from_igvm (main.rs:279-309) *)
(* agrees with the resolver of spec section 4.3 whenever it does not       *)
(* panic, for every buffer and every header layout.  The two facts it      *)
(* rests on: the "first" signature of the spec is the offset              *)
(* windows(..).position(..) finds, and a re-slice that does not panic      *)
(* never wrapped the usize sum fv_start + fv_length.                       *)
(***************************************************************************)
EXTENDS FvResolveCheck, WellFoundedInduction, TLAPS

-----------------------------------------------------------------------------
(* Arithmetic facts on the usize remainder and on the two-byte field.      *)

LEMMA ModBound ==
    ASSUME NEW M \in Nat, M > 0, NEW X \in Nat
    PROVE  X % M \in 0 .. (M - 1)
OBVIOUS

LEMMA ModSmall ==
    ASSUME NEW M \in Nat, M > 0, NEW X \in 0 .. (M - 1)
    PROVE  X % M = X
OBVIOUS

LEMMA ModOnce ==
    ASSUME NEW M \in Nat, M > 0, NEW X \in Nat, X >= M, X - M < M
    PROVE  X % M = X - M
OBVIOUS

LEMMA TimesDigit ==
    ASSUME NEW B \in Nat, NEW d \in 0 .. (B - 1)
    PROVE  B * d \in 0 .. (B * (B - 1))
<1>1. B * (B - 1) - B * d = B * (B - 1 - d)
  OBVIOUS
<1>2. B * (B - 1 - d) \in Nat /\ B * d \in Nat
  OBVIOUS
<1>. QED  BY <1>1, <1>2

-----------------------------------------------------------------------------
(* A non-empty set of naturals has a least element.                        *)
LEMMA LeastNatural ==
    ASSUME NEW T \in SUBSET Nat, T # {}
    PROVE  \E m \in T : \A p \in T : m <= p
<1>1. PICK x \in T : \A y \in T : ~(<<y, x>> \in OpToRel(<, Nat))
  BY NatLessThanWellFounded, WFMin
<1>2. \A y \in T : ~(y < x)
  BY <1>1 DEF OpToRel
<1>. QED  BY <1>2

(* A buffer with a signature has a first one.                              *)
LEMMA FirstSigExists ==
    ASSUME NEW b \in Seq(Byte), SigOffsets(b) # {}
    PROVE  \E o \in SigOffsets(b) : IsFirstSig(b, o)
<1>1. SigOffsets(b) \in SUBSET Nat
  BY SigAssumption DEF SigOffsets
<1>. QED  BY <1>1, LeastNatural DEF IsFirstSig

(* The spec's CHOOSE of the least signature offset is the first signature. *)
LEMMA FirstSigIsChosen ==
    ASSUME NEW b \in Seq(Byte), NEW o, IsFirstSig(b, o)
    PROVE  SpecFirstSig(b) = o
<1> DEFINE c == SpecFirstSig(b)
<1>1. c \in SigOffsets(b) /\ \A p \in SigOffsets(b) : c <= p
  BY DEF IsFirstSig, SpecFirstSig
<1>2. SigOffsets(b) \in SUBSET Nat
  BY SigAssumption DEF SigOffsets
<1>. QED  BY <1>1, <1>2 DEF IsFirstSig

(* A header located at a first signature leaves room for its length field *)
(* before the end of the buffer.                                          *)
LEMMA SigInBuffer ==
    ASSUME NEW b \in Seq(Byte), NEW o \in SigOffsets(b), o >= SigOff
    PROVE  /\ o - SigOff \in Nat
           /\ (o - SigOff) + SigOff < Len(b)
BY SigAssumption, HeaderAssumption DEF SigOffsets

(* The length field reads two bytes and is below UsizeMod.                 *)
LEMMA FvLengthBound ==
    ASSUME NEW b \in Seq(Byte), NEW h \in Nat, h + SigOff < Len(b)
    PROVE  FvLength(b, h) \in 0 .. (UsizeMod - 1)
<1> DEFINE lo == b[h + LenOff + 1]
           hi == b[h + LenOff + 2]
<1>1. lo \in 0 .. (Base - 1) /\ hi \in 0 .. (Base - 1)
  <2>1. h + LenOff + 1 \in 1 .. Len(b) /\ h + LenOff + 2 \in 1 .. Len(b)
    BY HeaderAssumption
  <2>. QED  BY <2>1, BaseAssumption DEF Byte
<1>2. Base * hi \in 0 .. (Base * (Base - 1))
  BY <1>1, BaseAssumption, TimesDigit
<1>3. Base * (Base - 1) + (Base - 1) = Base * Base - 1
  BY BaseAssumption
<1>4. FvLength(b, h) = lo + Base * hi
  BY DEF FvLength
<1>. QED  BY <1>1, <1>2, <1>3, <1>4, BaseAssumption DEF UsizeMod

(* A re-slice that does not panic computed fv_start + fv_length without    *)
(* wrapping: a wrapped end lies before fv_start and inside the buffer,     *)
(* which is exactly the panic of main.rs:300.                              *)
LEMMA NoWrapUnlessPanic ==
    ASSUME NEW b \in Seq(Byte), NEW h \in Nat, h + SigOff < Len(b),
           ~SlicePanics(b, h)
    PROVE  FvEnd(b, h) = h + FvLength(b, h)
<1>1. FvLength(b, h) \in 0 .. (UsizeMod - 1)
  BY FvLengthBound
<1>2. UsizeMod \in Nat /\ UsizeMod > 0
  BY BaseAssumption DEF UsizeMod
<1>3. h < Len(b)
  BY HeaderAssumption
<1>4. ~(FvEnd(b, h) <= Len(b) /\ FvEnd(b, h) < h)
  BY DEF SlicePanics
<1>5. FvEnd(b, h) \in 0 .. (UsizeMod - 1)
  BY <1>1, <1>2, ModBound DEF FvEnd
<1>6. CASE h >= UsizeMod
  BY <1>2, <1>3, <1>4, <1>5, <1>6
<1>7. CASE h < UsizeMod /\ h + FvLength(b, h) >= UsizeMod
  <2>1. h + FvLength(b, h) \in Nat /\ h + FvLength(b, h) - UsizeMod < UsizeMod
    BY <1>1, <1>2, <1>7
  <2>2. \A X \in Nat : X >= UsizeMod /\ X - UsizeMod < UsizeMod => X % UsizeMod = X - UsizeMod
    BY <1>2, ModOnce
  <2>4. (h + FvLength(b, h)) % UsizeMod = h + FvLength(b, h) - UsizeMod
    <3> DEFINE X == h + FvLength(b, h)
    <3>1. X \in Nat /\ X >= UsizeMod /\ X - UsizeMod < UsizeMod
      BY <1>1, <1>2, <1>7, <2>1
    <3> HIDE DEF X
    <3>2. X % UsizeMod = X - UsizeMod
      BY <3>1, <2>2
    <3>. QED  BY <1>1, <1>2, <3>2 DEF X
  <2>3. FvEnd(b, h) = h + FvLength(b, h) - UsizeMod
    BY <2>4 DEF FvEnd
  <2>. QED  BY <1>1, <1>2, <1>3, <1>4, <1>7, <2>3
<1>8. CASE h + FvLength(b, h) < UsizeMod
  <2>1. h + FvLength(b, h) \in 0 .. (UsizeMod - 1)
    BY <1>1, <1>2, <1>8
  <2>2. (h + FvLength(b, h)) % UsizeMod = h + FvLength(b, h)
    BY <1>2, <2>1, ModSmall
  <2>. QED  BY <2>2 DEF FvEnd
<1>. QED  BY <1>1, <1>2, <1>6, <1>7, <1>8

-----------------------------------------------------------------------------
(* Whenever the resolution of the code returns without panicking, it       *)
(* returns what the spec's resolver returns.                               *)
LEMMA ResolveAgrees ==
    ASSUME NEW b \in Seq(Byte), NEW out, ResolveFv(b, out, FALSE)
    PROVE  out = SpecResolve(b)
<1> DEFINE S == SigOffsets(b)
<1>1. CASE ~HeaderLocated(b) /\ out = b
  <2>1. CASE S = {}
    BY <1>1, <2>1 DEF SpecResolve
  <2>2. CASE S # {}
    <3>1. PICK o \in S : IsFirstSig(b, o)
      BY <2>2, FirstSigExists
    <3>2. SpecFirstSig(b) = o
      BY <3>1, FirstSigIsChosen
    <3>3. o < SigOff
      <4>1. o \in Nat
        BY SigAssumption DEF SigOffsets
      <4>. QED  BY <1>1, <3>1, <4>1, HeaderAssumption DEF HeaderLocated
    <3>. QED  BY <1>1, <3>2, <3>3 DEF SpecResolve
  <2>. QED  BY <2>1, <2>2
<1>2. CASE \E o \in S : /\ IsFirstSig(b, o)
                        /\ o >= SigOff
                        /\ FALSE = SlicePanics(b, o - SigOff)
                        /\ out = IF FALSE THEN b ELSE FvSlice(b, o - SigOff)
  <2>1. PICK o \in S : /\ IsFirstSig(b, o)
                       /\ o >= SigOff
                       /\ ~SlicePanics(b, o - SigOff)
                       /\ out = FvSlice(b, o - SigOff)
    BY <1>2
  <2> DEFINE h == o - SigOff
  <2>2. SpecFirstSig(b) = o
    BY <2>1, FirstSigIsChosen
  <2>3. h \in Nat /\ h + SigOff < Len(b)
    BY <2>1, SigInBuffer
  <2>4. FvEnd(b, h) = h + FvLength(b, h)
    BY <2>1, <2>3, NoWrapUnlessPanic
  <2>5. out = IF h + FvLength(b, h) <= Len(b)
                THEN SubSeq(b, h + 1, h + FvLength(b, h))
                ELSE SubSeq(b, h + 1, Len(b))
    BY <2>3, <2>4, <2>1, HeaderAssumption DEF FvSlice
  <2>6. SpecResolve(b) = IF h + FvLength(b, h) <= Len(b)
                           THEN SubSeq(b, h + 1, h + FvLength(b, h))
                           ELSE SubSeq(b, h + 1, Len(b))
    <3>1. S # {} /\ o \in Nat /\ ~(o < SigOff)
      BY <2>1, HeaderAssumption, SigAssumption DEF SigOffsets
    <3>2. SpecResolve(b) = IF S = {} \/ o < SigOff THEN b
                           ELSE IF h + FvLength(b, h) <= Len(b)
                                THEN SubSeq(b, h + 1, h + FvLength(b, h))
                                ELSE SubSeq(b, h + 1, Len(b))
      BY <2>2 DEF SpecResolve, FvLength
    <3>. QED  BY <3>1, <3>2
  <2>. QED  BY <2>5, <2>6
<1>. QED  BY <1>1, <1>2 DEF ResolveFv

-----------------------------------------------------------------------------
(* ResolveInv is an invariant of the harness.                              *)
THEOREM ResolveInvariant == Spec => []ResolveInv
<1>1. Init => ResolveInv
  <2> SUFFICES ASSUME Init PROVE ResolveInv
    OBVIOUS
  <2>1. input \in Seq(Byte)
    BY MaxLenAssumption DEF Init, Buffers
  <2>. QED  BY <2>1 DEF Init, ResolveInv
<1>2. ResolveInv /\ [Next]_vars => ResolveInv'
  <2> SUFFICES ASSUME ResolveInv, [Next]_vars PROVE ResolveInv'
    OBVIOUS
  <2>1. CASE Resolve
    BY <2>1 DEF Resolve, ResolveInv
  <2>2. CASE Finished
    BY <2>2 DEF Finished, ResolveInv, vars
  <2>3. CASE UNCHANGED vars
    BY <2>3 DEF ResolveInv, vars
  <2>. QED  BY <2>1, <2>2, <2>3 DEF Next
<1>. QED  BY <1>1, <1>2, PTL DEF Spec

(* For every buffer and every header layout, the code's resolution of the  *)
(* CFV returns what spec section 4.3 prescribes whenever it does not       *)
(* panic: the first signature is used, the volume starts SigOff bytes      *)
(* before it, and it is cut to the declared length or the buffer's end.    *)
THEOREM ResolveMatchesSpecHolds == Spec => []ResolveMatchesSpec
<1>1. ResolveInv => ResolveMatchesSpec
  BY ResolveAgrees DEF ResolveInv, ResolveMatchesSpec
<1>. QED  BY <1>1, ResolveInvariant, PTL

=============================================================================
