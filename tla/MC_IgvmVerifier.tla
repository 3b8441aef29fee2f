--------------------------- MODULE MC_IgvmVerifier ---------------------------
(***************************************************************************)
(* A small instance of IgvmVerifier.  Bytes take four values; the          *)
(* signature is two bytes at offset 2, after a two-byte length field, so   *)
(* the header is four bytes and usize arithmetic wraps at 16.  Pages are   *)
(* two bytes, the CFV is five pages at GPA 2, with one page-data directive *)
(* before it and one after it.                                             *)
(*                                                                         *)
(* The IGVM files are built from volumes: zero or one byte of padding, the *)
(* header with a declared length equal to the volume or longer than the    *)
(* region, the policy and issuer-chain records in either order, and zero  *)
(* fill.  Each file lists its directives in ascending or descending GPA    *)
(* order and has at most one irregular CFV page: an all-zero page given as *)
(* an empty directive, a page left out, or a page given twice (the second  *)
(* copy carrying another platform's bytes, as a multi-platform file does). *)
(***************************************************************************)
EXTENDS IgvmVerifier

CONSTANTS f1, f2

MCFvhSig == <<3, 2>>
MCCfvSize == 10
MCPayloads == {0, 1, 2}
MCFmspcs == {f1, f2}
MCJsonDocs == {1, 2}
MCSignedBy == {<<1, 1>>, <<2, 2>>}
MCPemRootCa == {1}
MCCollateral == {<<1, f1>>}

Records(order, p, c) ==
    IF order = "policyFirst" THEN <<PolicyTag, p, ChainTag, c>>
                             ELSE <<ChainTag, c, PolicyTag, p>>

(* The bytes of the CFV region for a volume with pad bytes of padding.    *)
VolumeBytes(pad, declared, order, p, c) ==
    LET body == Zeros(pad) \o <<declared % Base, declared \div Base>> \o FvhSig
                \o Records(order, p, c)
    IN  body \o Zeros(MCCfvSize - Len(body))

PageBytes(mem, off) == SubSeq(mem, off + 1, off + PageSize)

OtherPlatformBytes == [k \in 1 .. PageSize |-> 1]

Outside == <<[gpa |-> CfvGpa - PageSize, data |-> OtherPlatformBytes],
             [gpa |-> CfvGpa + MCCfvSize, data |-> OtherPlatformBytes]>>

PageOffsets == {k * PageSize : k \in 0 .. (MCCfvSize \div PageSize - 1)}

Faults == {[kind |-> "none", off |-> 0]} \cup
          [kind : {"empty", "absent", "dup"}, off : PageOffsets]

(* The CFV directives of mem with fault applied, in ascending GPA order.  *)
CfvDirs(mem, fault) ==
    LET Dir(k) == [gpa |-> CfvGpa + k * PageSize,
                   data |-> IF fault.kind = "empty" /\ fault.off = k * PageSize
                              THEN <<>> ELSE PageBytes(mem, k * PageSize)]
        Kept == SelectSeq([k \in 1 .. (MCCfvSize \div PageSize) |-> k - 1],
                          LAMBDA k : ~(fault.kind = "absent" /\ fault.off = k * PageSize))
        Dup == IF fault.kind = "dup"
                 THEN <<[gpa |-> CfvGpa + fault.off, data |-> OtherPlatformBytes]>>
                 ELSE <<>>
    IN  [n \in 1 .. Len(Kept) |-> Dir(Kept[n])] \o Dup

(* What the guest sees: a left-out page reads as zero.                     *)
GuestBytes(mem, fault) ==
    [n \in 1 .. Len(mem) |->
        IF fault.kind = "absent" /\ fault.off < n /\ n <= fault.off + PageSize
          THEN 0 ELSE mem[n]]

Reverse(s) == [n \in 1 .. Len(s) |-> s[Len(s) - n + 1]]

(* A fault "empty" applies to an all-zero page only: that is how an IGVM   *)
(* file gives a zero page.                                                 *)
Applicable(mem, fault) ==
    fault.kind = "empty" => PageBytes(mem, fault.off) = Zeros(PageSize)

MCBoots ==
    { LET mem == VolumeBytes(v.pad, v.declared, v.order, v.p, v.c)
          asc == <<Outside[1]>> \o CfvDirs(mem, v.fault) \o <<Outside[2]>>
      IN  [dirs |-> IF v.desc THEN Reverse(asc) ELSE asc,
           gpaImage |-> GuestBytes(mem, v.fault),
           policy |-> v.p, chain |-> v.c]
      : v \in { v \in [pad : {0, 1}, declared : {HdrLen + 4, 12},
                       order : {"policyFirst", "chainFirst"},
                       p : MCPayloads, c : {1, 2}, fault : Faults,
                       desc : BOOLEAN] :
                Applicable(VolumeBytes(v.pad, v.declared, v.order, v.p, v.c),
                           v.fault) } }

=============================================================================
