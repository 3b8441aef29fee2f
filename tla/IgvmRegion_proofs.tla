-------------------------- MODULE IgvmRegion_proofs --------------------------
(***************************************************************************)
(* The Region Reconstructor's contract, proved for every value of the      *)
(* constants: for an image whose CFV pages are each given once with their  *)
(* bytes and whose region is a whole number of pages, the collect loop of  *)
(* main.rs:253-277 hands the guest memory of the region to the header      *)
(* search, whatever the order of the directives in the file.               *)
(***************************************************************************)
EXTENDS IgvmVerifier_proofs

-----------------------------------------------------------------------------
(* Arithmetic on page boundaries.                                          *)

(* A multiple of the page size is its quotient times the page size.        *)
LEMMA PageMultiple ==
    ASSUME NEW P \in Nat \ {0}, NEW x \in Nat, x % P = 0
    PROVE  /\ x \div P \in Nat
           /\ x = (x \div P) * P
BY SMT

(* The page after a page boundary below a whole-page size still fits.      *)
LEMMA NextPageFits ==
    ASSUME NEW P \in Nat \ {0}, NEW L \in Nat, NEW S \in Nat,
           L % P = 0, S % P = 0, L < S
    PROVE  L + P <= S
<1>1. PICK a \in Nat : L = a * P
  BY PageMultiple
<1>2. PICK b \in Nat : S = b * P
  BY PageMultiple
<1>3. a < b
  BY <1>1, <1>2, SMT
<1>4. (a + 1) * P <= b * P
  BY <1>3, SMT
<1>. QED  BY <1>1, <1>2, <1>4, SMT

(* Two page boundaries less than a page apart are equal.                   *)
LEMMA SamePage ==
    ASSUME NEW P \in Nat \ {0}, NEW L \in Nat, NEW o \in Nat,
           L % P = 0, o % P = 0, L <= o, o < L + P
    PROVE  o = L
<1>1. PICK a \in Nat : L = a * P
  BY PageMultiple
<1>2. PICK c \in Nat : o = c * P
  BY PageMultiple
<1>3. a <= c /\ c < a + 1
  BY <1>1, <1>2, SMT
<1>. QED  BY <1>1, <1>2, <1>3, SMT

(* A page boundary inside the region is one of its page offsets.           *)
LEMMA BoundaryIsPage ==
    ASSUME NEW P \in Nat \ {0}, NEW L \in Nat, NEW S \in Nat, L % P = 0, L < S
    PROVE  L \in {k * P : k \in 0 .. ((S - 1) \div P)}
<1>1. PICK a \in Nat : L = a * P
  BY PageMultiple
<1>2. a <= (S - 1) \div P
  <2>1. PICK q \in Int : q = (S - 1) \div P
    OBVIOUS
  <2>2. S - 1 < (q + 1) * P
    BY <2>1, SMT
  <2>3. a * P < (q + 1) * P
    BY <1>1, <2>2, SMT
  <2>. QED  BY <2>1, <2>3, SMT
<1>. QED  BY <1>1, <1>2

(* The page offsets of a region are page boundaries.                       *)
LEMMA PageIsBoundary ==
    ASSUME NEW P \in Nat \ {0}, NEW S \in Nat,
           NEW o \in {k * P : k \in 0 .. ((S - 1) \div P)}
    PROVE  o \in Nat /\ o % P = 0
BY SMT

(* The next page boundary after a page boundary.                          *)
LEMMA NextBoundary ==
    ASSUME NEW P \in Nat \ {0}, NEW x \in Nat, x % P = 0
    PROVE  (x + P) % P = 0
<1>1. PICK a \in Nat : x = a * P
  BY PageMultiple
<1>2. PICK q \in Int : q = (x + P) \div P
  OBVIOUS
<1>3. x + P = q * P + ((x + P) % P) /\ (x + P) % P \in 0 .. (P - 1)
  BY <1>2, SMT
<1>4. (x + P) % P = (a + 1 - q) * P
  BY <1>1, <1>3, SMT
<1>5. a + 1 - q = 0
  <2>1. CASE a + 1 - q >= 1
    <3>1. (a + 1 - q) * P >= P
      BY <2>1, SMT
    <3>. QED  BY <1>3, <1>4, <3>1, SMT
  <2>2. CASE a + 1 - q <= -1
    <3>1. (a + 1 - q) * P <= -P
      BY <2>2, SMT
    <3>. QED  BY <1>3, <1>4, <3>1, SMT
  <2>. QED  BY <2>1, <2>2, SMT
<1>. QED  BY <1>4, <1>5, SMT

(* Appending the next page of a sequence to its prefix extends the prefix. *)
LEMMA AppendNextPage ==
    ASSUME NEW S, NEW img \in Seq(S), NEW L \in Nat, NEW P \in Nat,
           L + P <= Len(img)
    PROVE  /\ SubSeq(img, 1, L) \o SubSeq(img, L + 1, L + P) = SubSeq(img, 1, L + P)
           /\ Len(SubSeq(img, 1, L + P)) = L + P
<1>1. SubSeq(img, 1, L) \o SubSeq(img, L + 1, L + P) = SubSeq(img, 1, L + P)
  BY ConcatAdjacentSubSeq
<1>2. Len(SubSeq(img, 1, L + P)) = L + P
  BY SubSeqProperties
<1>. QED  BY <1>1, <1>2

-----------------------------------------------------------------------------
(* The offset of directive i from the start of the region.                *)
Off(i) == boot.dirs[i].gpa - CfvGpa

(* What WholePageImage gives each in-range directive, and each page: its  *)
(* offset is a page boundary inside the region carrying the guest bytes,   *)
(* and every page boundary inside the region has exactly one directive.    *)
LEMMA WholePageFacts ==
    ASSUME TypeOK, WholePageImage
    PROVE  /\ args.cfvSize \in Nat
           /\ args.cfvSize % PageSize = 0
           /\ boot.gpaImage \in Seq(Byte)
           /\ Len(boot.gpaImage) = args.cfvSize
           /\ \A i \in DOMAIN boot.dirs :
                 /\ boot.dirs[i].gpa \in Nat
                 /\ InRange(i) =>
                       /\ Off(i) \in Nat
                       /\ Off(i) % PageSize = 0
                       /\ Off(i) < args.cfvSize
                       /\ boot.dirs[i].data
                            = SubSeq(boot.gpaImage, Off(i) + 1, Off(i) + PageSize)
           /\ \A L \in Nat :
                 L % PageSize = 0 /\ L < args.cfvSize =>
                    \E j \in DOMAIN boot.dirs :
                       /\ InRange(j)
                       /\ Off(j) = L
                       /\ \A k \in DOMAIN boot.dirs : Off(k) = L => k = j
<1>1. args.cfvSize \in Nat /\ boot \in BootInput
  BY SizeAssumption DEF TypeOK, Args
<1>2. \A i \in DOMAIN boot.dirs : boot.dirs[i].gpa \in Nat
  <2>1. boot.dirs \in Seq(PageData)
    BY <1>1 DEF BootInput
  <2>2. \A i \in DOMAIN boot.dirs : boot.dirs[i] \in PageData
    BY <2>1
  <2>. QED  BY <2>2 DEF PageData
<1>3. ASSUME NEW i \in DOMAIN boot.dirs, InRange(i)
      PROVE  /\ Off(i) \in Nat
             /\ Off(i) % PageSize = 0
             /\ Off(i) < args.cfvSize
             /\ boot.dirs[i].data
                  = SubSeq(boot.gpaImage, Off(i) + 1, Off(i) + PageSize)
  <2>1. Off(i) \in {k * PageSize : k \in 0 .. ((args.cfvSize - 1) \div PageSize)}
        /\ boot.dirs[i].data = SubSeq(boot.gpaImage, Off(i) + 1, Off(i) + PageSize)
    BY <1>3 DEF WholePageImage, FaithfulImage, Off, CfvPages
  <2>2. Off(i) \in Nat /\ Off(i) % PageSize = 0
    BY <1>1, <2>1, PageIsBoundary, PageAssumption
  <2>3. Off(i) < args.cfvSize
    BY <1>1, <1>2, <1>3, PageAssumption DEF InRange, Off
  <2>. QED  BY <2>1, <2>2, <2>3
<1>4. ASSUME NEW L \in Nat, L % PageSize = 0, L < args.cfvSize
      PROVE  \E j \in DOMAIN boot.dirs :
                /\ InRange(j)
                /\ Off(j) = L
                /\ \A k \in DOMAIN boot.dirs : Off(k) = L => k = j
  <2>1. L \in CfvPages
    BY <1>1, <1>4, BoundaryIsPage, PageAssumption DEF CfvPages
  <2>2. PICK j \in DOMAIN boot.dirs :
           /\ boot.dirs[j].gpa = CfvGpa + L
           /\ \A k \in DOMAIN boot.dirs : boot.dirs[k].gpa = CfvGpa + L => k = j
    BY <2>1 DEF WholePageImage, FaithfulImage
  <2>3. InRange(j) /\ Off(j) = L
    BY <1>1, <1>2, <1>4, <2>2, PageAssumption DEF InRange, Off
  <2>4. \A k \in DOMAIN boot.dirs : Off(k) = L => k = j
    BY <1>2, <2>2, PageAssumption DEF Off
  <2>. QED  BY <2>3, <2>4
<1>5. boot.gpaImage \in Seq(Byte)
  BY <1>1 DEF BootInput
<1>. QED  BY <1>1, <1>2, <1>3, <1>4, <1>5 DEF WholePageImage

-----------------------------------------------------------------------------
(* Every step of main keeps RegionFacts.  The collect step is the heart:  *)
(* the page at the buffer's end exists and is still remaining, so the     *)
(* sort's minimum is that page, and appending it keeps the buffer a       *)
(* prefix of the guest memory.  The padding step finds no page left below  *)
(* the region's end, so the buffer already fills the region.               *)
LEMMA RegionStep == TypeOK /\ RegionFacts /\ [Next]_vars => RegionFacts'
<1> SUFFICES ASSUME TypeOK, RegionFacts, [Next]_vars PROVE RegionFacts'
  OBVIOUS
<1>1. boot' = boot /\ args' = args
  BY DEF Next, vars, LoadConfig, ParseIgvm, FindCfv, CollectPage, PadCfv, ResolveHeader,
         ExtractPolicy, ExtractChain, SavePolicy, SaveChain, Deserialize, Verify,
         ConvertRootCa, CheckFmspc, Exited
<1>2. WholePageImage' = WholePageImage
  BY <1>1 DEF WholePageImage, FaithfulImage, InRange, CfvPages
<1> SUFFICES ASSUME WholePageImage
             PROVE  /\ pc' \in {"config", "parse", "findCfv"} => consumed' = {} /\ cfvData' = <<>>
                    /\ pc' = "collect" => CollectFacts'
                    /\ pc' = "resolve" => cfvData' = boot.gpaImage
  BY <1>1, <1>2 DEF RegionFacts
<1>3. /\ pc \in {"config", "parse", "findCfv"} => consumed = {} /\ cfvData = <<>>
      /\ pc = "collect" => CollectFacts
      /\ pc = "resolve" => cfvData = boot.gpaImage
  BY DEF RegionFacts
<1>4. Len(cfvData) \in Nat
  BY DEF TypeOK
<1>5. CASE LoadConfig
  BY <1>3, <1>5 DEF LoadConfig, Fail
<1>6. CASE ParseIgvm
  BY <1>3, <1>6 DEF ParseIgvm, Fail
<1>7. CASE FindCfv
  <2>1. CASE pc' = "collect"
    <3>1. consumed' = {} /\ cfvData' = <<>>
      BY <1>3, <1>7 DEF FindCfv
    <3>2. Len(cfvData') % PageSize = 0 /\ Len(cfvData') <= args'.cfvSize
      BY <1>1, <3>1, WholePageFacts, PageAssumption
    <3>3. cfvData' = SubSeq(boot'.gpaImage, 1, Len(cfvData'))
      BY <1>1, <3>1, SubSeqEmpty
    <3>4. \A i \in DOMAIN boot'.dirs :
             InRange(i)' => (i \in consumed' <=> boot'.dirs[i].gpa - CfvGpa < Len(cfvData'))
      BY <1>1, <3>1, WholePageFacts, PageAssumption DEF InRange
    <3>. QED  BY <2>1, <3>2, <3>3, <3>4 DEF CollectFacts
  <2>2. CASE pc' # "collect"
    BY <1>7, <2>2 DEF FindCfv, Fail
  <2>. QED  BY <2>1, <2>2
<1>8. CASE CollectPage
  <2>1. pc = "collect" /\ pc' = "collect"
    BY <1>8 DEF CollectPage
  <2>2. CollectFacts
    BY <1>3, <2>1
  <2>3. PICK i \in Remaining :
           /\ \A j \in Remaining : SortsBefore(i, j) \/ i = j
           /\ cfvData' = cfvData \o boot.dirs[i].data
           /\ consumed' = consumed \cup {i}
    BY <1>8 DEF CollectPage
  <2>4. i \in DOMAIN boot.dirs /\ InRange(i) /\ i \notin consumed
    BY <2>3 DEF Remaining
  <2>5. Len(cfvData) <= Off(i)
    BY <1>4, <2>2, <2>4, WholePageFacts DEF CollectFacts, Off
  <2>6. Len(cfvData) < args.cfvSize
    BY <1>4, <2>4, <2>5, WholePageFacts
  <2>7. PICK j \in DOMAIN boot.dirs :
           /\ InRange(j)
           /\ Off(j) = Len(cfvData)
           /\ \A k \in DOMAIN boot.dirs : Off(k) = Len(cfvData) => k = j
    BY <1>4, <2>2, <2>6, WholePageFacts DEF CollectFacts
  <2>8. j \in Remaining
    BY <1>4, <2>2, <2>7 DEF CollectFacts, Remaining, Off
  <2>9. Off(i) = Len(cfvData) /\ i = j
    <3>1. SortsBefore(i, j) \/ i = j
      BY <2>3, <2>8
    <3>2. boot.dirs[i].gpa \in Nat /\ boot.dirs[j].gpa \in Nat
      BY <2>4, WholePageFacts
    <3>3. CASE i = j
      BY <3>3, <2>7
    <3>4. CASE boot.dirs[i].gpa < boot.dirs[j].gpa
      <4>1. Off(i) < Len(cfvData)
        BY <3>2, <3>4, <2>7, PageAssumption DEF Off
      <4>. QED  BY <1>4, <4>1, <2>5, <3>2, PageAssumption DEF Off
    <3>5. CASE boot.dirs[i].gpa = boot.dirs[j].gpa /\ i < j
      <4>1. Off(i) = Off(j)
        BY <3>5 DEF Off
      <4>. QED  BY <4>1, <2>4, <2>7
    <3>6. Off(i) = Len(cfvData)
      BY <3>1, <3>3, <3>4, <3>5 DEF SortsBefore
    <3>. QED  BY <3>6, <2>4, <2>7
  <2>10. Len(cfvData) + PageSize <= args.cfvSize
    BY <1>4, <2>2, <2>6, NextPageFits, WholePageFacts, PageAssumption DEF CollectFacts
  <2>11. /\ cfvData' = SubSeq(boot.gpaImage, 1, Len(cfvData) + PageSize)
         /\ Len(cfvData') = Len(cfvData) + PageSize
    <3>1. boot.dirs[i].data = SubSeq(boot.gpaImage, Len(cfvData) + 1, Len(cfvData) + PageSize)
      BY <2>4, <2>9, WholePageFacts
    <3>2. cfvData = SubSeq(boot.gpaImage, 1, Len(cfvData))
      BY <2>2 DEF CollectFacts
    <3>3. \A g \in Seq(Byte), n \in Nat :
             n + PageSize <= Len(g) =>
                /\ SubSeq(g, 1, n) \o SubSeq(g, n + 1, n + PageSize) = SubSeq(g, 1, n + PageSize)
                /\ Len(SubSeq(g, 1, n + PageSize)) = n + PageSize
      BY AppendNextPage, PageAssumption
    <3> DEFINE g == boot.gpaImage
               n == Len(cfvData)
    <3>4. g \in Seq(Byte) /\ n \in Nat /\ n + PageSize <= Len(g)
      BY <1>4, <2>10, WholePageFacts DEF g, n
    <3> HIDE DEF g, n
    <3>5. /\ SubSeq(g, 1, n) \o SubSeq(g, n + 1, n + PageSize) = SubSeq(g, 1, n + PageSize)
          /\ Len(SubSeq(g, 1, n + PageSize)) = n + PageSize
      BY <3>3, <3>4
    <3>. QED  BY <2>3, <3>1, <3>2, <3>5 DEF g, n
  <2>12. (Len(cfvData) + PageSize) % PageSize = 0
    BY <1>4, <2>2, NextBoundary, PageAssumption DEF CollectFacts
  <2>13. ASSUME NEW k \in DOMAIN boot.dirs, InRange(k)
         PROVE  k \in consumed \cup {i} <=> Off(k) < Len(cfvData) + PageSize
    <3>1. k \in consumed <=> Off(k) < Len(cfvData)
      BY <2>2, <2>13 DEF CollectFacts, Off
    <3>2. Off(k) \in Nat /\ Off(k) % PageSize = 0
      BY <2>13, WholePageFacts
    <3>3. ASSUME Off(k) < Len(cfvData) + PageSize, ~(Off(k) < Len(cfvData))
          PROVE  k = i
      <4>1. Off(k) = Len(cfvData)
        BY <1>4, <2>2, <3>2, <3>3, SamePage, PageAssumption DEF CollectFacts
      <4>. QED  BY <4>1, <2>7, <2>9
    <3>4. k \in consumed \cup {i} => Off(k) < Len(cfvData) + PageSize
      BY <1>4, <2>9, <3>1, <3>2, PageAssumption
    <3>. QED  BY <3>1, <3>3, <3>4
  <2>. QED
    BY <1>1, <2>1, <2>3, <2>10, <2>11, <2>12, <2>13 DEF CollectFacts, InRange, Off
<1>9. CASE PadCfv
  <2>1. pc = "collect" /\ pc' = "resolve" /\ Remaining = {}
    BY <1>9 DEF PadCfv
  <2>2. CollectFacts
    BY <1>3, <2>1
  <2>3. ~(Len(cfvData) < args.cfvSize)
    <3> SUFFICES ASSUME Len(cfvData) < args.cfvSize PROVE FALSE
      OBVIOUS
    <3>1. PICK j \in DOMAIN boot.dirs : InRange(j) /\ Off(j) = Len(cfvData)
      BY <1>4, <2>2, WholePageFacts DEF CollectFacts
    <3>2. j \in consumed
      BY <2>1, <3>1 DEF Remaining
    <3>. QED  BY <1>4, <2>2, <3>1, <3>2 DEF CollectFacts, Off
  <2>4. cfvData' = cfvData
    BY <1>9, <2>3 DEF PadCfv
  <2>5. Len(cfvData) = Len(boot.gpaImage)
    BY <1>4, <2>2, <2>3, WholePageFacts DEF CollectFacts
  <2>6. cfvData = boot.gpaImage
    BY <2>2, <2>5, SubSeqFull, WholePageFacts DEF CollectFacts
  <2>. QED  BY <2>1, <2>4, <2>6
<1>10. CASE ResolveHeader
  BY <1>10 DEF ResolveHeader
<1>11. CASE \/ ExtractPolicy \/ ExtractChain \/ SavePolicy \/ SaveChain
            \/ Deserialize \/ Verify \/ ConvertRootCa \/ CheckFmspc \/ Exited
  <2>1. pc \notin {"config", "parse", "findCfv", "collect", "resolve"}
    BY <1>11 DEF ExtractPolicy, ExtractChain, SavePolicy, SaveChain, Deserialize, Verify,
                 ConvertRootCa, CheckFmspc, Exited
  <2>2. pc' \notin {"config", "parse", "findCfv", "collect", "resolve"}
    <3>1. CASE ExtractPolicy
      BY <3>1 DEF ExtractPolicy, Fail
    <3>2. CASE ExtractChain
      BY <3>2 DEF ExtractChain, Fail
    <3>3. CASE SavePolicy \/ SaveChain
      BY <3>3 DEF SavePolicy, SaveChain, Fail
    <3>4. CASE Deserialize \/ Verify \/ ConvertRootCa
      BY <3>4 DEF Deserialize, Verify, ConvertRootCa, Fail
    <3>5. CASE CheckFmspc \/ Exited
      BY <3>5, <2>1 DEF CheckFmspc, Exited, vars
    <3>. QED  BY <1>11, <3>1, <3>2, <3>3, <3>4, <3>5
  <2>. QED  BY <2>2
<1>12. CASE UNCHANGED vars
  BY <1>1, <1>3, <1>12 DEF vars, CollectFacts, InRange
<1>. QED  BY <1>5, <1>6, <1>7, <1>8, <1>9, <1>10, <1>11, <1>12 DEF Next

(* The Region Reconstructor's contract holds in every reachable state: an *)
(* image whose CFV pages are each given once with their bytes, over a     *)
(* region of whole pages the guest memory fills, reaches the header       *)
(* search (pc = "resolve") with cfv_data equal to that guest memory,      *)
(* whatever the order of its directives in the file (main.rs:253-277).   *)
THEOREM RegionFromWholePagesHolds == Spec => []RegionFromWholePages
<1>1. Init => TypeOK /\ RegionFacts
  BY BootAssumption, ContractAssumption DEF Init, TypeOK, Stages, RegionFacts
<1>2. TypeOK /\ RegionFacts /\ [Next]_vars => (TypeOK /\ RegionFacts)'
  BY TypeStep, RegionStep
<1>3. RegionFacts => RegionFromWholePages
  BY DEF RegionFacts, RegionFromWholePages, RegionIsGpaImage
<1>. QED  BY <1>1, <1>2, <1>3, PTL DEF Spec

=============================================================================
