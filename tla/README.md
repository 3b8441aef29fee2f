# TLA+ verification of the MigTD policy tools

This directory models the offline policy tools of this repository in TLA+.
TLC checks the models on small instances. TLAPS proves the following for every value of the constants:
- the exit-code contracts of both verifiers;
- that the image verifier rebuilds the CFV region correctly for faithful whole-page images;
- that it then extracts exactly the policy and chain such an image carries;
- that the FV header resolution agrees with the spec whenever it does not panic;
- the retry budget of the quote extractor;
- that both verifiers implement an abstract policy gate.

## The system

The repository's code under `src/` consists of three command-line tools and a
build script.

| Part | Source | What it does |
|---|---|---|
| Image verifier | `src/tools/migtd-igvm-verifier/src/main.rs` | Rebuilds the Configuration Firmware Volume (CFV) from an IGVM file's page-data directives. Resolves the firmware-volume header inside it, extracts the policy and issuer-chain files by GUID, then deserializes and verifies the policy, converts its root CA and checks an FMSPC. |
| Standalone policy verifier | `src/tools/migtd-policy-verifier/src/main.rs` | Reads a policy file and a chain file, deserializes, verifies and checks an FMSPC. |
| Quote extractor | `src/tools/migtd-quote-extractor/src/main.rs` | Fetches a vTPM report with three attempts, converts it to a TD report and writes its fields as JSON. |
| Build script | `src/src/migtd/build.rs` | Prints linker arguments. |

The image verifier is the core. Following spec.md, its components are:

1. The **Page Table Builder**: `IgvmFile::new_from_binary` and the collection of
   `PageData` directives (lines 232-250).
2. The **Region Reconstructor**:
   - a stable sort by GPA (253);
   - the lookup of a non-empty page at `CFV_GPA` (256-259);
   - the loop that appends every in-range page (263-271);
   - the zero padding (273-277).
3. The **Volume Header Resolver**:
   - finds the first `_FVH` (281);
   - computes `fv_start = offset - 0x28` (284-285);
   - reads the little-endian `fv_length` (289-295);
   - re-slices (298-307).
4. The **Keyed File Extractor**: `extract_file_from_cfv`, which calls td-shim's
   `fv::get_file_from_fv` (316-330).
5. The **Policy Verification Pipeline** and **Collateral Query**: the stages of
   `main` (88-226). Each stage returns an `Err` with exit code 1, except:
   - an absent FMSPC exits with 2 (215);
   - a panic exits with 101.

The tools are sequential, single-threaded processes. What is hard is the data:
- an untrusted, unvalidated header inside the region;
- pages that are sparse, missing, empty or duplicated;
- unchecked `usize` arithmetic;
- error paths at every stage, which must not fall through.

## Modules

| Module | Models | State and actions |
|---|---|---|
| `FvVolume` | Header resolver (279-311) and keyed file extractor (316-330) | Pure operators on byte sequences. See below. |
| `IgvmVerifier` | `main` and `extract_cfv_from_igvm` of the image verifier | One action per stage. See below. |
| `PolicyVerifier` | `main` of the standalone verifier | One action per stage, with the same conventions as `IgvmVerifier`. |
| `QuoteRetry` | `main`, `get_td_report_from_vtpm` and `extract_quote_data` of the quote extractor | One action per step. See below. |
| `PolicyGate` | What spec sections 4.5, 5 and 6 promise of both verifiers | The abstract specification. See "Abstract gate and refinement". |
| `FvResolveCheck` | The resolution alone, on every small buffer | Harness that applies `ResolveFv` once to any buffer. It compares the result with `SpecResolve`, a direct transcription of spec section 4.3. |
| `MC_IgvmVerifier`, `MC_FvResolve`, `MC_PolicyVerifier` | TLC instances | See "Runs and bounds". |
| `IgvmVerifier_proofs`, `IgvmRegion_proofs`, `IgvmPipeline_proofs`, `PolicyVerifier_proofs`, `QuoteRetry_proofs`, `FvResolveCheck_proofs` | TLAPS proofs | See "What is proved". |

### FvVolume

The operators:
- `SigOffsets` and `IsFirstSig` stand for `windows(4).position`.
- `FvLength` reads the length field. `FvEnd` is the wrapped `usize` sum.
- `SlicePanics` says when the slice's end is before its start. `FvSlice` is the re-slicing.
- `ResolveFv(buf, out, panics)` is the whole of lines 279-311.
- `IsFirstFile` and `FilePayload` stand for the file lookup.

The data is scaled down, and the control is kept exactly:
- bytes take `Base` values;
- the length field is two bytes at `LenOff` (eight at 0x20 in the code);
- the signature is `FvhSig` at `SigOff` (0x28 in the code);
- a `usize` sum wraps modulo `Base^2`, which is the range of the length field, as `u64` and `usize` coincide on 64-bit targets.

A file record is abstracted to two bytes, a key and a payload. td-shim's parser is not in this repository, so it is modelled by its contract: the first record with the key, in a volume that starts with a header.

### IgvmVerifier

`pc` is the statement of `main` that runs next. The other variables are:
- `cfvData` is `cfv_data`;
- `consumed` is the set of pages the collect loop has appended;
- `policyData` and `chainData` are the extracted payloads;
- `saved` is the set of files written;
- `exitCode` and `errorAt` record how the process ended.

The actions:
- `CollectPage` is one iteration of the collect loop. Its next page is the one that is minimal by (GPA, index), which is what the stable sort yields.
- `PadCfv` pads with zeros.
- `ResolveHeader` applies `ResolveFv` and may panic.
- The two extractions, the two optional saves, `Deserialize`, `Verify`, `ConvertRootCa` and `CheckFmspc` each have a failure disjunct where the code has a `?`.

The external library calls are constant relations over payloads:
- `JsonDocs`: the payloads that deserialize;
- `SignedBy`: the policy and chain pairs that verify;
- `PemRootCa`: the policies whose root CA converts;
- `Collateral`: `get_tcb_with_fmspc`.

`PolicyVerifier` uses `CollateralKeys` for `contains_key` instead, because that tool calls another accessor.

### QuoteRetry

The variables are:
- `pc`: the step that runs next;
- `attempt`: the loop variable of `1..=max_retries`;
- `lastCall`: the result of the last vTPM call;
- `slept`: whether a sleep happened since that call;
- `outFile`: what the `--output-json` file holds (absent, a previous output, truncated, or written);
- `exitCode` and `errorAt`.

The actions:
- `ParseReportData` (196-211): the hex and 48-byte checks.
- `VtpmCall` (88-103): one call of `vtpm::get_report_with_report_data`. It may succeed or fail on any attempt. On failure, `RetryOrBail` (116-121) goes to the sleep when `attempt < max_retries` (line 118), and otherwise straight to the loop head.
- `Sleep` (119): the 5 s sleep, then the loop head.
- `NextAttempt` (100, 125): the head of `for attempt in 1..=max_retries`. It starts the next attempt when one is left, and otherwise leaves the loop, and `bail!` returns the error. The loop bound and the line-118 test are separate steps, as in the code, so a sleep after the last attempt can be expressed.
- `ConvertReport` (104-115): `HclReport::new` and `TdReport::try_from`. Their `?` returns at once.
- `ExtractQuote` (128-182): copies fields and cannot fail.
- `WriteJson` (216-226): `fs::write`, which either succeeds, fails before touching the file, or fails after truncating it.
  No property is checked on `outFile`. The spec puts the quote extractor outside its scope and says nothing about the output file after a failed run, so a truncated file left behind is recorded as a hazard, not as a finding.

Hex formatting and logging are left out.

### Abstract gate and refinement

`PolicyGate` states what a verifier tool promises, with no stages:
- `Obtain`: the tool obtains one policy and one chain, once.
- `Reject`: it may exit 1 (or 101 for a panic) while undecided.
- `Admit`: it exits 0, or 2 for a requested FMSPC that the collateral lacks, only for a policy that deserializes, verifies against the chain obtained with it, and has a convertible root CA.

`GateSpec` adds weak fairness of deciding.

`IgvmVerifier` maps onto it through the instance `Gate`:
- `request` is `args.fmspc`;
- `chain` is `chainData`;
- `policy` is `policyData` once the chain is extracted, and `NoValue` before;
- `outcome` is `exitCode`.

`PolicyVerifier` maps the same way through `PvGate`. Under each mapping:
- extracting or reading the chain is `Obtain`;
- every `Fail` and the panic is `Reject`;
- `CheckFmspc` is `Admit`;
- every other step is a stutter.

## Runs and bounds

| Run | Config | Expect | Checks |
|---|---|---|---|
| `igvm_pipeline` | `MC_IgvmVerifier.cfg` | pass | `TypeOK`, `ExitContract`, `PolicyFromImage`, `RegionFromWholePages` |
| `region_gpa_image` | `MC_IgvmRegion.cfg` | violation | `RegionIsGpaImage` |
| `fv_resolve` | `MC_FvResolve.cfg` | pass | `ResolveMatchesSpec` |
| `fv_resolve_panic` | `MC_FvResolvePanic.cfg` | violation | `ResolveNeverPanics` |
| `policy_verifier` | `MC_PolicyVerifier.cfg` | pass | `PvTypeOK`, `PvExitContract` |
| `igvm_gate` | `MC_IgvmGate.cfg` | pass | `GateRefinement` (`Gate!GateSpec` as a property, under `FairSpec`) |
| `policy_verifier_gate` | `MC_PolicyVerifierGate.cfg` | pass | `PvGateRefinement`, under `PvFairSpec` |
| `quote_retry` | `MC_QuoteRetry.cfg` | pass | `QrTypeOK`, `RetryBudget`, `RetryOnlyAfterVtpmError`, `QrTerminates` |

**MC_IgvmVerifier** uses:
- 4 byte values, a two-byte length field at 0 and the signature `<<3,2>>` at 2;
- pages of 2 bytes and a CFV of 10 bytes (five pages) at GPA 2, with one foreign page before the CFV and one after it.

It builds its IGVM files from real volumes:
- 0 or 1 byte of padding before the header;
- a declared length equal to the volume, or past the region;
- the two records in either order;
- directives in ascending or descending order;
- at most one irregular page: an all-zero page given as an empty directive, a page left out, or a page given twice with another platform's bytes.

That gives 13344 initial states. Each of the behaviours that matter occurs there:
- a header not at offset 0;
- truncation at the end of the buffer;
- a duplicate GPA;
- a missing page;
- every failure exit.

The run reaches about 221k distinct states in seconds.

**MC_FvResolve** enumerates every buffer of up to 7 bytes over 4 values (21845 buffers). This covers:
- no signature;
- a signature before `SigOff`;
- a header whose length field crosses the end;
- declared lengths that are short, exact, past the end and wrapping.

**MC_PolicyVerifier** covers:
- three file contents, two of them JSON;
- a signing relation in which each JSON policy has a different chain;
- one collateral key;
- every read failure.

`igvm_gate` and `policy_verifier_gate` use the same constants as the runs above.

**MC_QuoteRetry.cfg** uses `MaxRetries = 3`, which is the code's value. Every pattern of the following occurs:
- vTPM success and failure on each attempt;
- both conversion failures;
- the three write outcomes;
- the four kinds of report data;
- both initial file states.

**Fairness.** Each tool is one sequential thread, and every external call returns (file I/O, the IGVM parser, the policy library, the vTPM and `thread::sleep`). So the liveness runs assume weak fairness of the whole next-state relation (`FairSpec`, `PvFairSpec`, `QrSpec`). That is, the process is never descheduled for good. Nothing stronger is assumed. The safety runs use the specifications without fairness.

## What the runs show

- **ExitContract.** Exit 0 or 2 happens only after three things:
  - the first policy file and the first chain file of the resolved volume were extracted;
  - that policy deserialized and verified against that chain;
  - its root CA converted.

  Exit 2 happens exactly when a requested FMSPC is absent. Every exit 1 names its stage. The mutant that reports a verification error without returning breaks `TypeOK`. The mutant that drops `exit(2)` breaks `ExitContract`.
- **PolicyFromImage.** For an image whose CFV pages are each given once with their bytes, the tool extracts exactly the payloads the volume was built from, whatever the padding, the directive order or a declared length past the region. Without the GPA sort (file order), the descending files break it.
- **RegionFromWholePages.** The image must have each CFV page given once with its bytes, a region of whole pages, and guest memory that fills the region exactly. For such an image, the buffer that reaches the header search is the guest memory of the region. This is the Region Reconstructor's contract, restricted to the images for which the code meets it. The finding `region_gpa_image` shows that it fails for the other images. Without the GPA sort (file order), the descending files break it.
- **ResolveMatchesSpec.** On every small buffer, when the code's resolution does not panic it returns what spec section 4.3 prescribes. An inclusive slice breaks it.
- **GateRefinement, PvGateRefinement.** Both verifiers implement `PolicyGate`, liveness included:
  - the pair is obtained once;
  - the exit code is decided once, eventually, and never changes;
  - admission happens only after the three checks.

  A verification error that is reported but not returned breaks `GateRefinement`. An inverted FMSPC test breaks `PvGateRefinement`.
- **RetryBudget.** The vTPM is called at most `max_retries` times. Every retry is preceded by a sleep, and no sleep follows the last failure. The tool gives up on the vTPM only after `max_retries` failed calls. Testing `attempt <= max_retries` at line 118 breaks it: the code then sleeps 5 s after the third failure before it bails, and the model reaches `done` with `slept`.
- **RetryOnlyAfterVtpmError.** An action property: `attempt` grows only after a failed vTPM call, so a conversion error is returned, not retried. A conversion error that loops back breaks it.
- **QrTerminates.** The tool always exits. A loop step that does not advance `attempt` breaks it.
- **Finding: region compaction** (`region_gpa_image`). The rebuilt region is not the guest memory of the CFV range:
  - `extend_from_slice` ignores GPA offsets, so an absent or empty page shifts every later byte;
  - a duplicate keeps both copies and makes the buffer longer than `cfv_size`.

  The spec requires each byte at its offset, zero fill and exactly `length` bytes.
- **Finding: overflow panic** (`fv_resolve_panic`). A declared length that makes `fv_start + fv_length` overflow panics. A debug build panics on the add. A release build wraps the sum and then panics on a slice whose end is before its start. The spec says to truncate the volume at the end of the buffer.

## What is proved

All theorems rest only on the `ASSUME`s of the modules, which TLC evaluates on every run:
- at least two byte values;
- a non-empty signature;
- the length field before the signature;
- distinct keys;
- payload relations over bytes;
- `NoValue` outside every value set and every stage name;
- `max_retries >= 1`;
- a positive page size, and natural numbers for the CFV GPA, the configured sizes and the buffer bound of `FvResolveCheck`.

**`IgvmVerifier_proofs`:**
- `TypeCorrect`: `Spec => []TypeOK`. `TypeOK` is inductive as it stands; its step is the lemma `TypeStep`. It includes `exitCode = NoValue <=> pc # "done"`, so no error path falls through.
- `ExitContractHolds`: `Spec => []ExitContract`. `ExitContract` alone is not inductive, because at `done` it speaks of facts established stages earlier. The strengthening `IInv = TypeOK /\ StageFacts /\ ExitContract` records, for each stage, what the stages before it established:
  - the payloads are the first files of `cfvData`;
  - `cfvData` is not changed after re-slicing;
  - each library check passed.

  TLC checks `IInv` as an invariant of `MC_IgvmVerifier`. The lemma `StageStep` has one case per action.
- `IgvmRefinesGate`: `Spec => Gate!GateSafety`. It uses the same invariant, because `Obtain` and `Admit` need the extracted payloads to be bytes (lemma `ExtractedIsByte`).

The operator lemmas are `FvLengthType`, `FvSliceType`, `ResolveFvType`, `FilePayloadType` and `ZerosType`.

**`IgvmRegion_proofs`:**
- `RegionFromWholePagesHolds`: `Spec => []RegionFromWholePages`.
  - The invariant needed is `RegionFacts`: nothing is collected before the loop, and the padding leaves the guest memory.
  - Inside the loop, `CollectFacts` holds. The buffer is a prefix of the guest memory that ends on a page boundary, and the consumed directives are exactly the in-range ones whose offset lies below the buffer's end.
  - TLC checked `RegionFacts` as an invariant of `MC_IgvmVerifier` before the proof.
- The collect step (lemma `RegionStep`) argues as follows:
  - the page at the buffer's end exists and is not yet consumed;
  - the minimum of the stable GPA sort is therefore that page, since it is the only directive at that GPA;
  - appending it extends the prefix (library theorem `ConcatAdjacentSubSeq`).
- The padding step argues that no page is left below the region's end. So the buffer already fills the region, and `SubSeqFull` makes it the guest memory.
- The arithmetic on page boundaries uses the lemmas `PageMultiple`, `NextPageFits`, `SamePage`, `BoundaryIsPage`, `PageIsBoundary` and `NextBoundary`. `WholePageFacts` unpacks the premise.
- The premise is a real restriction. The code itself does not ensure it: the configured CFV size must be a multiple of the page size, and the image must be faithful.

**`IgvmPipeline_proofs`:**
- `PolicyFromCarriedImageHolds`: `Spec => []PolicyFromCarriedImage`. This is the image verifier end to end. No run checks `PolicyFromCarriedImage`: on `MC_IgvmVerifier` every faithful image is whole-page and carries its payloads, so there it says what `PolicyFromImage` says. The theorem is its general form.
- The inductive invariant is `TypeOK /\ RegionFacts /\ CarriedFacts`. TLC checked `CarriedFacts` on `MC_IgvmVerifier` before the proof. For a whole-page image that carries its payloads, `CarriedFacts` records four things:
  - at the two extraction stages, `cfvData` is the code's resolution of the guest memory;
  - after each extraction, the payload is the carried one;
  - `done` is reached only by a configuration or parse failure, or with both payloads in hand.
- The step lemma `CarriedStep` rests on these lemmas:
  - `ResolveFvUnique`: the header search and re-slice are deterministic, since the first signature match is unique (`FirstSigUnique`). So at `resolve`, where `RegionFacts` makes `cfvData` the guest memory, the search can neither panic nor yield a volume other than the carried one.
  - `FirstFileUnique`: each key has one first file, so each extraction succeeds and takes the carried payload.
  - `CarriedFindsCfv`: such an image passes the FindCfv check, because its first page is a directive at `CFV_GPA` with a page of data (`CarriedNotEmpty`).
  - `InputsFixed`: a frame lemma that no step changes `boot` or `args`.
- The premise does not hold for every image. It assumes that the first `_FVH` match is the real header, which is the hazard at main.rs:281. It also assumes that the volume's first records are the payloads.

**`FvResolveCheck_proofs`:**
- `ResolveMatchesSpecHolds`: `Spec => []ResolveMatchesSpec`, for every buffer length bound, byte base and header layout. It follows from `ResolveInvariant` (`Spec => []ResolveInv`) and the lemma `ResolveAgrees`: a non-panicking `ResolveFv` returns `SpecResolve`.
- The argument has three parts:
  - the code's first match is the spec's first signature offset, a least element found with `WFMin` over `<` on `Nat` (lemmas `LeastNatural`, `FirstSigExists`, `FirstSigIsChosen`);
  - the two-byte length field is below the usize modulus (`FvLengthBound`);
  - a slice that does not panic never wrapped its end (`NoWrapUnlessPanic`), so the wrapped sum equals the plain one.

**`PolicyVerifier_proofs`:**
- `PvInvariant` proves `PvInv = PvTypeOK /\ PvStageFacts /\ PvExitContract` inductive.
- From it follow `PvTypeCorrect`, `PvExitContractHolds` and `PvRefinesGate`.

**`QuoteRetry_proofs`:**
- `QrInvariant` proves `QrInv = QrTypeOK /\ RetryBudget /\ RetryFacts` inductive for every `MaxRetries`. `RetryFacts` records what each point of the loop knows of the last call and of the sleep.
- `QrTypeCorrect`, `RetryBudgetHolds` and the action property `RetryOnlyAfterVtpmErrorHolds` follow from it.

Some things stay with TLC:
- **Liveness:** `QrTerminates` and the fairness conjunct of `GateSpec` in the two refinement runs. TLAPS does not handle `ENABLED` and fairness here, so the theorems prove only the safety part, `GateSafety`, of the refinement.
- **`PolicyFromImage`:** This property relates the extracted payloads to `boot.policy` and `boot.chain`. Only the instance's `MCBoots` ties those to the image bytes; `BootInput` leaves them free, so no theorem over every `Boots` can state it as written.
  - The theorem `PolicyFromCarriedImageHolds` states it for every image that is a region of whole pages and carries its payloads.
  - On `MC_IgvmVerifier`, checking `FaithfulImage => WholePageImage /\ ImageCarries` as an invariant finds no violation. So every faithful image the instance builds meets that premise.
  - That the instance's volumes resolve to their own payloads is checked by TLC only.

## Not modelled

- The FMSPC listing (lines 169-206). It scrapes the raw JSON and only prints.
- Logging, the formatting of hex and GUIDs, and JSON parsing of `image_layout.json` and `metadata.json`. The config loading is one action that may fail.
- The binary IGVM encoding. The directive list is the input.
- The internals of the policy library and of crypto.
- In the quote extractor: the field copying, hex formatting and logging, which are data only.
- `build.rs`, which has no run-time state.
- `start_gpa + cfv_size` overflow (line 265). The model's GPAs are small naturals.

## Plan for later sittings

1. A composition of the two verifiers. The files written by `--save-policy` and `--save-chain` are fed to the standalone verifier, to compare exit codes where `Collateral` and `CollateralKeys` agree.
2. A property about the files `--save-policy` leaves behind after a later failure (main.rs:138), once the intended contract is settled.
