----------------------------- MODULE QuoteRetry -----------------------------
(***************************************************************************)
(* The quote extractor (tools/migtd-quote-extractor/src/main.rs): check   *)
(* the optional report data, fetch a vTPM report with up to max_retries   *)
(* attempts and a sleep between two attempts (get_td_report_from_vtpm),   *)
(* convert it to a TD report, copy its fields and write them as JSON.     *)
(* The tool is one sequential thread; pc is the statement that runs next. *)
(*                                                                         *)
(* The vTPM and the HCL/TD report conversions are external and may fail   *)
(* on any call; a vTPM failure is transient (the next call may succeed).  *)
(* The field copying and the hex formatting are data only and are one     *)
(* step; to_string_pretty of a struct of strings and integers cannot fail *)
(* and has no error path here.                                             *)
(***************************************************************************)
EXTENDS Naturals

CONSTANTS
    MaxRetries,   \* max_retries (3)
    NoValue       \* no vTPM call made yet, no exit code yet

(* The steps of main whose error ends the run.                            *)
ErrorSteps == {"hexDecode", "reportDataLength", "vtpm", "hclReport", "tdReport", "write"}

ASSUME MaxRetriesAssumption == MaxRetries \in Nat \ {0}
ASSUME NoValueAssumption ==
    /\ NoValue \notin {0, 1}
    /\ NoValue \notin {"ok", "err"} \cup ErrorSteps

(* What --report-data is: absent, not hex, hex of a length other than 48  *)
(* bytes, or 48 bytes of hex.                                              *)
ReportDataArgs == {"absent", "invalidHex", "wrongLength", "valid"}

(* The --output-json file: absent, a previous run's output, truncated by   *)
(* File::create with the new JSON not (fully) written, or the new JSON.    *)
OutFileStates == {"absent", "previous", "truncated", "written"}

QrStages == {"parseReportData", "vtpm", "sleep", "loopHead", "convert", "extract", "write", "done"}

VARIABLES
    reportData,  \* the --report-data argument
    pc,          \* the statement that runs next
    attempt,     \* the loop variable of 1..=max_retries
    lastCall,    \* result of the last vTPM call: "ok", "err" or NoValue
    slept,       \* a sleep happened since the last vTPM call
    exitCode,    \* the process exit code, NoValue while running
    errorAt,     \* the step whose error main returned, NoValue if none
    outFile      \* what the --output-json file holds

qvars == <<reportData, pc, attempt, lastCall, slept, exitCode, errorAt, outFile>>

(* main returns the Err of step s: the process exits with code 1.          *)
QrFail(s) ==
    /\ pc' = "done"
    /\ exitCode' = 1
    /\ errorAt' = s

-----------------------------------------------------------------------------
QrInit ==
    /\ reportData \in ReportDataArgs
    /\ pc = "parseReportData"
    /\ attempt = 1
    /\ lastCall = NoValue
    /\ slept = FALSE
    /\ exitCode = NoValue
    /\ errorAt = NoValue
    /\ outFile \in {"absent", "previous"}

(* The length check that reports the error and goes on.                  *)
ParseReportDataNoBail ==
    /\ pc = "parseReportData"
    /\ \/ /\ reportData \in {"absent", "valid"}
          /\ pc' = "vtpm"
          /\ UNCHANGED <<exitCode, errorAt>>
       \/ /\ reportData = "invalidHex"
          /\ QrFail("hexDecode")
       \/ /\ reportData = "wrongLength"
          /\ pc' = "vtpm" /\ exitCode' = 1 /\ errorAt' = "reportDataLength"
    /\ UNCHANGED <<reportData, attempt, lastCall, slept, outFile>>

(* hex::decode(..)? and the 48-byte length check (main.rs:196-207); then  *)
(* get_td_report_from_vtpm is called (line 210).                           *)
ParseReportData ==
    /\ pc = "parseReportData"
    /\ \/ /\ reportData \in {"absent", "valid"}
          /\ pc' = "vtpm"
          /\ UNCHANGED <<exitCode, errorAt>>
       \/ /\ reportData = "invalidHex"
          /\ QrFail("hexDecode")
       \/ /\ reportData = "wrongLength"
          /\ QrFail("reportDataLength")
    /\ UNCHANGED <<reportData, attempt, lastCall, slept, outFile>>

(* The Err arm with the test attempt <= max_retries.                      *)
RetryOrBailEarly ==
    IF attempt <= MaxRetries THEN pc' = "sleep" ELSE pc' = "loopHead"

(* The Err arm of the match (main.rs:116-121): sleep if another attempt    *)
(* follows (attempt < max_retries), then go back to the loop head.         *)
RetryOrBail ==
    IF attempt < MaxRetries THEN pc' = "sleep" ELSE pc' = "loopHead"

(* One attempt of the loop: vtpm::get_report_with_report_data (main.rs:    *)
(* 88-103), which returns a report or an error.                            *)
VtpmCall ==
    /\ pc = "vtpm"
    /\ slept' = FALSE
    /\ \/ /\ lastCall' = "ok"
          /\ pc' = "convert"
          /\ UNCHANGED <<exitCode, errorAt>>
       \/ /\ lastCall' = "err"
          /\ RetryOrBail
          /\ UNCHANGED <<exitCode, errorAt>>
    /\ UNCHANGED <<reportData, attempt, outFile>>

(* thread::sleep(5 s) (main.rs:119), then back to the loop head.        *)
Sleep ==
    /\ pc = "sleep"
    /\ slept' = TRUE
    /\ pc' = "loopHead"
    /\ UNCHANGED <<reportData, attempt, lastCall, exitCode, errorAt, outFile>>

(* A loop head that starts the next attempt without advancing attempt.    *)
NextAttemptNoIncrement ==
    /\ pc = "loopHead"
    /\ IF attempt < MaxRetries THEN pc' = "vtpm" /\ UNCHANGED <<exitCode, errorAt>>
                                ELSE QrFail("vtpm")
    /\ UNCHANGED <<reportData, attempt, lastCall, slept, outFile>>

(* The head of `for attempt in 1..=max_retries` (main.rs:100): the next   *)
(* attempt if one is left, otherwise the loop ends and bail! returns the  *)
(* error (line 125).                                                       *)
NextAttempt ==
    /\ pc = "loopHead"
    /\ IF attempt < MaxRetries
          THEN attempt' = attempt + 1 /\ pc' = "vtpm" /\ UNCHANGED <<exitCode, errorAt>>
          ELSE QrFail("vtpm") /\ UNCHANGED attempt
    /\ UNCHANGED <<reportData, lastCall, slept, outFile>>

(* A conversion error that goes round the loop again.                      *)
ConvertReportRetried ==
    /\ pc = "convert"
    /\ \/ pc' = "extract" /\ UNCHANGED <<exitCode, errorAt>>
       \/ /\ attempt < MaxRetries
          /\ pc' = "sleep"
          /\ UNCHANGED <<exitCode, errorAt>>
       \/ QrFail("tdReport")
    /\ UNCHANGED <<reportData, attempt, lastCall, slept, outFile>>

(* HclReport::new(report)? and TdReport::try_from(hcl_report)? inside the  *)
(* Ok arm (main.rs:104-115): an error leaves the function at once, with no *)
(* further attempt.                                                        *)
ConvertReport ==
    /\ pc = "convert"
    /\ \/ pc' = "extract" /\ UNCHANGED <<exitCode, errorAt>>
       \/ QrFail("hclReport")
       \/ QrFail("tdReport")
    /\ UNCHANGED <<reportData, attempt, lastCall, slept, outFile>>

(* extract_quote_data copies the TD info fields and fixed values          *)
(* (main.rs:128-182, called at line 214) and cannot fail.                 *)
ExtractQuote ==
    /\ pc = "extract"
    /\ pc' = "write"
    /\ UNCHANGED <<reportData, attempt, lastCall, slept, exitCode, errorAt, outFile>>

(* to_string_pretty and fs::write(&args.output_json, json)? (main.rs:      *)
(* 216-226).  fs::write creates (truncates) the file and then writes all   *)
(* of it: it fails before the file is touched, or after truncating it.     *)
WriteJson ==
    /\ pc = "write"
    /\ \/ /\ outFile' = "written"
          /\ pc' = "done"
          /\ exitCode' = 0
          /\ UNCHANGED errorAt
       \/ QrFail("write") /\ UNCHANGED outFile
       \/ QrFail("write") /\ outFile' = "truncated"
    /\ UNCHANGED <<reportData, attempt, lastCall, slept>>

(* The process has exited.                                                 *)
QrExited ==
    /\ pc = "done"
    /\ UNCHANGED qvars

QrNext ==
    \/ ParseReportData \/ VtpmCall \/ Sleep \/ NextAttempt \/ ConvertReport \/ ExtractQuote
    \/ WriteJson \/ QrExited

(* The process is never descheduled for good: each of its steps is taken  *)
(* while it is enabled; the vTPM call and the sleep return (the external   *)
(* contract of the vTPM interface and of thread::sleep).                   *)
QrSpec == QrInit /\ [][QrNext]_qvars /\ WF_qvars(QrNext)

-----------------------------------------------------------------------------
(* Every variable has its type, and the process has an exit code exactly  *)
(* when it has stopped.                                                    *)
QrTypeOK ==
    /\ reportData \in ReportDataArgs
    /\ pc \in QrStages
    /\ attempt \in Nat
    /\ lastCall \in {"ok", "err", NoValue}
    /\ slept \in BOOLEAN
    /\ exitCode \in {0, 1, NoValue}
    /\ (exitCode = NoValue) <=> (pc # "done")
    /\ errorAt \in ErrorSteps \cup {NoValue}
    /\ outFile \in OutFileStates

(* The retry budget of get_td_report_from_vtpm (spec section 5: a small    *)
(* fixed number of attempts with a fixed delay between attempts): the vTPM *)
(* is called at most max_retries times; every attempt after the first is   *)
(* preceded by a sleep and no sleep follows the last one; and the tool     *)
(* gives up on the vTPM only after max_retries calls.                      *)
RetryBudget ==
    /\ attempt <= MaxRetries
    /\ pc = "vtpm" /\ attempt > 1 => slept
    /\ pc = "done" => ~slept
    /\ errorAt = "vtpm" => attempt = MaxRetries /\ lastCall = "err"

(* A new vTPM attempt follows only a failed vTPM call: once a report was   *)
(* obtained, an error converting it is returned, never retried.            *)
RetryOnlyAfterVtpmError ==
    [][attempt' > attempt => lastCall = "err"]_qvars

(* What each point of get_td_report_from_vtpm knows of the loop: the     *)
(* inductive form of RetryBudget.                                          *)
RetryFacts ==
    /\ attempt >= 1
    /\ pc # "done" => errorAt = NoValue
    /\ pc = "parseReportData" => attempt = 1 /\ lastCall = NoValue /\ ~slept
    /\ pc = "vtpm" /\ attempt > 1 => lastCall = "err"
    /\ pc = "sleep" => lastCall = "err" /\ attempt < MaxRetries /\ ~slept
    /\ pc = "loopHead" => lastCall = "err" /\ (slept <=> attempt < MaxRetries)
    /\ pc \in {"convert", "extract", "write"} => lastCall = "ok" /\ ~slept

QrInv == QrTypeOK /\ RetryBudget /\ RetryFacts

(* The tool always terminates: the retry loop is bounded and every step    *)
(* of main ends.                                                           *)
QrTerminates ==
    <>(pc = "done")

=============================================================================
