-------------------------- MODULE QuoteRetry_proofs --------------------------
(***************************************************************************)
(* Proofs about the retry loop of the quote extractor for every value of   *)
(* max_retries.  Termination (QrTerminates) is a liveness property and is  *)
(* checked by TLC only.                                                    *)
(***************************************************************************)
EXTENDS QuoteRetry, TLAPS

USE MaxRetriesAssumption, NoValueAssumption DEF ErrorSteps, ReportDataArgs

(* QrInv is inductive: every step of main and of the retry loop keeps the *)
(* loop's budget and what each point of the loop knows of the last call.  *)
THEOREM QrInvariant == QrSpec => []QrInv
<1>1. QrInit => QrInv
  <2> SUFFICES ASSUME QrInit PROVE QrInv
    OBVIOUS
  <2>1. QrTypeOK
    BY DEF QrInit, QrTypeOK, QrStages, OutFileStates
  <2>2. RetryBudget
    BY DEF QrInit, RetryBudget
  <2>3. RetryFacts
    BY DEF QrInit, RetryFacts
  <2>. QED  BY <2>1, <2>2, <2>3 DEF QrInv
<1>2. QrInv /\ [QrNext]_qvars => QrInv'
  <2> SUFFICES ASSUME QrInv, [QrNext]_qvars PROVE QrInv'
    OBVIOUS
  <2> USE DEF QrInv, QrTypeOK, RetryBudget, RetryFacts, QrStages, OutFileStates, QrFail
  <2>1. CASE ParseReportData
    BY <2>1 DEF ParseReportData
  <2>2. CASE VtpmCall
    BY <2>2 DEF VtpmCall, RetryOrBail
  <2>3. CASE Sleep
    BY <2>3 DEF Sleep
  <2>9. CASE NextAttempt
    <3>1. CASE attempt < MaxRetries
      BY <2>9, <3>1 DEF NextAttempt
    <3>2. CASE ~(attempt < MaxRetries)
      <4>1. attempt = MaxRetries /\ ~slept
        BY <2>9, <3>2 DEF NextAttempt
      <4>. QED  BY <2>9, <3>2, <4>1 DEF NextAttempt
    <3>. QED  BY <3>1, <3>2
  <2>4. CASE ConvertReport
    BY <2>4 DEF ConvertReport
  <2>5. CASE ExtractQuote
    BY <2>5 DEF ExtractQuote
  <2>6. CASE WriteJson
    BY <2>6 DEF WriteJson
  <2>7. CASE QrExited
    BY <2>7 DEF QrExited, qvars
  <2>8. CASE UNCHANGED qvars
    BY <2>8 DEF qvars
  <2>. QED  BY <2>1, <2>2, <2>3, <2>4, <2>5, <2>6, <2>7, <2>8, <2>9 DEF QrNext
<1>. QED  BY <1>1, <1>2, PTL DEF QrSpec

(* Type correctness of the quote extractor for every max_retries: no       *)
(* error of main or of the retry loop falls through to a later step, and   *)
(* the process has an exit code exactly when it has stopped.               *)
COROLLARY QrTypeCorrect == QrSpec => []QrTypeOK
<1>1. QrInv => QrTypeOK
  BY DEF QrInv
<1>. QED  BY <1>1, QrInvariant, PTL

(* The retry budget holds for every max_retries: at most max_retries vTPM  *)
(* calls, a sleep before every retry and none after the last attempt, and  *)
(* a give-up only after max_retries failed calls.                          *)
COROLLARY RetryBudgetHolds == QrSpec => []RetryBudget
<1>1. QrInv => RetryBudget
  BY DEF QrInv
<1>. QED  BY <1>1, QrInvariant, PTL

(* No step retries the vTPM after a report was obtained: attempt grows     *)
(* only at the loop head, which is reached only after a failed call.       *)
THEOREM RetryOnlyAfterVtpmErrorHolds == QrSpec => RetryOnlyAfterVtpmError
<1>1. QrInv /\ [QrNext]_qvars => [attempt' > attempt => lastCall = "err"]_qvars
  <2> SUFFICES ASSUME QrInv, [QrNext]_qvars, attempt' > attempt
               PROVE  lastCall = "err"
    BY DEF qvars
  <2> USE DEF QrInv, QrTypeOK, RetryFacts
  <2>1. CASE NextAttempt
    BY <2>1 DEF NextAttempt
  <2>2. CASE ~NextAttempt
    BY <2>2 DEF QrNext, ParseReportData, VtpmCall, Sleep, ConvertReport, ExtractQuote,
              WriteJson, QrExited, qvars
  <2>. QED  BY <2>1, <2>2
<1>. QED  BY <1>1, QrInvariant, PTL DEF QrSpec, RetryOnlyAfterVtpmError

=============================================================================
