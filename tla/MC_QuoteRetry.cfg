CONSTANTS
    MaxRetries = 3
    NoValue = NoValue
SPECIFICATION QrSpec
INVARIANTS QrTypeOK RetryBudget
PROPERTIES RetryOnlyAfterVtpmError QrTerminates
