SPECIFICATION Spec
CONSTANTS
    a = a  b = b  None = None
    Replicas <- OneReplica
    MaxTrouble = 0
    Events <- TwoEvents
    Rules <- BothRules
    Hears <- DigestHearsFirst
    Scoped <- DigestRule
    Critical <- SecondEvent
    Digest <- DigestRule
    Debounced <- RuleOne
    QuietHours <- DigestRule
    BatchSize = 2
INVARIANT ScopedToo
CHECK_DEADLOCK FALSE
