SPECIFICATION Spec
CONSTANTS
    a = a  b = b  None = None
    Replicas <- TwoReplicas
    MaxTrouble = 1
    Events <- TwoEvents
    Rules <- BothRules
    Hears <- DigestHearsFirst
    Scoped <- DigestRule
    Critical <- SecondEvent
    Digest <- DigestRule
    Debounced <- RuleOne
    QuietHours <- DigestRule
    BatchSize = 2
INVARIANT SingleLeader
\* Also refuted on this instance, one at a time:
\* INVARIANT ToldBeforePassed
CHECK_DEADLOCK FALSE
