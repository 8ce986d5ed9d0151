SPECIFICATION FairSpec
CONSTANTS
    a = a  b = b  None = None
    Replicas <- TwoReplicas
    MaxTrouble = 1
    Events <- TwoEvents
    Rules <- BothRules
    Hears <- DigestHearsFirst
    Scoped <- DigestRule
    Critical <- SecondEvent
    Digest <- DigestRule
    Debounced <- RuleOne
    QuietHours <- DigestRule
    BatchSize = 2
INVARIANTS NotifiedAtMostOnce NoneSkipped
PROPERTIES EveryEventHeard DigestsFlushed
CHECK_DEADLOCK FALSE
