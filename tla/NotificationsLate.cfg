SPECIFICATION FairSpec
CONSTANTS
    a = a  b = b  None = None
    Replicas <- OneReplica
    MaxTrouble = 0
    Events <- TwoEvents
    Rules <- BothRules
    Hears <- DigestHearsFirst
    Scoped <- DigestRule
    Critical <- SecondEvent
    Digest <- DigestRule
    Debounced <- RuleOne
    QuietHours <- DigestRule
    BatchSize = 2
PROPERTY LateEventHeard
CHECK_DEADLOCK FALSE
