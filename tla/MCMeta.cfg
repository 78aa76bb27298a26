SPECIFICATION Spec
CONSTANTS
    MaxTxn = 6
    Plans <- BothPlans
INVARIANTS HeadIntact DurableSurvives AlwaysOpens NoClash
PROPERTIES HeadMonotone FallbackMonotone
