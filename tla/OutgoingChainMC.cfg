SPECIFICATION Spec
CONSTANTS
  UrlWidth = 4
  Chains <- MCChains
  Limit = 5
INVARIANTS DeliveredInOrder QuoteOnFirst MentionsReach ChunksStandAlone LimitKept
CHECK_DEADLOCK FALSE
