SPECIFICATION TopicSpec
CONSTANTS
  Letters = {"a", "b"}
  NameMax = 5
  FilterMax = 5
INVARIANTS TopicInv CoveredIsDelivered
