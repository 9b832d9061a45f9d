CONSTANTS
  Off = Off
  p1 = p1
  p2 = p2
SPECIFICATION Spec
SYMMETRY Interchangeable
INVARIANTS
  
  DropsAnnounced
  ReportsHonest
  PromotionEarned
  
  DriftTruthful
  ContainersInPlace
  OrdersCorrect
CHECK_DEADLOCK FALSE
