SPECIFICATION PlatformSpec
CONSTANTS
  p1 = p1
  p2 = p2
  p3 = p3
  b1 = b1
  b2 = b2
  c1 = c1
  c2 = c2
  c3 = c3
  sA = sA
  sB = sB
  m1 = m1
  m2 = m2
  None = None
  NoOne = NoOne
  Absent = Absent
  NoPosition = NoPosition
  Prepared = Prepared
  Parts <- EvidenceOnly
  Run <- Three
  Supplier <- OneSupplier
  Facts <- FactsSeen
  Limit = 3
  Request <- Three
  CaseId <- Cases
  Allowance = 2
  LastMonth = 2
  Browser <- Two
  Post <- Three
  RateMax = 1
  Vendor <- TwoSuppliers
  CaseText <- TextsSeen
  Update <- UpdatesSeen
  Answer <- AnswersSeen
  Tab <- Two
  CaseFile <- FilesSeen
  Draft <- DraftsSeen
  Opinion <- OpinionsSeen
  Window <- Two
  Payload <- Messages
  MaxVersion = 2
  MaxPosts = 2
INVARIANT ReasoningHasAWorker
SYMMETRY Symmetry
CHECK_DEADLOCK FALSE
