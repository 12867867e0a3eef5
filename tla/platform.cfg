SPECIFICATION PlatformSpec
CONSTANTS
  p1 = p1
  p2 = p2
  p3 = p3
  b1 = b1
  b2 = b2
  c1 = c1
  c2 = c2
  c3 = c3
  sA = sA
  sB = sB
  m1 = m1
  m2 = m2
  None = None
  NoOne = NoOne
  Absent = Absent
  NoPosition = NoPosition
  Prepared = Prepared
  Parts <- AllParts
  Run <- Three
  Supplier <- OneSupplier
  Facts <- FactsSeen
  Limit = 3
  Request <- Three
  CaseId <- Cases
  Allowance = 2
  LastMonth = 2
  Browser <- Two
  Post <- Three
  RateMax = 1
  Vendor <- TwoSuppliers
  CaseText <- TextsSeen
  Update <- UpdatesSeen
  Answer <- AnswersSeen
  Tab <- Two
  CaseFile <- FilesSeen
  Draft <- DraftsSeen
  Opinion <- OpinionsSeen
  Window <- Two
  Payload <- Messages
  MaxVersion = 2
  MaxPosts = 2
INVARIANT MemoryTypeOK
INVARIANT RivalsAreLinked
INVARIANT VersionsInOrder
INVARIANT RepeatsNeedARival
INVARIANT NeverFromOwnWrite
PROPERTY MemoryKept
INVARIANT QuotaTypeOK
INVARIANT WorkIsPaidOnce
INVARIANT UsageIsAccounted
INVARIANT AccessTypeOK
INVARIANT SessionsAreReal
INVARIANT WorkspaceIsWhole
INVARIANT RefusalsAreFair
INVARIANT InviteAdmitsOne
PROPERTY FollowsMembership
INVARIANT EvidenceTypeOK
INVARIANT AskedBeforeReasoned
INVARIANT ProvenanceIsHonest
INVARIANT ChangeIsConfirmed
PROPERTY FirstSourceStands
INVARIANT PipelineTypeOK
INVARIANT PublishedWithinCeiling
INVARIANT NumbersSanitised
INVARIANT CertificateStands
INVARIANT OneJourney
INVARIANT FiguresAreComputed
INVARIANT SecondOpinionWhereWarranted
INVARIANT ResponseTypeOK
INVARIANT SuccessIsReal
PROPERTY RecordedNeverResent
PROPERTY EditsFollow
SYMMETRY Symmetry
\* A case that is answered, a browser with its session, a month that is over:
\* nothing has to follow.
CHECK_DEADLOCK FALSE
