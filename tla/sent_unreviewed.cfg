SPECIFICATION ResponseSpec
CONSTANTS
  t1 = t1
  t2 = t2
  p1 = p1
  p2 = p2
  Prepared = Prepared
  Window <- TwoTabs
  Payload <- TwoPayloads
  MaxVersion = 3
  MaxPosts = 1
INVARIANT SentAsReviewed
SYMMETRY Symmetry
