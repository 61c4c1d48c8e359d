SPECIFICATION FairSpec
CONSTANTS
  Aggregates = {a1, a2}
  Ids = {i1, i2}
  Contents = {c1, c2}
  Owners = {o1, o2}
  Publishers = {p1, p2}
  Tails = {t1}
  None = None
  MaxSeq = 1
INVARIANTS TypeOK LogContiguous ProjectedOnce TailGapFree
PROPERTIES AppendOnly TailCatchesUp
