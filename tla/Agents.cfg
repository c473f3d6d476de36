\* Two workers and two jobs; three agents, two of them with one payout address, two
\* requests and two fees; three requests to a pool of two connections.
SPECIFICATION Spec
CONSTANTS
  w1 = w1
  w2 = w2
  top = top
  essay = essay
  Nobody = Nobody
  Crew = {w1, w2}
  Once = {w2}
  Offers = {top, essay}
  Role <- role
  Skills <- skills
  Kind <- kind
  Input <- input
  Reward <- reward
  Cost <- cost
  Ranking <- ranking
  Grade <- grade
  Ratings <- ratings
  Postings = {j1}
  a1 = a1
  a2 = a2
  a3 = a3
  Payers = {a1, a2, a3}
  AddressOf <- address
  Visits = {v1, v2}
  MaxFees = 2
  Callers = {c1, c2, c3}
  PoolMax = 2
  MaxReads = 1
INVARIANTS
  TypeOK
  EachAccessHasItsFee
PROPERTIES
  BestJobServed
  EveryClaimEnds
\* A worker started with --once stops, a store closes, and fees run out.
CHECK_DEADLOCK FALSE
