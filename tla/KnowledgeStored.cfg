SPECIFICATION Spec
CONSTANTS
  None = None
  Everyone = Everyone
  s1 = s1
  s2 = s2
  s3 = s3
  a = a
  b = b
  c1 = c1
  c2 = c2
  e1 = e1
  e2 = e2
  p1 = p1
  p2 = p2
  m1 = m1
  m2 = m2
  Writers = {w1, w2}
  Readers = {r1}
  Collections = {a, b}
  Sources = {s1, s2, s3}
  CollectionOf <- MCCollectionOf
  Contents = {c1, c2}
  Principals = {p1}
  Queries <- MCQueries
  Acls <- MCAcls
  Documents <- MCAclChange
  Profiles = {m1, m2}
  Entities = {e1, e2}
  Extract <- MCExtract
  Near = {c1}
  Matching = {c1}
  MaxDepth = 1
  Limit = 2
  MaxRevision = 2
  Stores = {TRUE}
SYMMETRY MCSymmetry
CHECK_DEADLOCK FALSE
PROPERTY PublishedIsStored
