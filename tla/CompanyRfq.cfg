SPECIFICATION Spec
CONSTANTS
  t1 = t1
  t2 = t2
  t3 = t3
  t4 = t4
  v1 = v1
  v2 = v2
  v3 = v3
  m1 = m1
  m2 = m2
  q1 = q1
  i1 = i1
  a = a
  b = b
  c1 = c1
  c2 = c2
  Tasks = {t1, t2}
  Workloads <- RaceOnly
  Vendors = {v1, v2, v3}
  Registered = {v1, v2}
  Catalog = {m1, m2}
  Template <- MCTemplate
  Invoice <- MCInvoice
  Currencies = {"USD", "EUR"}
  Ceiling = 2
  Permitted = {a}
  Contracts <- MCContracts
  Leads = {a}
  OptOuts = {a}
  Tickets = {a}
  Files = {a}
  MaxRfqs = 2
  None = None
INVARIANT OneRequestPerRfq
CHECK_DEADLOCK FALSE
