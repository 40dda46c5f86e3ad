SPECIFICATION Spec
CONSTANTS
  None = None
  Open = Open
  Expired = Expired
  a1 = a1
  b1 = b1
  b2 = b2
  n1 = n1
  n2 = n2
  v1 = v1
  k1 = k1
  k2 = k2
  Callers = {c1, c2, c3}
  Workloads <- MCWorkloads
  Accounts = {a1}
  Currency = "INR"
  Opening <- MCOpening
  OpeningLimit <- MCLimit
  Beneficiaries = {b1}
  Contacts = {n1, n2}
  Vendors = {v1}
  Moq = 2
  Validity = 0
  MaxHour = 1
  MaxRetries = 1
  MaxWaiting = 1
  Shipments = {"DELIVERED"}
  MaxShipmentUpdates = 1
SYMMETRY MCSymmetry
CHECK_DEADLOCK FALSE
INVARIANTS BooksMatchReceipts OneOrderPerPurchase VerdictIsTrue
