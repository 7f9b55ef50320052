SPECIFICATION SpecOffice
CONSTANTS
  NoDecision = NoDecision
  Approver = {manager, accountant}
  Manager = {manager}
  PropertyManager = {manager}
  Accountant = {accountant}
  Entity = {1, 2, 3}
  ApprovalType = {"INVOICE", "PROPERTY"}
  Session = {s1}
  MaxApprovals = 2
  InvoiceWorker = {w1, w2}
  InvoiceVerdict = {"APPROVED", "MISMATCH"}
  MaxInvoices = 3
  Teller = {w1, w2}
  Total = 3
  Amount = {1, 2, 3}
  MaxPayees = 3
  MaxPayments = 3
  Signer = {w1, w2}
  MaxLOAEvents = 5
  MaxAgreementEvents = 4
  Surveyor = {w1, w2}
  StatusSet = {"UNDER_REVIEW"}
  MaxOptions = 2
  MaxOptionEvents = 3
  Region = {r1}
  Area = {a1, a2}
  Branch = {b1, b2}
  UnitName = {n1, n2}
  RentLimit = {0, 1, 2}
  Planner = {w1, w2}
  NoLimit = NoLimit
  QuotedTotal = {0, 1, 2, 3}
  MaxQuotations = 4
CONSTRAINTS TwoAtATime LimitsOfOneLine
SYMMETRY Symmetry
INVARIANTS
  TypeOKOffice
  InvoiceVerdictBacked
  RevisionsFollowRefusals
  HistoryIsFamily
  SumsBounded
  PaidIsCovered
  LOAInOrder
  TrailsShowLostChanges
  OptionsNumbered
  UnitsConsistent
  MostSpecificLimitApplies
  ComparisonBrackets
CHECK_DEADLOCK FALSE
