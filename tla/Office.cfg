SPECIFICATION Spec
CONSTANTS
  YearLen = 2
  Member = {1, 2, 3}
  Founders = {1, 2}
  Cores <- MCCores
  Addresses = {1}
  Accounts = {1}
  Household = {1, 2}
  Sharings <- MCSharings
  Group = {1}
  QualType = {1, 2}
  Milestones = {25}
  ModelId = {m1, m2}
  NoTariff = NoTariff
  Tariffs <- MCTariffs
  LastMonth = 4
  Ranges <- MCRanges
  Mandates = {7}
  Entries <- MCEntries
  Dates = {5}
  Amounts = {3}
  DonorId = {1, 2}
  DatesPerYear = 3
  ByName <- MCByName
  MonthDays <- MCMonthDays
  MaxOccurrences = 64
  EventId = {1}
  Series <- MCSeries
  EventDays = {3, 31, 90}
  LastDay = 92
  Windows <- MCWindows
  Statuses = {"present"}
  TaskForms <- MCTaskForms
  ItemId = {1, 2}
  Conditions = {"ready", "damaged"}
  Budgets <- MCBudgets
CHECK_DEADLOCK FALSE
INVARIANTS
  ChargedOnce
  NoGapNoOverlap
  OneCollection
  UndoRestores
  SharedDataAgrees
  NoOrphans
  CertifiedOnce
  ReceiptLog
  OccurrencesComplete
PROPERTIES
  MoneyIsSpentOnce
  SeriesContinues
  LentWhenReady
