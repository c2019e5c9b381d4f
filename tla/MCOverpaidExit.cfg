SPECIFICATION MCSpec
CONSTANTS
  Calls = {c1, c2, c3}
  Quantity = 3
  Exercised = {1, 2}
  Options = 3
  Amounts = {1, 2}
  Holders = {"small", "h1", "h2"}
  Holdings <- MCHoldings
  PerShare = 2
  Exits <- MCExits
  Conversions <- MCConversions
  Rounds <- MCRounds
  Exercises <- MCExercises
  Splits <- MCSplits
  Offerings <- MCOfferings
  Sizes = {40, 50, 51, 500, 501, 27500, 100000}
  Sales <- MCSales
  Amounts1099 = {0, 999, 1000, 2500}
  Submissions <- MCSubmissions
  PayeeLists <- MCPayeeLists
  CodeLists <- MCCodeLists
  Codes = {"1", "4"}
  Listed = {"1"}
  Payments <- MCPayments
  AmountLimit = 10
  TotalLimit = 100
  MaxPayees = 2
  Entries <- MCEntries
  Desks = {"calculator"}
INVARIANT
  WithinProceeds
CHECK_DEADLOCK FALSE
