CONSTANTS
  joan = joan
  pere = pere
  arm = arm
  client = client
  epi = epi
  tc2 = tc2
  Workers = {joan, pere}
  Last4 <- DigitsOf
  Employers = {arm, client}
  EmployerOf <- EmployerOfBoth
  OwnCompany = arm
  DocumentTypes = {epi, tc2}
  Texts <- StatusTexts
  TermsIn <- TermsOf
  Sighted <- SightedItems
  Captures <- CaptureSet
  Syncers = {y1, y2}
  Unlinked = Unlinked
  MaxDocuments = 1
  MaxFiled = 2
  MaxRefiled = 1
  MaxSyncs = 3
SPECIFICATION SpecObservations
CHECK_DEADLOCK FALSE
INVARIANTS ColorAsDocumented
