CONSTANTS
  SectionDomains <- MCSectionDomains
  Subdomains <- MCSubdomains
  SubdomainHosts <- MCSubdomainHosts
  MaxSectionEdits = 3
  Files <- MCFiles
  Rows <- MCRows
  MaxFileEdits = 2
  Domains <- MCDomains
  Locations <- MCLocations
  Hosts <- MCHosts
  Paths <- MCPaths
  MaxRoutes = 4
SPECIFICATION Spec
INVARIANTS
  ReloadRunsTheFile
  BothSidesAgree
  LoadedAsWritten
  AnswersMostSpecific
CHECK_DEADLOCK FALSE
