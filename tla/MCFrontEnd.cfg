\* Two clicks that set a proxy, with one that clears it between them.
SPECIFICATION FairFrontSpec
CONSTANTS
  MaxSets = 5
  MaxSessions = 1
  Hosts = {"a"}
  Others = {"", "name", "long"}
  PortTexts <- MCPortTexts
  Users = {"", "u", "long"}
  Passwords = {"", "p", "long"}
  TooLong = {"long"}
CHECK_DEADLOCK FALSE

  
  
PROPERTY
  BroughtUpToDate
