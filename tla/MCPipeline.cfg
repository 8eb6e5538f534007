CONSTANTS
  main = main  h1 = h1  h2 = h2  s1 = s1  s2 = s2  proxy = proxy  client = client
  NoArg = NoArg
  Maps <- MCMaps
  MainHost = main
  Hosts <- MCHosts
  Slugs <- MCSlugs
  Addresses <- MCAddresses
  Trusted <- MCTrusted
  MaxEntries = 2
SPECIFICATION RequestSpec
INVARIANTS HandlerIsEntitled TokensTaken KeptResponsesArePublic ForgedEntriesIgnored
CHECK_DEADLOCK FALSE
