CONSTANTS
  s1 = s1  s2 = s2  h1 = h1  h2 = h2  a1 = a1  a2 = a2
  NoHost = NoHost  Watch = Watch
  Slugs <- MCSlugs
  Hosts <- MCHosts
  MainHosts <- MCHosts
  Admins <- MCAdmins
  MaxCommits = 3
  MaxFaults = 1
SPECIFICATION FairSpec
INVARIANTS MapIsACommit IdNamesOneProject RedirectReachesProject
PROPERTIES MapPromise EveryCommitShown
