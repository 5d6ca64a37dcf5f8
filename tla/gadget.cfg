\* The scripts called by the unit, which waits for the daemon, and by adbd.sh, which does not.
SPECIFICATION FairSpec
CONSTANTS
  Callers = {TRUE, FALSE}
  MaxFail = 2
  MaxCalls = 4
INVARIANT DownMeansGone
PROPERTIES NothingLeft NeverInTheWay CallsEnd
