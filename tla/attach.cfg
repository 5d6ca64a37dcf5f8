\* Failures, hang-ups and signals, by hand and under the service.
SPECIFICATION FairSpec
CONSTANTS
  Services = {"restart", "manual"}
  FdLimit = 5
  MaxFail = 3
  MaxHangUp = 4
  MaxTerm = 2
INVARIANT Serving
PROPERTIES SuccessExplained ServesAgain
