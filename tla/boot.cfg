\* Power that goes, commands that fail.
SPECIFICATION FairBootSpec
CONSTANTS
  MaxLoss = 3
  MaxCommandFail = 2
INVARIANTS RebootsOnce RecordTrue
PROPERTY Settles
