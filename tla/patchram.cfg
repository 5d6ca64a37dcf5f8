\* Late alarms, refusals, a sleeping controller.  read_event may block for ever.
SPECIFICATION FairSpec
CONSTANTS
  Cases <- MCCases
  Packets = 2
  MaxAlarms = 3
INVARIANTS AnswersPaired ReadyAtEnd NotTorn
PROPERTY Ends
CHECK_DEADLOCK FALSE
