\* A download of more than 127 packets to a controller that restarts its numbers.
SPECIFICATION Spec
CONSTANT Chips <- LongResetChips
INVARIANT NeverGivesUp
