\* Lost, late, repeated, refused and unasked packets, and every length of a download.
SPECIFICATION Spec
CONSTANT Chips <- SafetyChips
INVARIANTS TypeOK ResetAfterAll CountedOnce RefusalIsFatal NextSeqZero NeverGivesUp
PROPERTY PipeSpec
