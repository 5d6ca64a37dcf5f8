\* A download of more than 255 packets.
SPECIFICATION Spec
CONSTANT Chips <- RolloverChips
INVARIANT IndexRollsOver
