\* Refusals, unasked events, cut reads, a hang-up; every length around the roll-over.
SPECIFICATION FairSpec
CONSTANT Chips <- AllChips
INVARIANTS DataInOrder NoticedUpToLast
PROPERTIES OkMeansExecuted Terminates Attaches
