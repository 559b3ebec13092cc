\* Quotes and records of one peer over both transports, with lost and late replies.
SPECIFICATION FairSpec
CONSTANTS
  Quotes = {q1, q2}
  Modes = {"auto", "dm", "iroh"}
  MaxFaults = 2
INVARIANTS
  OneSwapAtATime
PROPERTIES
  DeclineIsTrue
  CreatedIsRecorded
