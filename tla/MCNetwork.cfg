SPECIFICATION Spec
CONSTANTS
  RingSize = 32
  Slack = 16
  RegisterSize = 64
  Lengths <- MCLengths
  Tested <- MCTested
  Copied <- MCCopied
  MaxFrames = 4
  MaxQueries = 2
INVARIANTS
  OffsetInStep
  UnreadFramesSurvive
  AnswersInOrder
PROPERTIES
  EveryFrameIsHandled
