CONSTANTS
  NProducer = 2
  NConsumer = 3
  Produce = 3
  Consume = 2
SPECIFICATION FairSpec
INVARIANTS ProgramInv MutualExclusion ProducedFirst
PROPERTY AllExit
