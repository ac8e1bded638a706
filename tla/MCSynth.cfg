SPECIFICATION Spec
CONSTANTS
  Capacity = 3
  MaxInstruments = 1
  Names = {a, b}
  MaxPlays = 1
  MaxScheduled = 2
  MaxWords = 3
  None = None
INVARIANTS IInv SampleHeldOnce QuietIsQuiet OldInstrumentGone EventsCounted
PROPERTIES CommandsInOrder WaitsEnd
