SPECIFICATION Spec
CONSTANTS
  MaxSounds = 2
  MaxPlaying = 3
INVARIANTS
  OwnCallbackRuns
