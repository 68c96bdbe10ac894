SPECIFICATION Spec
CONSTANTS
  MaxSounds = 4
  MaxPlaying = 3
INVARIANTS
  TypeOK
  OnlyPickupSoundsHooked
  NoCallbackTwice
  MusicRestored
PROPERTIES
  PopupAsWanted
