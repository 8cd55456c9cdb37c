\* With a keyring, two starts of the program.
SPECIFICATION SettingsSpec
CONSTANTS
  Keystores = {"keyring"}
  Typings = 1
  Keys = 2
PROPERTY KeyIsMadeOnce
CHECK_DEADLOCK FALSE
