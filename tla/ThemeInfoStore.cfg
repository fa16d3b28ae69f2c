SPECIFICATION EnvironmentsSpec
CONSTANTS
  Stores = {s1, s2}
  NoStore = NoStore
  EnvironmentCount = 2
  ThemeCommands = {"info"}
  MaxThemeMishaps = 2
INVARIANTS KeptUnderItsStore
CHECK_DEADLOCK FALSE
