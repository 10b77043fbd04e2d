SPECIFICATION DirectoriesSpec
CONSTANTS
  Node = {n1, n2, n3}
  NULL = NULL
  Name = {a, b}
  SecondName = {x, y}
  Tel = {t}
  NoKey = NoKey
  MAXABONENT = 3
  MAX_LENGTH = 3
  TypedWord <- Words
  TypedAbonent <- Persons
  MAX_FILE = 3
  PANEL_HEIGHT = 4
  Dir <- Dirs
  Regular <- Files
  Parent = ".."
INVARIANTS
  WellLinked
  ListsAll
  ShowsBook
  PanelsUsable
PROPERTIES
  DirectorySpec
