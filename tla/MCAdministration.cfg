SPECIFICATION FairSpec
CONSTANTS
  Assets <- MCAssets
  Items = {"a", "b"}
  Peers = {"n1", "n2", "n3"}
  Kind <- MCKind
  Procs = {"p1", "p2"}
  History = 2
  NoAsset = NoAsset
  NoPart = NoPart
  SelectedAtStart = "X"
  AssetsAtStart <- AtStart
  CommandLines <- MCCommandLines
INVARIANTS TypeOK ConsentComesFirst WritesOnlyWhatWasAsked
PROPERTIES CommandsEnd
CHECK_DEADLOCK FALSE
