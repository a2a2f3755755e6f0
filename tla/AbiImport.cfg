CONSTANTS
  DynamicElems = {"string"}
  FileLevel = FileLevel
  SnakeCase <- MCSnake
  CamelCase <- MCCamel
  Files <- MCFiles
  NoFile = NoFile
  NoName = NoName
  NoClient = NoClient
  Items <- MCItems
  Framework <- MCFramework
  MaxItems = 3
SPECIFICATION ImportSpec
INVARIANTS AbiIsTheRouter PlainReturnsEncodeAsListed RevertsListedOnce WrappersReachArms
CHECK_DEADLOCK FALSE
