SPECIFICATION WorkerSpec
CONSTANTS
  Messages <- MCMessages
  Children <- MCChildren
  Errors <- MCErrors
  Label <- MCLabel
  Amount <- MCAmount
  Tags <- MCTags
  Asked <- MCAsked
  Empty = ""
  Files = {"f"}
  MaxRows = 3
  MaxArgs = 2
  Null = Null
  NoText = NoText
  None = None
  MessagesOf <- MCMessagesOf
INVARIANTS
  NeverFails UnderItsParent EachChildOnce
  ValuesOfTheirRows VerdictOfItsErrors FailsOnTagsOnly
  LayoutsMatch ColumnsShowTheirPlaces CompanionsTogether
