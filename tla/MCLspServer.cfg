CONSTANTS
  main = main
  lib = lib
  old = old
  new = new
  NoText = NoText
  Files <- MCFiles
  WalkOrder <- MCWalkOrder
  Texts <- MCTexts
  Uris <- MCUris
  UriToPath <- MCUriToPath
  PathToUri <- MCPathToUri
  EditorUri <- MCPathToUri
  Editable <- MCEditable
  MaxRequests = 1
  MaxInbox = 2
  MaxNotices = 1
SPECIFICATION FairSpec
INVARIANTS
  TypeOK
  LiveTextNotShadowed
  RequestSeesBuffer
  AnsweredOnce
  FreshOrPending
PROPERTIES
  EventuallyAnswered
  EventuallyFresh
CHECK_DEADLOCK FALSE
