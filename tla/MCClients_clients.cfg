SPECIFICATION ClientSpec
CONSTANTS
  save1 = save1
  save2 = save2
  Editors = {editor}
  Saves = {save1, save2}
  nameColumn = nameColumn
  otherValue = otherValue
  Columns = {nameColumn}
  FieldIds = {1, 2, 3}
  FirstFields = {1, 2}
  New = New
  Values = {firstValue, otherValue}
  FirstValue = firstValue
  OtherSaves <- SampleSaves
  Absent = Absent
  Nothing = Nothing
  MaxVersion = 3
  MaxTouched = 1
  People = {p1}
  Items = {1, 2}
  Notes = {1}
  ItemRequests = {r1, r2, r3}
  Bodies = {body}
  LastMs = 1
  NoPerson = NoPerson
  ClientKeys = {k1, k2}
  PageSize = 2
  MaxThread = 4
  MaxReads = 2
  NoKey = NoKey
  Writes = {w1, w2}
  Shown = {s1, s2}
  FirstState = s1
  LastVersion = 3
  NoWrite = NoWrite
  Chats = {1, 2, 3}
  ListStatuses = {open, closed}
  AnyStatus = AnyStatus
  PageLimit = 1
  LastSortAt = 2
  MaxEdits = 1
  MaxListIds = 3
SYMMETRY ClientSymmetry
INVARIANTS
  ClientTypeOK
  NothingIsShownTwice
  DeletionsAreAnnouncedOnce
  PagesSkipNothing
PROPERTIES
  NothingIsOverwrittenUnseen
  WritesReplaceWhatWasSeen
CHECK_DEADLOCK FALSE
