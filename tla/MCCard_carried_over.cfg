SPECIFICATION CardSpec
CONSTANTS
  nameColumn = nameColumn
  otherValue = otherValue
  Editors = {editor}
  Saves = {save1, save2}
  Columns = {}
  FieldIds = {1, 2}
  FirstFields = {1, 2}
  New = New
  Values = {firstValue, otherValue}
  FirstValue = firstValue
  Absent = Absent
  Nothing = Nothing
  OtherSaves <- SecondFieldSaves
  MaxVersion = 3
  MaxTouched = 1
PROPERTY NothingIsOverwrittenUntyped
CHECK_DEADLOCK FALSE
