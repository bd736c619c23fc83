SPECIFICATION Spec
CONSTANTS
  Null = Null
  Lower <- MCLower
  Entry = {"NORTH"}
  Category = {"food", "medicine"}
  Key = {"meat", "rice", "Rice"}
  BootKey = {"rice"}
  Amount = {5, 20}
  EventWord = {"intact"}
  BootCount = 0
  MaxAlerts = 1
  MaxMembers = 3
INVARIANT AlwaysReadable
INVARIANT EditsAgree
