\* An editor and an administrator, two lists or destinations.
SPECIFICATION SettingsSpec
CONSTANTS
    Editors = {"ann", "admin"}
    Administrators = {"admin"}
    Items = {i1, i2}
    MaxCalls = 3
    NotLoaded = NotLoaded
PROPERTIES ForeignListsStay
CHECK_DEADLOCK FALSE
