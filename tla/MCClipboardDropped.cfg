CONSTANTS
    FormAdmins = {"f1"}
    MaxSubmits = 1
    MaxTouched = 2
    FormScopes = {{"clip"}}
SPECIFICATION FormSpec
PROPERTIES ClipboardSetHereWins
CHECK_DEADLOCK FALSE
