CONSTANTS
    Offered <- SomeSettings
    Default <- FreshSettings
    MaxSaves = 3
SPECIFICATION Spec
CHECK_DEADLOCK FALSE
PROPERTIES
    ChangedSettingIsKept
