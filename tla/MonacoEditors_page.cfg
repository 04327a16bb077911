SPECIFICATION Spec
CONSTANTS
    a1 = a1
    a2 = a2
    b = b
    v1 = v1
    v2 = v2
    Initially <- MCInitially
    Settings = {a1, a2, b}
    WithSchema = {a1, b}
    IdOf <- MCIdOf
    Values = {v1, v2}
    Blank = Blank
    Unset = Unset
    MaxInstances = 2
    MaxChanges = 3
INVARIANTS
    ModelsAndSchemasFollow
    EditorShowsValue
PROPERTIES
    OnlyShownSettingChanges
    BlankOnlyWithoutEditor
\* The page may be left alone.
CHECK_DEADLOCK FALSE
