SPECIFICATION Spec
CONSTANTS
    Phones = {a, b}
    Nobody = Nobody
    MaxUnplugs = 1
    MaxJobs = 2
    MaxCrashes = 1
INVARIANTS TypeOK RowsAreBounded
PROPERTIES NamesAreStable PluggedGetsName
