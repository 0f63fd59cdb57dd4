SPECIFICATION Spec
CONSTANTS
    Handlers = {h1, h2}
    Versions <- AllVersions
    Kinds = {"list", "get", "search"}
    Wanted = {"p"}
    Arrays = {1, 2, 3}
    NoArray = 0
    Nobody = Nobody
INVARIANTS
    SettledIsOneVersion
    EditsPickedUp
    ExactUntilReload
PROPERTIES
    DownOnlyAfterLoad
