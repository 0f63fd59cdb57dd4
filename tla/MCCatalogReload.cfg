SPECIFICATION Spec
CONSTANTS
    Handlers = {h1}
    Versions <- GoodVersions
    Kinds = {"list", "get", "search"}
    Wanted = {"p"}
    Arrays = {1, 2, 3}
    NoArray = 0
    Nobody = Nobody
INVARIANTS
    NoRestartNeeded
