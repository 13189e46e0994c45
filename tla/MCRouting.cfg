SPECIFICATION Spec
CONSTANTS
    Servers <- MCServers
    Tree <- MCTree
    Scripts = {"py"}
    Generated = {"g1"}
    Endpoints = {"e1", "e2"}
    Hosts = {"h1", "h2"}
    NoHost = NoHost
    Methods = {"GET", "POST", "DELETE"}
    Uris <- MCUris
INVARIANTS
    RightLocation
    NormalKeepsWhatStands
    ServesOnlyFromRoot
    PathInfoIsTheRest
    UploadsCanBeFetched
PROPERTIES
    ChangesOnlyUploads
