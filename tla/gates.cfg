CONSTANTS
    Gate = {"api", "walk", "wire", "lockstep", "pins"}
    Exports = {exp}
    ReleaseExport = rel
    Shapes <- MCShapes
    MaxEntries = 1
    Files = {"f1", "f2", "f3"}
    Names = {"x", "y"}
    Contents <- MCContents
    Places <- MCPlaces
    Calls <- MCCalls
    MinNames = 1
    Descriptors <- MCDescriptors
    Mirrors <- MCMirrors
    Keys = {"k", "l"}
    PinNames = {"sandbox-protocol"}
    PinFields = {"dependencies", "devDependencies"}
    PinVersions = {1, 2}
SPECIFICATION Spec
INVARIANTS NoSilentLoss SurfaceIsExports PassMeansFit
CHECK_DEADLOCK FALSE
