SPECIFICATION Spec
CONSTANTS
    Payloads <- MCPayloads
    FrameInputs <- MCFrameInputs
    Segments <- MCSegments
    Roots <- MCRoots
    Paths <- MCPaths
    Directories <- MCDirectories
    Known <- MCKnown
    Routes <- MCRoutes
    Situations <- MCSituations
INVARIANTS
    DoctorForetellsRun
