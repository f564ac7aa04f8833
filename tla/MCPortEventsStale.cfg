SPECIFICATION Spec
CONSTANTS
    Tracks <- MCTracks
    MAX_TRACKS = 3
INVARIANT StaleResultsSilent
