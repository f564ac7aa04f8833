SPECIFICATION Spec
CONSTANTS
    Tracks <- MCTracks
    MAX_TRACKS = 2
INVARIANT TypeOK
INVARIANT TracksReported
INVARIANT StopClosesEvents
