SPECIFICATION Spec

CONSTANTS
    r1 = r1
    r2 = r2
    s1 = s1
    s2 = s2
    Requests <- TwoRequests
    Starters <- TwoStarters
    Destinations <- ThreeProviders
    Searching <- BothProviders
    Spotify = "spotify"
    Occurrences <- TheOccurrences
    Answers <- TheAnswers

SYMMETRY RequestSymmetry

INVARIANTS
    TypeOK
    AllOrNothing
    DuplicatesAgree
    NoGuess
    Repeatable
    OneRunPerPreview

\* The system rests once the session is gone and the requests are answered.
CHECK_DEADLOCK FALSE
