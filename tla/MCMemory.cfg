SPECIFICATION Spec
CONSTANTS
    Contacts = {c1}
    summary = summary
    city = city
    Keys <- MCKeys
    Section <- MCSection
    Extractions = {j1, j2}
    MaxSuggestions = 2
SYMMETRY Symmetry
INVARIANTS
    TypeOK
    SourcesAreTrue
    OnlyNewestIsOpen
    EverythingEnds
