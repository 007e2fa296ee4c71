SPECIFICATION Spec
CONSTANTS
    PartOf <- MCPartOf
    StartOf <- MCStartOf
    NumberOf <- MCNumberOf
    RankOf <- MCRankOf
    MaxFilterDepth = 3
    Rows <- MCRows
    Alphabets <- MCAlphabets
    Trees <- MCTrees
    None = None
INVARIANTS
    ParserTrue
    TailCoversQuery
CHECK_DEADLOCK FALSE
