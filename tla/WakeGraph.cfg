SPECIFICATION FairSpec
CONSTANTS
    Tgids = {1, 2, 3}
    Edges <- Chain
    NTasks <- TwoEach
    None = None
    Traffic = {0, 8}
    AlphaInv = 2
    MergeRate = 4
    MergeConfirm = 2
    SplitMin = 2
    SplitConfirm = 3
    SplitMinTasks = 2
    MaxIds = 6
    Mortal = {1}
INVARIANTS
    MembersHaveCohort
PROPERTIES
    MergesConfirmed
    TalkersStayTogether
    SplitsConfirmed
    Settles
    TalkersJoin
CHECK_DEADLOCK TRUE
