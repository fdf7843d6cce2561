SPECIFICATION AppsSpec
CONSTANTS
    aws = aws  azure = azure  a1 = a1  a2 = a2  t1 = t1  t2 = t2  NoCloud = NoCloud
    Clouds <- TwoClouds  MaxLoads = 2  MaxRequests = 2
    Albums <- TwoAlbums  Titles <- TwoTitles  MaxWrites = 2  MaxQueries = 2
    Tables <- OneTwo  Columns <- OneTwo  Rows <- OneTwo
    FirstRows <- BothRows  FirstCells <- MixedCells  Edits <- OneEdit
    MaxTimers = 2  MaxChanges = 2
    Fields <- ThreeFields  Required <- TwoRequired  LateFields <- OneLate
SYMMETRY AppsSymmetry
INVARIANTS
    CanvasShowsClouds ChatShowsItsCloud SubscribedMeansIt
    ListShowsTheTable EditorHasATitle
    CacheFollowsThePage RowsFollowTheMarks RemovedRowsStayAway
    MessagesFollowTheFields
