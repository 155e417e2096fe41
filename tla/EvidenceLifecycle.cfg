SPECIFICATION FairSpec
CONSTANTS
    bluesky = bluesky
    rss = rss
    github = github
    account = account
    publisher = publisher
    owner = owner
    Connector = {bluesky, rss, github}
    Feed = bluesky
    Posts = {1, 2, 3, 4, 5}
    Item = {4, 5, 6, 8}
    ItemsOf <- MCItemsOf
    Batched = {6}
    Metered = {8}
    Source = {account, publisher, owner}
    SourceOf <- MCSourceOf
    Worker = {w1, w2}
    Start = 3
    Overlap = 2
    MaxMessages = 3
    MaxUris = 1
    Blank = Blank
    Absent = Absent
    MaxDeliveries = 2
    MaxPolls = 2
    Erasable = {publisher}
    MaxFaults = 1
INVARIANTS EvidenceBehindEveryFact CompletedMeansDeleted ErasureIsDoneOrGivenUp NoPostSkipped
PROPERTY EveryDeletionEnds
CHECK_DEADLOCK FALSE
