SPECIFICATION FairSpec
CONSTANTS
    Participant = {p1, p2}
    Replayer = {r1, r2}
    Maintainer = {m1}
    NoOne = NoOne
    Lease = 2
PROPERTIES ImplementsFence AbandonedLeasesExpire
