\* One follower whose child ends by itself.
SPECIFICATION FairSpec
CONSTANTS
    Followers = {f1}
    Keys = {k1}
    Children = {d1}
    Cap = 1
    MaxBatch = 1
    None = none
PROPERTY EndIsTold
