SPECIFICATION FairSpec
CONSTANTS
    Sessions = {a, b}
    MaxSends = 1
    Attempts = {i1}
    Resumable = {b}
    Quiet = {b}
PROPERTIES StopTakesEffect ComposerUnlocks BackgroundSettles
