SPECIFICATION Spec
CONSTANTS
    Sessions = {a, b}
    MaxSends = 1
    Attempts = {}
    Resumable = {}
    Quiet = {}
PROPERTY SwitchSparesStreams
