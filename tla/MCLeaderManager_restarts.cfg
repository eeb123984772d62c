\* two tabs that stop and start again, with late timers
CONSTANTS
    Client = {1, 2}
    NoLeader = NoLeader
    MaxStops = 2
    MaxLate = 2
SPECIFICATION Spec
INVARIANT NeverStuck
PROPERTY EventuallyAgreed
