SPECIFICATION KeyFairSpec
CONSTANTS
    q1 = q1
    q2 = q2
    q3 = q3
    key1 = key1
    Nobody = Nobody
    Rounds = 2
    Requests <- MCRequests
    Keys <- MCKeys
    KeyOf <- MCKeyOf
    BodyOf <- MCBodyOf
INVARIANTS
    OneEffectPerKey
PROPERTIES
    RepetitionIsSafe
    EveryoneIsAnswered
CHECK_DEADLOCK FALSE
