\* Three calls share the prompt of an account with MFA.
CONSTANTS
    c1 = c1
    c2 = c2
    c3 = c3
    s1 = s1
    s2 = s2
    Calls = {c1, c2, c3}
    Submits = {s1, s2}
    HasMfa = TRUE
SPECIFICATION FairSpec
INVARIANTS
    PromptServesWaiters
    PerformedAtMostOnce
PROPERTIES
    RetriedTogether
    ChallengeSettled
