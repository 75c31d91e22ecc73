\* Two tokens, three keys.
SPECIFICATION FairSpec
CONSTANTS
    Request = {q1, q2}
    Key = {k1, k2, k3}
    None = None
PROPERTIES AcceptedWasPublished PublishedIsAccepted EveryTokenIsJudged
