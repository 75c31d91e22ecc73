\* Three concurrent updates over two users, one without a profile.
SPECIFICATION FairSpec
CONSTANTS
    User = {u1, u2}
    Name = {old, new}
    Session = {s1, s2, s3}
    HasProfile = {u1}
    None = None
INVARIANTS AnswersAsAsked
PROPERTIES EveryRequestEnds
