\* Careful and hasty users, late, declined, repeated and refused logins.
SPECIFICATION FairSpec
CONSTANTS
    MaxRequests = 6
    HastyRequests = 5
    MaxThreads = 2
    MaxLogins = 2
    MaxRestarts = 1
    Faults = {"network", "refused", "declined"}
    HastyFaults = {}
    None = None
INVARIANTS
    TypeOK
    TokenOfOneLogin
    RefusedOnlyWhenOvertaken
    OneConversation
PROPERTIES
    LoginAnswered
