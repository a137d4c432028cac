\* A user's calls, of two clients and with two tools, race on a window that may
\* lapse between them, over a Redis that may fail.
SPECIFICATION Spec
CONSTANTS
    c1 = c1  c2 = c2  c3 = c3
    u1 = u1  anon = anon
    g1 = g1  g2 = g2
    b1 = b1  b2 = b2
    Calls = {c1, c2, c3}
    Users = {u1}
    Groups = {g1, g2}
    Bases = {b1, b2}
    UserOf <- MCUserOf
    GroupOf <- MCGroupOf
    BaseOf <- MCBaseOf
    Anonymous = anon
    Window = 2
    MaxLag = 1
    MaxTime = 4
    RedisFails = TRUE
    NoSession = NoSession
    NoCall = NoCall
SYMMETRY Alike
INVARIANTS
    TypeOK
    FreshAfterQuiet
    RouteOutlivesSession
PROPERTIES
    ReplacedOnlyByRace
