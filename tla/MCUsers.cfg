CONSTANTS
    c1 = c1
    c2 = c2
    r1 = r1
    r2 = r2
    ann = ann
    w1 = w1
    w2 = w2
    w3 = w3
    None = None
    Clients <- MCClients
    Slots <- MCSlots
    Names <- MCNames
    Words <- MCWords
    Long = {w3}
    Loads <- MCLoads
    Faults <- AllUserFaults
    Senders = {0, 1}
    Limit = 1
    Exact = 2
SPECIFICATION FairSpec
INVARIANTS
    TypeOK
    OneAccountPerAddress
    SignupAnswersTrue
    LoginAnswersTrue
    HistoryAnswersTrue
PROPERTIES
    ClientsAnswered
