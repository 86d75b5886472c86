SPECIFICATION WebSpec
CONSTANTS
    b1 = b1  b2 = b2  a1 = a1  a2 = a2  s1 = s1  s2 = s2
    t1 = t1  t2 = t2  q1 = q1  q2 = q2  None = None
    Browsers = {b1, b2}
    Accounts = {a1, a2}
    States = {s1, s2}
    Tokens = {t1, t2}
    Requests = {q1, q2}
    MaxUsers = 3
    MaxFaults = 2
    u1 = u1  u2 = u2  p1 = p1  x1 = x1  x2 = x2  n1 = n1  n2 = n2  name = name
    Anonymous = Anonymous
    Users = {u1, u2}
    Projects = {p1}
    Repos = {x1, x2}
    Runs = {n1, n2}
    MembersOf <- MCMembersOf
    RepoOf <- MCTwoRuns
    FullName <- MCTwoNames
    MaxAge = 1
    MaxRequest = 1
    RateLimit = 2
    RateWindow = 3
    MaxWaiting = 3
    MaxStall = 2
    MaxTime = 8
SYMMETRY MCSymmetry
INVARIANTS
    UsersAreAccounts LoggedInAsYourself
    PrivateRunsFadeOut MemberViewsStayWithMembers
    BurstsAreBounded
CHECK_DEADLOCK FALSE
