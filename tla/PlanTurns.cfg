SPECIFICATION FairSpec
CONSTANTS
    u1 = u1  u2 = u2   w1 = w1  r1 = r1  d1 = d1
    User = {u1, u2}
    Wake = {w1}
    Report = {r1}
    Ride = {d1}
    Turn <- MCTurn
    Days <- MCDays
    MaxPlans = 2
    MaxActs = 2
    None = None
INVARIANTS TypeOK AnsweredOnce CallersAreOwed TurnTakesItsOwn
PROPERTIES NextIsAsked LandsCurrent WakeUpsStay TurnsGoOn
CHECK_DEADLOCK FALSE
