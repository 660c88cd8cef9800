SPECIFICATION FairLockSpec
CONSTANTS
    t1 = t1
    t2 = t2
    t3 = t3
    s1 = s1
    s2 = s2
    Free = Free
    Thread = {t1, t2, t3}
    Store = {s1, s2}
    StoreOf <- Sharing
    MaxDeaths = 0
PROPERTY WaitsEnd
