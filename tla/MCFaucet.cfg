CONSTANTS
    w1 = w1
    w2 = w2
    Wallets = {w1, w2}
    d1 = d1
    d2 = d2
    Devices = {d1, d2}
    Nobody = Nobody
    Deaf = {w2}
    Cooldown = 2
    Lag = 1
    Hashes = {1, 2, 3}
    Visits <- MCVisits
SPECIFICATION FaucetFairSpec
INVARIANTS OnceADay WaitsAreEarned
PROPERTY PaidEveryDay
