CONSTANTS
    a1 = a1
    a2 = a2
    a3 = a3
    a4 = a4
    a5 = a5
    c1 = c1
    c2 = c2
    Events = {e1, e2, e3}
    Articles = {a1, a2, a3, a4, a5}
    Clusters = {c1, c2}
    Named <- MCNamed
    Born <- MCBorn
    Kin <- MCKin
    Outlet <- MCOutlet
    Cron = Cron
    Manual = Manual
    Old = {a2}
    MaxManual = 1
    MaxFaults = 0
    None = None
SPECIFICATION Spec
INVARIANTS DurableIdentity
