\* Three nodes of one DC and rack; tablet t1 has one replica, t2 and t3 two:
\* two sources of equal load but different shard counts feed one target.
CONSTANTS
    h1 = h1  h2 = h2  h3 = h3  h4 = h4
    t1 = t1  t2 = t2  t3 = t3  t4 = t4
    tb1 = tb1  tb2 = tb2  d1 = d1  d2 = d2  r1 = r1  r2 = r2
    Host = {h1, h2, h3}
    Tablet = {t1, t2, t3, t4}
    Table = {tb1, tb2}
    TableOf <- MCTableOfTwo
    Dc = d1
    DcOf <- MCDcOfOne
    RackOf <- MCRackOfOne
    Normal = {h1, h2, h3}
    MaxShards = 2
    ShardCountChoices = {1, 2}
    RF <- MCRFMixed
    PendingChoices = {{}}
    NoHost = NoHost
SPECIFICATION Spec
SYMMETRY MCHostSymmetry
\* The planning call returns; its final states have no successor.
CHECK_DEADLOCK FALSE
INVARIANT NoLoadInversion
