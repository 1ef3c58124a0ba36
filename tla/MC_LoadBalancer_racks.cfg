\* Two racks in DC d1 (h1 alone in r1; h2, h3 in r2), where h3 is not in
\* normal state and h4 belongs to DC d2: both hold replicas but are not
\* balanced.  Tablet t1 of table tb1 has one replica, t2 and t3 of table
\* tb2 two; tb2 may have pending transitions.  No symmetry: the hosts and
\* tablets all play different parts.
CONSTANTS
    h1 = h1  h2 = h2  h3 = h3  h4 = h4
    t1 = t1  t2 = t2  t3 = t3  t4 = t4
    tb1 = tb1  tb2 = tb2  d1 = d1  d2 = d2  r1 = r1  r2 = r2
    Host = {h1, h2, h3, h4}
    Tablet = {t1, t2, t3}
    Table = {tb1, tb2}
    TableOf <- MCTableOfTwo
    Dc = d1
    DcOf <- MCDcOfTwo
    RackOf <- MCRackOfTwo
    Normal = {h1, h2, h4}
    MaxShards = 2
    ShardCountChoices = {1, 2}
    RF <- MCRFMixed
    PendingChoices = {{}, {tb2}}
    NoHost = NoHost
SPECIFICATION Spec
\* The planning call returns; its final states have no successor.
CHECK_DEADLOCK FALSE
INVARIANTS TypeOK
