\* Three nodes of one DC and rack with one or two shards, four tablets of
\* replication factor 1 anywhere: rounds of plan and apply until a call
\* returns an empty plan.  No symmetry, so that liveness is checked soundly.
CONSTANTS
    h1 = h1  h2 = h2  h3 = h3
    t1 = t1  t2 = t2  t3 = t3  t4 = t4
    tb1 = tb1  d1 = d1  r1 = r1
    Host = {h1, h2, h3}
    Tablet = {t1, t2, t3, t4}
    Table = {tb1}
    TableOf <- MCTableOfOne
    Dc = d1
    DcOf <- MCDcOfOne
    RackOf <- MCRackOfOne
    Normal = {h1, h2, h3}
    MaxShards = 2
    ShardCountChoices = {1, 2}
    RF <- MCRFOne
    PendingChoices = {{}}
    NoHost = NoHost
SPECIFICATION RSpec
\* The last call returns an empty plan; nothing follows it.
CHECK_DEADLOCK FALSE
PROPERTIES SpreadNeverGrows Converges
