\* Four normal nodes of one DC and rack, one or two shards each, four
\* tablets with one replica: heaps of four nodes built in every order,
\* the target at any position while its key grows.
CONSTANTS
    h1 = h1  h2 = h2  h3 = h3  h4 = h4
    t1 = t1  t2 = t2  t3 = t3  t4 = t4
    tb1 = tb1  tb2 = tb2  d1 = d1  d2 = d2  r1 = r1  r2 = r2
    Host = {h1, h2, h3, h4}
    Tablet = {t1, t2, t3, t4}
    Table = {tb1}
    TableOf <- MCTableOfOne
    Dc = d1
    DcOf <- MCDcOfOne
    RackOf <- MCRackOfOne
    Normal = {h1, h2, h3, h4}
    MaxShards = 2
    ShardCountChoices = {1, 2}
    RF <- MCRFOne
    PendingChoices = {{}}
    NoHost = NoHost
SPECIFICATION Spec
SYMMETRY MCSymmetry
\* The planning call returns; its final states have no successor.
CHECK_DEADLOCK FALSE
INVARIANT HeapValidAtPop
