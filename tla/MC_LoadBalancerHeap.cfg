\* Four normal nodes of one DC, h1 alone in rack r1, one or two shards each;
\* two tablets with two replicas.  A target in r2 skips every candidate of
\* h1 that also has a replica in r2, so h1's shards and then h1 itself run
\* out of candidates while the vector is being popped and pushed.
CONSTANTS
    h1 = h1  h2 = h2  h3 = h3  h4 = h4
    t1 = t1  t2 = t2  t3 = t3  t4 = t4
    tb1 = tb1  tb2 = tb2  d1 = d1  d2 = d2  r1 = r1  r2 = r2
    Host = {h1, h2, h3, h4}
    Tablet = {t1, t2}
    Table = {tb1}
    TableOf <- MCTableOfOne
    Dc = d1
    DcOf <- MCDcOfOne
    RackOf <- MCRackOfTwo
    Normal = {h1, h2, h3, h4}
    MaxShards = 2
    ShardCountChoices = {1, 2}
    RF <- MCRFTwo
    PendingChoices = {{}}
    NoHost = NoHost
SPECIFICATION Spec
SYMMETRY MCRackSymmetry
\* The planning call returns; its final states have no successor.
CHECK_DEADLOCK FALSE
PROPERTIES Refinement
