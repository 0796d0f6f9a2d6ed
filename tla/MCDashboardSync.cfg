SPECIFICATION Spec
CONSTANTS
    t1 = t1
    get1 = get1
    get2 = get2
    post1 = post1
    post2 = post2
    old = old
    new = new
    NoTab = NoTab
    Tabs <- MCTabs
    Gets <- MCGets
    Calls <- MCCalls
    Values <- MCValues
    Initial = old
    Asked <- MCAsked
    Capacity = 1
    MaxDrops = 0
SYMMETRY MCSymmetry
INVARIANTS
    TabsInSync
CHECK_DEADLOCK FALSE
