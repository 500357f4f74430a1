CONSTANTS
    Drawers = {d1, d2}
    MaxEvents = 4
SPECIFICATION Spec
INVARIANTS OneDrawer FreshAtRest
PROPERTIES PolishedAtLast JoinReturns
