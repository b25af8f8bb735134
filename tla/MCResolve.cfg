CONSTANTS
    v1 = v1
    v2 = v2
    VnetKeys <- MCVnets
    LayerInputs <- MCInputs
SPECIFICATION RSpec
INVARIANTS
    ResultIsClosedForm
    ConflictsAreDisagreements
    RejectionsNameTheDecidingTier
CHECK_DEADLOCK FALSE
