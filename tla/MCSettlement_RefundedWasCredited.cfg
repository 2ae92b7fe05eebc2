SPECIFICATION Spec
CONSTANTS
    ann = ann
    bob = bob
    yes = yes
    no = no
    Users <- MCUsers
    Outcomes <- MCOutcomes
    Stakes <- MCStakes
    MaxTrades = 1
    MaxMessages = 2
    MaxAborts = 0
CHECK_DEADLOCK FALSE
INVARIANT RefundedWasCredited
