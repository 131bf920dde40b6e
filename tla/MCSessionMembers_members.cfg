CONSTANTS
    Sessions = {call, conference}
    Conference = conference
    Objs = {m1, m2}
    Peers = {p1, p2}
    None = None
    Ssrcs = {1, 2, 3}
    XRTP_MAX_REPORTS = 2
    COUNT_MOD = 8
SPECIFICATION Spec
SYMMETRY PeerSymmetry
INVARIANTS TypeOK MembershipInv  OutgoingFits 
CHECK_DEADLOCK FALSE
