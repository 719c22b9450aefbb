SPECIFICATION CheckSpec
CONSTANTS
    c1 = c1  px = px  p1 = p1  h1 = h1
    NoProc = NoProc
    Procs = {p1}
    Checkers = {h1}
    Addr = {c1, px}
    V6 = {px}
    Gateways = {}
    TrustSets <- MCEither
    LogLines <- MCLines
    Within <- MCWithin
    MaxFaults = 2
    MaxKills = 1
INVARIANTS QuietAgreement NoEnforcementGap RolledBack DisagreementIsMarked OnlySightedPeersDropped
PROPERTIES AlarmHasCause PassMeansEnforced
