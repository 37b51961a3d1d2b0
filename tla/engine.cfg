CONSTANTS
    a = a
    b = b
    Session = {s1, s2}
    Token = {a, b}
    NoToken = NoToken
    Rare <- RareStep
    Config <- DefaultConfig
    Signals <- SomeSignals
    Failures <- SomeFailures
SPECIFICATION Spec
INVARIANTS PolicyBlockIsAuthoritative StrictestControlDecides EvidenceNeverWeakens
PROPERTIES FreshSessionIsNotHeld
