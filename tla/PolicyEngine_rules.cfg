SPECIFICATION Spec
CONSTANTS
    NaN = NaN
    Infinity = Infinity
    None = None
    Naive = Naive
    Threads = {t1, t2}
    PublicKeys <- Registry
    Documents <- Pool
    Agreements <- Agreed
    Transactions <- Purchases
    UnitsPerPaisa = 4
    MaxClock = 2
SYMMETRY Symmetry
INVARIANTS
    TypeOK
    SpentByOneGrant
    GrantsArePermitted
    GrantsAreAgreed
    LargerIsNotEasier
    ReasonsAreEarned
    CorpusAgrees
    CorpusGuardsEveryCheck
    ScenariosAgree
    ChargeIsApproved

PROPERTIES
    ImplementsMandateUse
