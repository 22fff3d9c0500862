CONSTANTS
    own = own
    other = other
    f = f
    g = g
    None = None
    Wrong = Wrong
    Classes = {own, other}
    Fields = {f, g}
    Families <- MCFamilies
SPECIFICATION Spec
INVARIANTS
    TypeOK
    GuardedByItsOwn
    PermissionSeesTheCall
    AcceptedBinds
    AcceptedCompiles
    AcceptedAnswers
    MissIsNeverARow
    BodyAgreesWithStatus
    RefusalKeepsItsStatus
    SchemaServedAsRaised
    DescribedIsServed
    OptionsProbesNoStranger
