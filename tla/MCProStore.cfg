SPECIFICATION Spec
CONSTANTS
    Keys = {k1}
    Pendings = {p1}
    Files = {f1, f2, f3}
    Calls = {c1, c2}
    None = None
SYMMETRY Alike
INVARIANTS
    ToldIsDurable
PROPERTIES
    AnswersHold
    ImplementsCell
