SPECIFICATION Spec
CONSTANTS
    p1 = p1
    c1 = c1
    c2 = c2
    None = None
    Proposals = {p1}
    Callers = {c1, c2}
    ConfigPaths = {"mode", "hot"}
    Prompts = {"prompt"}
    Layouts = {"branch"}
    Contents = {"x", "y"}
    Mutations <- AllTargets
    MaxRecords = 3
INVARIANTS
    EvolutionInv
    InOrderRestores
SYMMETRY Symmetry
