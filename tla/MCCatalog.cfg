CONSTANTS
    Handlers = {h1, h2}
    Names = {"doc", "twin"}
    Versions = {1, 2}
    MaxVersion = 2
    Relations = {"parts"}
    Facets = {"kind"}
    Schemas <- MCSchemas
    Slug <- MCSlug
    Ids = {b}
    Configs = {c1, c2}
SPECIFICATION Spec
INVARIANTS TypeOK ServedIsStored AllServed
PROPERTIES RestartRestores
SYMMETRY HandlerSymmetry
