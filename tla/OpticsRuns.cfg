CONSTANTS
    a = a
    b = b
    c = c
    s = s
    t = t
    NoType = NoType
    NoRequest = NoRequest
    Registries <- AllRegistries
    Compositions <- AllCompositions
    Targets <- WriteTargets
    Placeholders = {"<domain>", "<repair-plan-authorized-files>"}
    Libraries <- TwoOptics
    Bindings <- TwoBindings
    Sources <- SomeSources
    Requests <- SomeRequests
    Patches <- SomePatches
SPECIFICATION Spec
INVARIANTS CategoryTypeOK MissingWasOptional BoundaryIsKept WritesStayInside ProjectsWhenItShould GraphShowsLastView PatchIsGrounded
