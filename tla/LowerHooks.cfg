SPECIFICATION Spec
CONSTANTS
    formula_name = "foo"
    keg_path <- MCKegPath
    dependency = "dep"
    Captured = "$out"
    Attributes <- MCAttributes
    Formulas <- MCHooks
    Trees <- MCTrees
    MaxWork = 12
INVARIANTS SameEffect FailsClosed Accepted CensusExplains
PROPERTY Terminates
CHECK_DEADLOCK FALSE
