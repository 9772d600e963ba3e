SPECIFICATION Spec
CONSTANT Layouts <- MCLayouts
CONSTANT Halo = 2
INVARIANTS TypeOK StencilReadsFreshHalos BuffersNotRaced OneExchangeAhead
PROPERTY ImplementsHaloFill
