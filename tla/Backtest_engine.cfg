SPECIFICATION Spec
CONSTANTS
  Scale = 10
  Allowed = {}
  Setups <- AllSetups
INVARIANTS Accounted EquityExact NeverShort
PROPERTY OverIsOver
CHECK_DEADLOCK FALSE
