SPECIFICATION Spec
CONSTANTS
  Width <- MCWidth
  Mantissa <- MCMantissa
  Programs <- MCPrograms
  Main = "Main"
INVARIANTS TypeOK ThrownArrives
PROPERTIES HandlerInForce LocalsPrivate ArithmeticAgrees ArgumentsArrive
CHECK_DEADLOCK FALSE
