SPECIFICATION Spec
CONSTANTS
  Warehouses <- MCWarehouses
  MaxRows = 2
  MaxRefresh = 2
INVARIANTS FiguresOfOneWarehouse TableAddsUp OnlyChangesFromZeroFail
CHECK_DEADLOCK FALSE
