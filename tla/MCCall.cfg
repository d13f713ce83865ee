SPECIFICATION PluginSpec
CONSTANTS
  Fun <- MCFun
  Args <- MCArgs
  CustomReturn <- ReturnsCustom
  NoFun = NoFun
  MaxDepth = 3
  MaxCalls = 4
INVARIANTS
  TypeOK
  ArgvOwn
  HandlerSlot
  HeapOfCalls
  KeepersOfCalls
  StackOfCalls
CHECK_DEADLOCK FALSE
