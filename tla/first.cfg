SPECIFICATION Spec
CONSTANTS
  Producers = {p1, p2}
  Consumers = {c1, c2}
  Size = 5
  Header = 1
  Workloads <- MCWorkloads
  MaxPuts = 5
  NoMessage = NoMessage
SYMMETRY Symmetry
INVARIANTS TypeOK NobodySleepsOver
PROPERTY ImplementsFifo
CHECK_DEADLOCK FALSE
