CONSTANTS
  n1 = n1
  n2 = n2
  r1 = r1
  r2 = r2
  e1 = e1
  NoHolder = NoHolder
  Names <- MCOneName
  Reqs <- MCReqs
  Exes <- MCExes
  MaxRetries = 1
SPECIFICATION SvcSpecHungNested
PROPERTY EveryRequestAnswered
