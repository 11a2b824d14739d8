\* New accepts capacity 1: a second push then overwrites the item in the only slot.
CONSTANTS
  Cap = 1
  Policies = {FALSE}
  Producer = prod
  Consumers = {pump}
  MaxPush = 2
SPECIFICATION FairSpec
PROPERTY PopReturns
