\* A ring of either policy, popped by the transport pump and by the
\* orchestrator draining it after a barge-in.
CONSTANTS
  Cap = 2
  Policies = {TRUE, FALSE}
  Producer = prod
  Consumers = {pump, drainer}
  MaxPush = 4
SPECIFICATION FairSpec
INVARIANTS NoSlotRace PopReadsWhatWasPushed
PROPERTIES ImplementsDropQueue EmptyOnlyWhenEmpty CallsReturn
