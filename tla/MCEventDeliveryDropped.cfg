SPECIFICATION Spec
CONSTANTS
  Events = {1}
  BrokerOf <- OneAndTwo
  AccountEvents = {1}
  RemittanceEvents = {}
  BatchSize = 1
  Copies = {1, 2}
  MaxRetries = 1
  Faults <- ConsumerCrashes
  MaxInputs = 2
INVARIANTS
  NeverDropped
