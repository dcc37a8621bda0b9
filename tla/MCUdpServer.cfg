SPECIFICATION FairSpec
CONSTANTS
  Addrs = {gcs, drone}
  Talkers = {gcs}
  Timeout = 2
  Never = Never
  Slots = 2
  Nobody = Nobody
INVARIANTS
  TypeOK
  SendersAreClients
PROPERTIES
  OnlySilentDiscarded
  ClientsAreMinded
