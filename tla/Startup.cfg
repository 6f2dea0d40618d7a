\* Once all processes are up nothing more happens: deadlock is not an error.
SPECIFICATION Spec
CONSTANTS
  Leftovers = {{}, {"request_client", "reply_client"}, {"request_server", "reply_server"},
               {"request_client", "reply_client", "request_server", "reply_server"}}
  MaxKills = 2
INVARIANTS
  PortHeldByServer
  UpOnlyWithPipes
PROPERTIES
  AllComeUp
CHECK_DEADLOCK FALSE
