\* One service at a time.
SPECIFICATION ServicesSpec
CONSTANTS
  Proxies = {"p", "s"}
  StaticProxies = {"s"}
  MaxProfiles = 2
  MaxEdits = 1
  MaxNetFaults = 1
  Mailboxes = {"m"}
  MaxCaptures = 2
  MaxMailboxEdits = 1
  ChainOwners = {"o1", "o2"}
  ChainThreads = {"t1", "t2"}
  RelayPorts = {1, 2}
  FirstOwner = "o1"
  Connected = {"o1"}
  MaxChainOps = 2
  MaxChainFaults = 1
  Clients = {"c1", "c2"}
  MaxRequests = 2
  MaxLoginCrashes = 1
  MaxLoginRetries = 1
INVARIANTS
  ServicesTypeOK IdentitiesAreKept CapturesAgree
  ChainsAgree StoppedHasNoClients NoSocketIsLeft AttemptsAreBounded
PROPERTIES
  LoginCodes ServicesEnd
CHECK_DEADLOCK FALSE
