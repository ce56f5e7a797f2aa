SPECIFICATION Spec
CONSTANTS
  Worlds <- ModelWorlds
  Builds <- ModelBuilds
  Returns <- Returned
  MaxTime = 3
  MaxCommands = 3
  MaxSlots = 2
  MaxDynamic = 2
  MaxNesting = 2
  Signature <- ModelFunctions
  Selector <- Selectors
  WordBits = 8
  MaxLeaves = 8
  MaxItems = 3
  MaxNestedCalls = 2
  MaxFormats = 4
  NativeChains = {1}
  SafeLibraries <- Libraries
  SafeChains = {1}
  Owner = "me"
  MaxPayloads = 2
  MaxFee = 100
  MaxDepth = 3
  MaxCalls = 2
  Escrow <- EscrowOf
  KnownTokens <- Known1
  Permit2 = "permit2"
  Proxy = "proxy"
  Exchange <- ExchangeOf
  Polygon = 137
  UsdcDecimals = 2
  Window = 1
  SolanaOwner = "solme"
  SystemProgram = "System"
  ComputeProgram = "Compute"
  TokenProgram = "Token"
  AssociatedProgram = "Ata"
  PumpCatalog <- Pumps
  PacketSize = 20
  MaxAccounts = 9
  LamportsPerSignature = 2
  MicroLamports = 10
CHECK_DEADLOCK FALSE
INVARIANTS SignedWasShown UseIsPermitted PaymentIsCharged ReadingIsComplete NoBlindReconfiguration ShortcutReadsWhatRuns
