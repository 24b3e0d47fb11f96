SPECIFICATION SpecV2
CONSTANTS
  deployer = deployer
  agent = agent
  vault = vault
  pool = pool
  controller = controller
  PoolFunds = 500
  AgentFunds = 11
  Accounts <- MCAccounts
  Users <- MCUsers
  Deployer = deployer
  ActionIds = {0, 1}
  Holders = {agent}
  Spenders = {vault}
  Amounts = {11}
  InitialBalances <- MCInitialBalances
  InitialSupply <- MCInitialSupply
  MaxSupply = 0
  Vault = vault
  Placeholder = deployer
  BpsInputs = {}
  Pool = pool
  PoolInstalled = controller
  InvoiceIds = {1, 2}
  InvoiceAmounts = {250}
  Vendors = {deployer}
  ClaimHashes = {"h"}
  Controller = controller
  PoolAtInstall = deployer
  TokenUnit = 1
  Window = 1
  ChallengerBps = 5000
  Agents = {agent}
  MaxTime = 1
  NoAddress = NoAddress
  Deadlines = {1}
  Attestations <- MCAttestations
  NoEvidence = NoEvidence
INVARIANTS FaultIsProven
