SPECIFICATION QFair
CONSTANTS
  deployer = deployer
  agent = agent
  vault = vault
  pool = pool
  controller = controller
  PoolFunds = 1100
  AgentFunds = 29
  Accounts <- MCAccounts
  Users <- MCUsers
  Deployer = deployer
  ActionIds = {0, 1}
  Holders = {agent}
  Spenders = {vault}
  Amounts = {29}
  InitialBalances <- MCInitialBalances
  InitialSupply <- MCInitialSupply
  MaxSupply = 0
  Vault = vault
  Placeholder = deployer
  BpsInputs = {}
  Pool = pool
  PoolInstalled = controller
  InvoiceIds = {1, 2}
  InvoiceAmounts = {500, 550}
  Vendors = {deployer}
  ClaimHashes = {"h"}
  Controller = controller
  PoolAtInstall = deployer
  TokenUnit = 1
  Window = 1
  ChallengerBps = 5000
  Agents = {agent}
  MaxTime = 0
  NoAddress = NoAddress
  QuoteAgent = agent
  Unknown <- MCUnknown
  DemoAmount = 500
  Collision = "h"
  MaxQuotes = 1
CONSTRAINT MCAmountsFixed
INVARIANTS TypeOK VaultMirrorsActions VaultSolvent PaidByOneAction DuplicatesAreLaterPayers PolicyIsControllers
PROPERTIES SettlementPaysBond  ImplementsEscrow ExecutedIsSettled
CHECK_DEADLOCK FALSE
