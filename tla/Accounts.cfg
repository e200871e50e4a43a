SPECIFICATION Spec
CONSTANTS
  SignInClients = {c1, c2}
  Wallets = {w1, w2}
  NonceTTL = 1
  MaxNonces = 2
  MaxTime = 2
  MaxSignInFaults = 1
  CredClients = {c1, c2}
  Owners = {ann, bob}
  MaxKeys = 2
  MaxLinks = 1
  MaxCredFaults = 1
  EditClients = {c1, c2}
  Tokens = {usdc, dai}
  Texts = {x, y}
  MaxAmount = 2
  MaxGoals = 1
  MaxEdits = 3
  MaxEditFaults = 1
  MaxApprovals = 2
  Penalties = {p1, p2}
  SignKeys = {k1, k2}
  Coins = {"true", "empty", "false"}
  Approved = 1
  MaxChanges = 1
  MaxNodeFaults = 1
INVARIANTS
  TypeOK
  NonceSignsInOnce SessionIsItsWallets
  RevokedIsRefused RetiredIsRevoked NoOrphanKey
  StakeWasCovered EditsSurvive
  ResultMatchesChain ExecutedIsBurned
PROPERTIES
  OnlyOwnersRevoke
  EndsUnlessReplaced
CHECK_DEADLOCK FALSE
