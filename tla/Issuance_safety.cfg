SPECIFICATION Spec
CONSTANTS
  Issuances = {t1, t2}
  Csrs = {csr}
  Imports = {imported}
  Environments = {staging, production}
  Domains = {d1, d2}
  Providers = {"selfdns", "cloudflare", "azure"}
  None = None
SYMMETRY Symmetry
INVARIANTS
  TypeOK
  OrdersHaveAccounts
  SavedAccountsStay
  ChallengeOnlyWhilePending
  LoneOrderAnswered
  KeyNotLost
