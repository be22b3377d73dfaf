SPECIFICATION Spec
CONSTANTS
    Users = {u1, u2}
    Agents = {u2}
    Configurable = {u2}
    Assets = {usdc, other}
    DefaultAssets = {usdc}
    Permissions = {trade}
    Amounts = {1}
    Orders = {1}
    MaxBalance = 2
    MaxNonce = 2
    MaxStranded = 1
    Nobody = Nobody
    MaxStarts = 2
CHECK_DEADLOCK FALSE
INVARIANTS
    SupplyExplained
    AccountTxsCommute
PROPERTIES
    OnlyOwnerActs
