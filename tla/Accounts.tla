------------------------------- MODULE Accounts --------------------------------
(***************************************************************************)
(* Balances, nonces, bridge operators and agents: what a transaction does  *)
(* once it reaches TransactionExecutor::execute (exec/src/tx_executor.rs), *)
(* with the services it calls (engine/src/services/account_service.rs and  *)
(* agent_service.rs, auth/src), the start of the daemon (app/src/server.rs *)
(* and exec/src/server.rs), the RPC handlers that write the agent registry *)
(* directly (rpc/src/handlers.rs), and what a transaction declares that it *)
(* will touch (tx/src/lib.rs, state/src/access.rs).                        *)
(*                                                                         *)
(* Nothing is rolled back when a payload fails.  The registry of agents is *)
(* memory only.  Orders and positions are the subject of OrderBook and     *)
(* Clearing; the pool and the order of blocks are the subject of BlockExec.*)
(***************************************************************************)
EXTENDS Integers, FiniteSets, FiniteSetsExt

CONSTANTS
    Users,          \* addresses
    Agents,         \* addresses that may be nominated as agents
    Configurable,   \* addresses that --bridge.operators may name
    Assets,         \* asset ids that transactions mention
    DefaultAssets,  \* the ones default_assets() registers, all of them collateral
    Permissions,    \* the bits of an agent's permission bitmap
    Amounts,        \* amounts that transactions mention
    Orders,         \* order ids that ModifyOrder mentions
    MaxBalance,     \* the largest balance (u128::MAX)
    MaxNonce,       \* bound: transactions of one account
    MaxStranded,    \* bound: amount lost by failed transfers
    Nobody,         \* no address
    MaxStarts       \* bound: starts of the process

ASSUME AccountAssumption ==
    /\ IsFiniteSet(Users)
    /\ Nobody \notin Users
    /\ Agents \subseteq Users
    /\ Configurable \subseteq Users
    /\ DefaultAssets \subseteq Assets
    /\ Amounts \subseteq Nat
    /\ {MaxBalance, MaxNonce, MaxStranded, MaxStarts} \subseteq Nat

VARIABLES
    node,      \* the state that transactions read and write
    saved,     \* what the last commit left on disk
    inBlock,   \* ExecuteTxs holds the locks of engine, auth and pool
    up,        \* the process runs
    starts,
    actor      \* for the properties: who signed the message of the last step

vars == <<node, saved, inBlock, up, starts, actor>>

\* TxPayload, without the ones that place or cancel an order or close a position:
\* of those about orders only ModifyOrder is here, which always fails.  An amount
\* moves from or to the account `user`; the other addresses of a payload are not read.
Payloads ==
    [op : {"Deposit", "Withdraw"}, asset : Assets, amount : Amounts]
        \cup [op : {"Transfer", "BridgeDeposit", "BridgeWithdraw"},
              user : Users, asset : Assets, amount : Amounts]
        \cup [op : {"SetAgent"}, agent : Agents, permissions : SUBSET Permissions \ {{}}]
        \cup [op : {"RemoveAgent"}, agent : Agents]
        \cup [op : {"ModifyOrder"}, order : Orders]

\* A Transaction; `signer` is the address that recover_signer finds.
Txs == [from : Users, signer : Users, nonce : 0 .. MaxNonce - 1, payload : Payloads]

\* StateManager's and AuthService's maps of an empty database.  `minted` and
\* `stranded` are kept for the properties only: deposits minus withdrawals, and
\* what transfers took from a sender without crediting anyone.
Empty ==
    [balance   |-> [u \in Users |-> [s \in Assets |-> 0]],
     nonce     |-> [u \in Users |-> 0],
     operators |-> {},
     assets    |-> {},
     agents    |-> {},
     minted    |-> [s \in Assets |-> 0],
     stranded  |-> [s \in Assets |-> 0]]

Init ==
    /\ node = Empty
    /\ saved = Empty
    /\ inBlock = FALSE
    /\ up = FALSE
    /\ starts = 0
    /\ actor = Nobody

-----------------------------------------------------------------------------
(* The services.  Each returns the state it leaves and whether it succeeded. *)

Ok(n) == [node |-> n, ok |-> TRUE]
Err(n) == [node |-> n, ok |-> FALSE]

\* checked_add and set_balance of a credit that comes from outside.
Mint(n, u, s, amount) ==
    IF n.balance[u][s] + amount > MaxBalance THEN Err(n)
    ELSE Ok([n EXCEPT !.balance[u][s] = @ + amount, !.minted[s] = @ + amount])

\* The test and set_balance of a debit that leaves the system.
Burn(n, u, s, amount) ==
    IF n.balance[u][s] < amount THEN Err(n)
    ELSE Ok([n EXCEPT !.balance[u][s] = @ - amount, !.minted[s] = @ - amount])

\* AccountService::deposit and withdraw; neither looks the asset up.
Deposit(n, from, p) == Mint(n, from, p.asset, p.amount)
Withdraw(n, from, p) == Burn(n, from, p.asset, p.amount)

\* A slip: the recipient is credited with what was read before the debit.
TransferForgetsDebit(n, from, p) ==
    IF from = p.user \/ p.asset \notin n.assets \/ n.balance[from][p.asset] < p.amount
       \/ n.balance[p.user][p.asset] + p.amount > MaxBalance
    THEN Err(n)
    ELSE Ok([n EXCEPT !.balance[p.user][p.asset] = @ + p.amount])

\* AccountService::transfer: the debit is stored before the credit is checked.
Transfer(n, from, p) ==
    LET debited == [n EXCEPT !.balance[from][p.asset] = @ - p.amount]
    IN IF from = p.user \/ p.asset \notin n.assets \/ n.balance[from][p.asset] < p.amount
       THEN Err(n)
       ELSE IF n.balance[p.user][p.asset] + p.amount > MaxBalance
       THEN Err([debited EXCEPT !.stranded[p.asset] = @ + p.amount])
       ELSE Ok([debited EXCEPT !.balance[p.user][p.asset] = @ + p.amount])

\* What bridge_deposit and bridge_withdraw ask of the caller and the asset.
MayBridge(n, from, p) == from \in n.operators /\ p.asset \in n.assets

BridgeDeposit(n, from, p) ==
    IF MayBridge(n, from, p) THEN Mint(n, p.user, p.asset, p.amount) ELSE Err(n)

BridgeWithdraw(n, from, p) ==
    IF MayBridge(n, from, p) THEN Burn(n, p.user, p.asset, p.amount) ELSE Err(n)

Without(agents, account, agent) ==
    {x \in agents : ~(x.account = account /\ x.agent = agent)}

\* AgentRegistry::set_agent and remove_agent.
SetAgent(n, account, p) ==
    [n EXCEPT !.agents = Without(@, account, p.agent) \cup
        {[account |-> account, agent |-> p.agent, permissions |-> p.permissions]}]

RemoveAgent(n, account, p) == [n EXCEPT !.agents = Without(@, account, p.agent)]

\* execute_tx_payload and execute_tx_payload_readonly.
ExecutePayload(n, t) ==
    LET p == t.payload
    IN CASE p.op = "Deposit"        -> Deposit(n, t.from, p)
         [] p.op = "Withdraw"       -> Withdraw(n, t.from, p)
         [] p.op = "Transfer"       -> Transfer(n, t.from, p)
         [] p.op = "BridgeDeposit"  -> BridgeDeposit(n, t.from, p)
         [] p.op = "BridgeWithdraw" -> BridgeWithdraw(n, t.from, p)
         [] p.op = "SetAgent"       -> Ok(SetAgent(n, t.from, p))
         [] p.op = "RemoveAgent"    -> Ok(RemoveAgent(n, t.from, p))
         [] p.op = "ModifyOrder"    -> Err(n)

\* A slip: any signature is taken for the account's.
AnySigner(t) == TRUE

\* AuthService::verify_transaction, and verify_tx_owner.
VerifyTransaction(t) == t.signer = t.from

IncrementNonce(n, u) == [n EXCEPT !.nonce[u] = @ + 1]

\* TransactionExecutor::execute: verify the signature and the nonce, run the
\* payload, and only when it succeeds use up the nonce.
Execute(n, t) ==
    LET result == ExecutePayload(n, t)
    IN IF ~VerifyTransaction(t) \/ n.nonce[t.from] # t.nonce THEN Err(n)
       ELSE IF result.ok THEN Ok(IncrementNonce(result.node, t.from))
       ELSE result

-----------------------------------------------------------------------------
(* What a transaction declares to touch. *)

Write(key) == [key |-> key, write |-> TRUE]
Read(key) == [key |-> key, write |-> FALSE]

Balance(u, s) == <<"Balance", u, s>>
Nonce(u) == <<"Nonce", u>>
AssetInfo(s) == <<"AssetInfo", s>>
BridgeOperator(u) == <<"BridgeOperator", u>>
Order(id) == <<"Order", id>>

\* balance_with_asset
BalanceWithAsset(u, s) == {Write(Balance(u, s)), Read(AssetInfo(s))}

\* A slip: a transfer declares the sender's balance only.
DeclareSenderOnly(t) == BalanceWithAsset(t.from, t.payload.asset)

\* The accesses that declare_accesses adds for a transfer, a bridge transaction and
\* the change of an order.
DeclareTransfer(t) ==
    BalanceWithAsset(t.from, t.payload.asset) \cup BalanceWithAsset(t.payload.user, t.payload.asset)

DeclareBridge(t) ==
    {Read(BridgeOperator(t.from))} \cup BalanceWithAsset(t.payload.user, t.payload.asset)

DeclareModify(t) == {Write(Order(t.payload.order))}

\* Transaction::declare_accesses of the transactions in Payloads.  The registry of
\* agents is not declared.  The branches of PlaceOrder, CancelOrder and
\* ClosePosition, which leave out some of what those write, are not here.
DeclareAccesses(t) ==
    LET p == t.payload
    IN {Write(Nonce(t.from))} \cup
       CASE p.op \in {"Deposit", "Withdraw"} -> BalanceWithAsset(t.from, p.asset)
         [] p.op = "Transfer" -> DeclareTransfer(t)
         [] p.op \in {"BridgeDeposit", "BridgeWithdraw"} -> DeclareBridge(t)
         [] p.op = "ModifyOrder" -> DeclareModify(t)
         [] OTHER -> {}

\* Two transactions touch a key together and one of them writes it.
Conflict(t, u) ==
    \E x \in DeclareAccesses(t), y \in DeclareAccesses(u) :
        x.key = y.key /\ (x.write \/ y.write)

-----------------------------------------------------------------------------
(* The process. *)

SetAssets(n, ids) == [n EXCEPT !.assets = @ \cup ids]

SetBridgeOperators(n, users) == [n EXCEPT !.operators = @ \cup users]

InitializeAssets(n) == SetAssets(n, DefaultAssets)

\* Operators are added, never taken away: set_bridge_operator(_, false) is not called.
InitializeBridgeOperators(n, operators) == SetBridgeOperators(n, operators)

\* start_server: open the database, register the default assets and add the
\* configured operators.  Both are pending until the first commit.
Start(operators) ==
    /\ ~up
    /\ starts < MaxStarts
    /\ starts' = starts + 1
    /\ up' = TRUE
    /\ node' = InitializeBridgeOperators(InitializeAssets(saved), operators)
    /\ actor' = Nobody
    /\ UNCHANGED <<saved, inBlock>>

\* One transaction of a block: begin_block only moves the version.
ExecuteTx(t) ==
    /\ up
    /\ inBlock' = TRUE
    /\ actor' = t.signer
    /\ node' = Execute(node, t).node
    /\ \A s \in Assets : node'.stranded[s] <= MaxStranded
    /\ UNCHANGED <<saved, up, starts>>

\* The commit that ends ExecuteTxs, or InitChain.
Commit ==
    /\ up
    /\ inBlock' = FALSE
    /\ saved' = [node EXCEPT !.agents = {}]
    /\ actor' = Nobody
    /\ UNCHANGED <<node, up, starts>>

\* decode_and_verify_tx: the signature, and nothing else.
DecodeAndVerifyTx(t) == VerifyTransaction(t)

\* The RPC handler set_agent: no nonce, no pool, no block.
RpcSetAgent(t) ==
    /\ up /\ ~inBlock
    /\ DecodeAndVerifyTx(t)
    /\ t.payload.op = "SetAgent"
    /\ node' = SetAgent(node, t.from, t.payload)
    /\ actor' = t.signer
    /\ UNCHANGED <<saved, inBlock, up, starts>>

\* The RPC handler remove_agent.
RpcRemoveAgent(t) ==
    /\ up /\ ~inBlock
    /\ DecodeAndVerifyTx(t)
    /\ t.payload.op = "RemoveAgent"
    /\ node' = RemoveAgent(node, t.from, t.payload)
    /\ actor' = t.signer
    /\ UNCHANGED <<saved, inBlock, up, starts>>

\* The process ends, between blocks or within one.
Crash ==
    /\ up
    /\ up' = FALSE
    /\ node' = saved
    /\ inBlock' = FALSE
    /\ actor' = Nobody
    /\ UNCHANGED <<saved, starts>>

Next ==
    \/ \E operators \in SUBSET Configurable : Start(operators)
    \/ \E t \in Txs : ExecuteTx(t) \/ RpcSetAgent(t) \/ RpcRemoveAgent(t)
    \/ Commit
    \/ Crash

Spec == Init /\ [][Next]_vars

-----------------------------------------------------------------------------
(* Properties. *)

Holdings(n, s) == [u \in Users |-> n.balance[u][s]]

Total(n, s) == MapThenSumSet(LAMBDA u : Holdings(n, s)[u], Users)

\* All balances of an asset add up to what was deposited less what was withdrawn
\* less what overflowing transfers stranded, in memory and on disk, through
\* failing and repeated transactions and restarts.
SupplyExplained ==
    \A s \in Assets :
        /\ Total(node, s) = node.minted[s] - node.stranded[s]
        /\ Total(saved, s) = saved.minted[s] - saved.stranded[s]

\* Executing t and u in either order gives the same state and the same outcomes.
Commutes(n, t, u) ==
    LET tu == Execute(Execute(n, t).node, u)
        ut == Execute(Execute(n, u).node, t)
    IN /\ tu.node = ut.node
       /\ tu.ok = Execute(n, u).ok
       /\ ut.ok = Execute(n, t).ok

\* The transactions that pass the signature and the nonce check now.
Candidates == {t \in Txs : VerifyTransaction(t) /\ t.nonce = node.nonce[t.from]}

\* Two account transactions (deposit, withdrawal, transfer, bridge, agents) whose
\* declared accesses do not conflict can be executed in either order: same state,
\* same outcome of each.  Agents, which are not declared, may not spoil it.  Nothing
\* is said of transactions that place or cancel orders or close positions: what
\* those declare is not enough for it.
AccountTxsCommute ==
    (up /\ ~inBlock) =>
        \A t, u \in Candidates : ~Conflict(t, u) => Commutes(node, t, u)

\* While the process runs, an account has its agents changed only by a message
\* that it signed itself, through a block or through RPC, and loses money only by
\* its own message or one of an operator that some start of this database was
\* configured with.
OnlyOwnerActs ==
    [][ (up /\ up') =>
          \A a \in Users :
              /\ (\E s \in Assets : node'.balance[a][s] < node.balance[a][s])
                    => actor' = a \/ actor' \in node.operators \cap Configurable
              /\ {x \in node'.agents : x.account = a} # {x \in node.agents : x.account = a}
                    => actor' = a ]_vars
===============================================================================
