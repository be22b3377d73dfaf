------------------------------ MODULE EngineProofs ------------------------------
(***************************************************************************)
(* The engine beside the order book, for any number of users, assets,      *)
(* amounts, funding updates and events.                                    *)
(*                                                                         *)
(* Accounts: the state in memory and the one on disk are each a Sound one, *)
(* well formed, no balance above the limit, operators only from the        *)
(* configuration, and the supply of every asset explained. Every service   *)
(* keeps a state sound whether it succeeds or fails half way, which is all *)
(* that executing, committing, crashing and starting can combine. What a   *)
(* transaction adds depends on its declared accesses only, so              *)
(* transactions without a conflict commute.                                *)
(*                                                                         *)
(* Funding: every index, in memory and on disk, is bounded by the time     *)
(* that its updates span.                                                  *)
(*                                                                         *)
(* EventStore: counter, buffer, indexes and losses account for every       *)
(* event that was appended, and a flushed log answers every query as the   *)
(* list in memory does.                                                    *)
(***************************************************************************)
EXTENDS Accounts, Funding, EventStore, Sums, SequenceTheorems

Entries == [account : Users, agent : Agents, permissions : SUBSET Permissions]

Nodes ==
    [balance   : [Users -> [Assets -> 0 .. MaxBalance]],
     nonce     : [Users -> Nat],
     operators : SUBSET Configurable,
     assets    : SUBSET Assets,
     agents    : SUBSET Entries,
     minted    : [Assets -> Int],
     stranded  : [Assets -> Nat]]

Supply(n) == \A s \in Assets : Total(n, s) = n.minted[s] - n.stranded[s]

Sound(n) == n \in Nodes /\ Supply(n)

Inv == Sound(node) /\ Sound(saved)

\* Balances are bounded naturals, and Total is a sum the lemmas of Sums speak about.
LEMMA HoldingsType ==
  ASSUME NEW n \in Nodes, NEW s \in Assets
  PROVE  /\ \A u \in Users : Holdings(n, s)[u] = n.balance[u][s] /\ n.balance[u][s] \in Nat
         /\ \A u \in Users : n.balance[u][s] <= MaxBalance /\ Holdings(n, s)[u] \in Int
         /\ Total(n, s) = SumOver(Holdings(n, s), Users) /\ Total(n, s) \in Int
<1>1. \A u \in Users : /\ Holdings(n, s)[u] = n.balance[u][s]
                       /\ n.balance[u][s] \in 0 .. MaxBalance
  BY DEF Nodes, Holdings
<1>2. \A u \in Users : /\ n.balance[u][s] \in Nat /\ n.balance[u][s] <= MaxBalance
                       /\ Holdings(n, s)[u] \in Int
  BY <1>1, AccountAssumption
<1>3. Total(n, s) = SumOver(Holdings(n, s), Users)
  BY DEF Total, SumOver
<1>4. SumOver(Holdings(n, s), Users) \in Int
  BY <1>2, SumRemove, AccountAssumption
<1> QED BY <1>1, <1>2, <1>3, <1>4

\* What leaves balances and counters alone leaves the supply explained.
LEMMA SupplySame ==
  ASSUME NEW n, NEW m, Supply(n), m.balance = n.balance, m.minted = n.minted,
         m.stranded = n.stranded
  PROVE  Supply(m)
<1>1. \A s : Total(m, s) = Total(n, s)
  BY DEF Total, Holdings
<1> QED BY <1>1 DEF Supply

\* One balance, and with it the supply of its asset, changes.
LEMMA BalanceSet ==
  ASSUME NEW n \in Nodes, NEW u \in Users, NEW s \in Assets, NEW v \in 0 .. MaxBalance,
         NEW m \in Nodes,
         \A w \in Users, r \in Assets :
            m.balance[w][r] = IF w = u /\ r = s THEN v ELSE n.balance[w][r]
  PROVE  /\ Total(m, s) = Total(n, s) + v - n.balance[u][s]
         /\ \A r \in Assets \ {s} : Total(m, r) = Total(n, r)
<1>1. Total(m, s) = Total(n, s) + v - n.balance[u][s]
  <2> DEFINE f == Holdings(n, s)
             g == Holdings(m, s)
  <2>1. /\ \A w \in Users : f[w] = n.balance[w][s] /\ g[w] = m.balance[w][s]
        /\ \A w \in Users : f[w] \in Int /\ g[w] \in Int
        /\ Total(n, s) = SumOver(f, Users) /\ Total(m, s) = SumOver(g, Users)
    BY HoldingsType
  <2> HIDE DEF f, g
  <2>2. \A w \in Users \ {u} : f[w] = g[w]
    BY <2>1
  <2>3. SumOver(g, Users) = SumOver(f, Users) + g[u] - f[u]
    BY <2>1, <2>2, SumChange, AccountAssumption
  <2>4. m.balance[u][s] = v
    OBVIOUS
  <2> QED BY <2>1, <2>3, <2>4
<1>2. ASSUME NEW r \in Assets, r # s PROVE Total(m, r) = Total(n, r)
  <2>1. Holdings(m, r) = Holdings(n, r)
    BY <1>2 DEF Holdings
  <2> QED BY <2>1, HoldingsType
<1> QED BY <1>1, <1>2

\* A credit or a debit that comes from or goes to the outside.
Moved(n, u, s, v, d) == [n EXCEPT !.balance[u][s] = v, !.minted[s] = @ + d]

\* A credit or debit within the limits keeps a state sound.
LEMMA MovedSound ==
  ASSUME NEW n, Sound(n), NEW u \in Users, NEW s \in Assets, NEW v \in 0 .. MaxBalance,
         NEW d \in Int, v = n.balance[u][s] + d,
         NEW m, m = Moved(n, u, s, v, d)
  PROVE  /\ Sound(m)
         /\ m.nonce = n.nonce /\ m.operators = n.operators /\ m.assets = n.assets
         /\ m.agents = n.agents
         /\ \A a \in Users, r \in Assets :
               m.balance[a][r] = IF a = u /\ r = s THEN v ELSE n.balance[a][r]
<1>1. n \in Nodes /\ Supply(n)
  BY DEF Sound
<1>2. /\ n.balance \in [Users -> [Assets -> 0 .. MaxBalance]]
      /\ n.minted \in [Assets -> Int] /\ n.stranded \in [Assets -> Nat]
  BY <1>1 DEF Nodes
<1>3. /\ m.balance = [n.balance EXCEPT ![u][s] = v]
      /\ m.minted = [n.minted EXCEPT ![s] = @ + d] /\ m.stranded = n.stranded
      /\ m.nonce = n.nonce /\ m.operators = n.operators /\ m.assets = n.assets
      /\ m.agents = n.agents
  BY <1>1 DEF Nodes, Moved
<1>4. PICK e \in Int : e = n.minted[s] + d
  BY <1>2
<1>5. m.minted = [n.minted EXCEPT ![s] = e]
  BY <1>3, <1>4
<1>6. m.balance \in [Users -> [Assets -> 0 .. MaxBalance]] /\ m.minted \in [Assets -> Int]
  <2>1. [n.balance EXCEPT ![u][s] = v] \in [Users -> [Assets -> 0 .. MaxBalance]]
    BY <1>2
  <2>2. [n.minted EXCEPT ![s] = e] \in [Assets -> Int]
    BY <1>2
  <2> QED BY <1>3, <1>5, <2>1, <2>2, Zenon
<1>7. m \in Nodes
  <2>1. m = [n EXCEPT !.balance = m.balance, !.minted = m.minted]
    BY <1>1, <1>3 DEF Nodes, Moved
  <2> QED BY <1>1, <1>6, <2>1 DEF Nodes
<1>8. Supply(m)
  <2>1. \A r \in Assets : m.minted[r] = IF r = s THEN n.minted[s] + d ELSE n.minted[r]
    BY <1>2, <1>4, <1>5
  <2>2. /\ Total(m, s) = Total(n, s) + v - n.balance[u][s]
        /\ \A r \in Assets \ {s} : Total(m, r) = Total(n, r)
    <3>1. \A w \in Users, r \in Assets :
             m.balance[w][r] = IF w = u /\ r = s THEN v ELSE n.balance[w][r]
      BY <1>2, <1>3
    <3> QED BY ONLY <1>1, <1>7, <3>1, BalanceSet, u \in Users, s \in Assets, v \in 0 .. MaxBalance
  <2>3. n.balance[u][s] \in Int /\ n.minted[s] \in Int /\ n.stranded[s] \in Int /\ Total(n, s) \in Int
    BY <1>1, <1>2, HoldingsType
  <2>4. Total(m, s) = m.minted[s] - m.stranded[s]
    BY <1>1, <1>3, <2>1, <2>2, <2>3 DEF Supply
  <2> QED BY <1>1, <1>3, <2>1, <2>2, <2>4 DEF Supply
<1> QED BY <1>2, <1>3, <1>7, <1>8 DEF Sound

-------------------------------------------------------------------------------
(* The services *)

AgentsOf(n, a) == {x \in n.agents : x.account = a}

\* What a message of account a may do to a sound state n, ending in m.
Allowed(n, m, a) ==
    /\ Sound(m)
    /\ m.operators = n.operators
    /\ \A b \in Users : b # a =>
          /\ a \notin n.operators => \A s \in Assets : m.balance[b][s] >= n.balance[b][s]
          /\ AgentsOf(m, b) = AgentsOf(n, b)

\* Doing nothing is allowed.
LEMMA NothingAllowed ==
  ASSUME NEW n, Sound(n), NEW a
  PROVE  Allowed(n, n, a)
<1>1. \A b \in Users, s \in Assets : n.balance[b][s] \in Nat
  BY HoldingsType DEF Sound
<1> QED BY <1>1 DEF Allowed

\* A credit from outside takes from nobody.
LEMMA MintAllowed ==
  ASSUME NEW n, Sound(n), NEW u \in Users, NEW s \in Assets, NEW amount \in Nat, NEW a
  PROVE  Allowed(n, Mint(n, u, s, amount).node, a)
<1>1. CASE n.balance[u][s] + amount > MaxBalance
  <2>1. Mint(n, u, s, amount).node = n
    BY <1>1 DEF Mint, Err
  <2> QED BY <2>1, NothingAllowed
<1>2. CASE ~(n.balance[u][s] + amount > MaxBalance)
  <2> DEFINE m == [n EXCEPT !.balance[u][s] = @ + amount, !.minted[s] = @ + amount]
  <2>1. Mint(n, u, s, amount).node = m
    BY <1>2 DEF Mint, Ok
  <2>2. n \in Nodes /\ \A b \in Users, r \in Assets : n.balance[b][r] \in Nat
    BY HoldingsType DEF Sound
  <2>3. PICK v \in 0 .. MaxBalance : v = n.balance[u][s] + amount
    BY <1>2, <2>2, AccountAssumption
  <2>4. m = Moved(n, u, s, v, amount)
    BY <2>2, <2>3 DEF Nodes, Moved
  <2> HIDE DEF m
  <2>5. /\ Sound(m) /\ m.operators = n.operators /\ m.agents = n.agents
        /\ \A b \in Users, r \in Assets :
              m.balance[b][r] = IF b = u /\ r = s THEN v ELSE n.balance[b][r]
    BY <2>3, <2>4, MovedSound
  <2>6. \A b \in Users, r \in Assets : m.balance[b][r] >= n.balance[b][r]
    BY <2>2, <2>3, <2>5
  <2> QED BY <2>1, <2>5, <2>6 DEF Allowed, AgentsOf
<1> QED BY <1>1, <1>2

\* A debit to the outside is for the owner or an operator.
LEMMA BurnAllowed ==
  ASSUME NEW n, Sound(n), NEW u \in Users, NEW s \in Assets, NEW amount \in Nat, NEW a,
         a = u \/ a \in n.operators
  PROVE  Allowed(n, Burn(n, u, s, amount).node, a)
<1>1. CASE n.balance[u][s] < amount
  <2>1. Burn(n, u, s, amount).node = n
    BY <1>1 DEF Burn, Err
  <2> QED BY <2>1, NothingAllowed
<1>2. CASE ~(n.balance[u][s] < amount)
  <2> DEFINE m == [n EXCEPT !.balance[u][s] = @ - amount, !.minted[s] = @ - amount]
  <2>1. Burn(n, u, s, amount).node = m
    BY <1>2 DEF Burn, Ok
  <2>2. /\ n \in Nodes
        /\ \A b \in Users, r \in Assets : n.balance[b][r] \in Nat /\ n.balance[b][r] <= MaxBalance
    BY HoldingsType DEF Sound
  <2>3. PICK v \in 0 .. MaxBalance : v = n.balance[u][s] + -amount
    BY <1>2, <2>2, AccountAssumption
  <2>4. PICK d \in Int : d = -amount
    OBVIOUS
  <2>5. n.minted[s] \in Int
    BY <2>2 DEF Nodes
  <2>6. m = Moved(n, u, s, v, d)
    <3>1. n.balance[u][s] - amount = v /\ n.minted[s] - amount = n.minted[s] + d
      BY <2>2, <2>3, <2>4, <2>5
    <3> QED BY <2>2, <3>1 DEF Nodes, Moved
  <2> HIDE DEF m
  <2>7. /\ Sound(m) /\ m.operators = n.operators /\ m.agents = n.agents
        /\ \A b \in Users, r \in Assets :
              m.balance[b][r] = IF b = u /\ r = s THEN v ELSE n.balance[b][r]
    BY <2>3, <2>4, <2>6, MovedSound
  <2>8. \A b \in Users, r \in Assets : b # u => m.balance[b][r] >= n.balance[b][r]
    BY <2>2, <2>7
  <2> QED BY <2>1, <2>7, <2>8 DEF Allowed, AgentsOf
<1> QED BY <1>1, <1>2

\* A transfer credits what it debits, or strands it.
LEMMA TransferAllowed ==
  ASSUME NEW n, Sound(n), NEW a \in Users, NEW p, p.user \in Users, p.asset \in Assets,
         p.amount \in Nat
  PROVE  Allowed(n, Transfer(n, a, p).node, a)
<1> DEFINE u == p.user
           s == p.asset
           amount == p.amount
           refused == a = u \/ s \notin n.assets \/ n.balance[a][s] < amount
           over == n.balance[u][s] + amount > MaxBalance
           m == [n EXCEPT !.balance[a][s] = @ - amount]
<1>1. /\ n \in Nodes
      /\ \A b \in Users, r \in Assets : n.balance[b][r] \in Nat /\ n.balance[b][r] <= MaxBalance
  BY HoldingsType DEF Sound
<1>2. /\ n.balance \in [Users -> [Assets -> 0 .. MaxBalance]]
      /\ n.minted \in [Assets -> Int] /\ n.stranded \in [Assets -> Nat]
  BY <1>1 DEF Nodes
<1>3. CASE refused
  <2>1. Transfer(n, a, p).node = n
    BY <1>3 DEF Transfer, Err
  <2> QED BY <2>1, NothingAllowed
<1>4. CASE ~refused
  <2>1. PICK v \in 0 .. MaxBalance : v = n.balance[a][s] - amount
    BY <1>1, <1>4, AccountAssumption
  <2>2. m = [n EXCEPT !.balance = [n.balance EXCEPT ![a][s] = v]]
    BY <1>1, <2>1 DEF Nodes
  <2> HIDE DEF m
  <2>3. /\ m \in Nodes
        /\ m.balance = [n.balance EXCEPT ![a][s] = v]
        /\ m.minted = n.minted /\ m.stranded = n.stranded /\ m.operators = n.operators
        /\ m.agents = n.agents
    <3>1. [n.balance EXCEPT ![a][s] = v] \in [Users -> [Assets -> 0 .. MaxBalance]]
      BY <1>2
    <3> QED BY <1>1, <2>2, <3>1 DEF Nodes
  <2>4. \A b \in Users, r \in Assets :
           m.balance[b][r] = IF b = a /\ r = s THEN v ELSE n.balance[b][r]
    BY <1>2, <2>3
  <2>5. /\ Total(m, s) = Total(n, s) + v - n.balance[a][s] /\ Total(n, s) \in Int
        /\ Total(m, s) \in Int
        /\ \A r \in Assets \ {s} : Total(m, r) = Total(n, r)
    <3> HIDE DEF s
    <3>1. s \in Assets /\ m \in Nodes /\ n \in Nodes
      BY <1>1, <2>3 DEF s
    <3> QED BY <2>4, <3>1, BalanceSet, HoldingsType
  <2>6. \A r \in Assets : /\ Total(n, r) = n.minted[r] - n.stranded[r]
                          /\ n.minted[r] \in Int /\ n.stranded[r] \in Nat
    BY <1>2 DEF Sound, Supply
  <2>7. CASE over
    <3> DEFINE k == [m EXCEPT !.stranded[s] = @ + amount]
    <3>1. Transfer(n, a, p).node = k
      BY <1>4, <2>7 DEF Transfer, Err, m
    <3>2. PICK z \in Nat : z = n.stranded[s] + amount
      BY <1>2
    <3>3. k = [m EXCEPT !.stranded = [n.stranded EXCEPT ![s] = z]]
      BY <2>3, <3>2 DEF Nodes
    <3> HIDE DEF k
    <3>4. /\ k \in Nodes /\ k.balance = m.balance /\ k.minted = n.minted
          /\ k.stranded = [n.stranded EXCEPT ![s] = z] /\ k.operators = n.operators
          /\ k.agents = n.agents
      <4>1. [n.stranded EXCEPT ![s] = z] \in [Assets -> Nat]
        BY <1>2
      <4> QED BY <2>3, <3>3, <4>1 DEF Nodes
    <3>5. \A r \in Assets : Total(k, r) = Total(m, r)
      BY <3>4 DEF Total, Holdings
    <3>6. \A r \in Assets : k.stranded[r] = IF r = s THEN z ELSE n.stranded[r]
      BY <1>2, <3>4
    <3>7. ASSUME NEW r \in Assets PROVE Total(k, r) = k.minted[r] - k.stranded[r]
      <4>1. CASE r = s
        BY <1>1, <2>1, <2>5, <2>6, <3>2, <3>4, <3>5, <3>6, <4>1
      <4>2. CASE r # s
        BY <2>5, <2>6, <3>4, <3>5, <3>6, <4>2
      <4> QED BY <4>1, <4>2
    <3>8. Sound(k)
      BY <3>4, <3>7 DEF Sound, Supply
    <3>9. \A b \in Users, r \in Assets : b # a => k.balance[b][r] >= n.balance[b][r]
      BY <1>1, <2>4, <3>4
    <3> QED BY <3>1, <3>4, <3>8, <3>9 DEF Allowed, AgentsOf
  <2>8. CASE ~over
    <3> DEFINE k == [m EXCEPT !.balance[u][s] = @ + amount]
    <3>1. Transfer(n, a, p).node = k
      BY <1>4, <2>8 DEF Transfer, Ok, m
    <3>2. a # u /\ m.balance[u][s] = n.balance[u][s]
      BY <1>4, <2>4
    <3>3. PICK z \in 0 .. MaxBalance : z = n.balance[u][s] + amount
      BY <1>1, <2>8, AccountAssumption
    <3>4. k = [m EXCEPT !.balance = [m.balance EXCEPT ![u][s] = z]]
      BY <2>3, <3>2, <3>3 DEF Nodes
    <3> HIDE DEF k
    <3>5. /\ k \in Nodes /\ k.balance = [m.balance EXCEPT ![u][s] = z]
          /\ k.minted = n.minted /\ k.stranded = n.stranded /\ k.operators = n.operators
          /\ k.agents = n.agents
      <4>1. [m.balance EXCEPT ![u][s] = z] \in [Users -> [Assets -> 0 .. MaxBalance]]
        BY <2>3 DEF Nodes
      <4> QED BY <2>3, <3>4, <4>1 DEF Nodes
    <3>6. \A b \in Users, r \in Assets :
             k.balance[b][r] = IF b = u /\ r = s THEN z ELSE m.balance[b][r]
      BY <2>3, <3>5 DEF Nodes
    <3>7. /\ Total(k, s) = Total(m, s) + z - m.balance[u][s]
          /\ \A r \in Assets \ {s} : Total(k, r) = Total(m, r)
      <4> HIDE DEF s, u
      <4>1. s \in Assets /\ u \in Users /\ m \in Nodes /\ k \in Nodes
        BY <2>3, <3>5 DEF s, u
      <4> QED BY <3>6, <4>1, BalanceSet
    <3>8. ASSUME NEW r \in Assets PROVE Total(k, r) = k.minted[r] - k.stranded[r]
      <4>1. CASE r = s
        BY <1>1, <2>1, <2>5, <2>6, <3>2, <3>3, <3>5, <3>7, <4>1
      <4>2. CASE r # s
        BY <2>5, <2>6, <3>5, <3>7, <4>2
      <4> QED BY <4>1, <4>2
    <3>9. Sound(k)
      BY <3>5, <3>8 DEF Sound, Supply
    <3>10. \A b \in Users, r \in Assets : b # a => k.balance[b][r] >= n.balance[b][r]
      BY <1>1, <2>4, <3>3, <3>6
    <3> QED BY <3>1, <3>5, <3>9, <3>10 DEF Allowed, AgentsOf
  <2> QED BY <2>7, <2>8
<1> QED BY <1>3, <1>4

\* The registry changes only for the account that asks.
LEMMA AgentsAllowed ==
  ASSUME NEW n, Sound(n), NEW a \in Users, NEW p, p.agent \in Agents
  PROVE  /\ p.permissions \in SUBSET Permissions => Allowed(n, SetAgent(n, a, p), a)
         /\ Allowed(n, RemoveAgent(n, a, p), a)
<1>1. n \in Nodes /\ n.agents \subseteq Entries
  BY DEF Sound, Nodes
<1>2. \A b \in Users, r \in Assets : n.balance[b][r] \in Nat
  BY <1>1, HoldingsType
<1>3. ASSUME NEW new \in SUBSET Entries,
             \A b \in Users : b # a => {x \in new : x.account = b} = AgentsOf(n, b),
             NEW m, m = [n EXCEPT !.agents = new]
      PROVE  Allowed(n, m, a)
  <2>1. /\ m \in Nodes /\ m.balance = n.balance /\ m.minted = n.minted
        /\ m.stranded = n.stranded /\ m.operators = n.operators /\ m.agents = new
    BY <1>1, <1>3 DEF Nodes
  <2>2. Sound(m)
    BY <2>1, SupplySame DEF Sound
  <2> QED BY <1>2, <1>3, <2>1, <2>2 DEF Allowed, AgentsOf
<1>4. Allowed(n, RemoveAgent(n, a, p), a)
  <2> DEFINE new == Without(n.agents, a, p.agent)
  <2>1. new \in SUBSET Entries
    BY <1>1 DEF Without
  <2>2. \A b \in Users : b # a => {x \in new : x.account = b} = AgentsOf(n, b)
    BY DEF Without, AgentsOf
  <2>3. RemoveAgent(n, a, p) = [n EXCEPT !.agents = new]
    BY <1>1 DEF RemoveAgent, Nodes
  <2> HIDE DEF new
  <2> QED BY <1>3, <2>1, <2>2, <2>3
<1>5. ASSUME p.permissions \in SUBSET Permissions
      PROVE  Allowed(n, SetAgent(n, a, p), a)
  <2> DEFINE e == [account |-> a, agent |-> p.agent, permissions |-> p.permissions]
             new == Without(n.agents, a, p.agent) \cup {e}
  <2>1. new \in SUBSET Entries
    BY <1>1, <1>5 DEF Without, Entries
  <2>2. \A b \in Users : b # a => {x \in new : x.account = b} = AgentsOf(n, b)
    BY DEF Without, AgentsOf
  <2>3. SetAgent(n, a, p) = [n EXCEPT !.agents = new]
    BY <1>1 DEF SetAgent, Nodes
  <2> HIDE DEF new
  <2> QED BY <1>3, <2>1, <2>2, <2>3
<1> QED BY <1>4, <1>5

\* Every payload does what its account may do.
LEMMA PayloadAllowed ==
  ASSUME NEW n, Sound(n), NEW t \in Txs
  PROVE  Allowed(n, ExecutePayload(n, t).node, t.from)
<1> DEFINE p == t.payload
<1>1. t.from \in Users /\ p \in Payloads
  BY DEF Txs
<1>2. /\ p.op \in {"Deposit", "Withdraw"} => p.asset \in Assets /\ p.amount \in Amounts
      /\ p.op \in {"Transfer", "BridgeDeposit", "BridgeWithdraw"} =>
            p.user \in Users /\ p.asset \in Assets /\ p.amount \in Amounts
      /\ p.op \in {"SetAgent", "RemoveAgent"} => p.agent \in Agents
      /\ p.op = "SetAgent" => p.permissions \in SUBSET Permissions
      /\ p.op \in {"Deposit", "Withdraw", "Transfer", "BridgeDeposit", "BridgeWithdraw",
                    "SetAgent", "RemoveAgent", "ModifyOrder"}
  BY <1>1 DEF Payloads
<1>3. Amounts \subseteq Nat
  BY AccountAssumption
<1> HIDE DEF p
<1>4. CASE p.op = "Deposit"
  <2>1. ExecutePayload(n, t) = Mint(n, t.from, p.asset, p.amount)
    BY <1>4 DEF ExecutePayload, Deposit, p
  <2> QED BY <1>1, <1>2, <1>3, <1>4, <2>1, MintAllowed
<1>5. CASE p.op = "Withdraw"
  <2>1. ExecutePayload(n, t) = Burn(n, t.from, p.asset, p.amount)
    BY <1>5 DEF ExecutePayload, Withdraw, p
  <2> QED BY <1>1, <1>2, <1>3, <1>5, <2>1, BurnAllowed
<1>6. CASE p.op = "Transfer"
  <2>1. ExecutePayload(n, t) = Transfer(n, t.from, p)
    BY <1>6 DEF ExecutePayload, p
  <2>2. p.user \in Users /\ p.asset \in Assets /\ p.amount \in Nat
    BY <1>2, <1>3, <1>6
  <2> QED BY <1>1, <2>1, <2>2, TransferAllowed
<1>7. CASE p.op = "BridgeDeposit"
  <2>1. ExecutePayload(n, t) = IF MayBridge(n, t.from, p)
                               THEN Mint(n, p.user, p.asset, p.amount) ELSE Err(n)
    BY <1>7 DEF ExecutePayload, BridgeDeposit, p
  <2>2. Err(n).node = n
    BY DEF Err
  <2> QED BY <1>2, <1>3, <1>7, <2>1, <2>2, MintAllowed, NothingAllowed
<1>8. CASE p.op = "BridgeWithdraw"
  <2>1. ExecutePayload(n, t) = IF MayBridge(n, t.from, p)
                               THEN Burn(n, p.user, p.asset, p.amount) ELSE Err(n)
    BY <1>8 DEF ExecutePayload, BridgeWithdraw, p
  <2>2. Err(n).node = n
    BY DEF Err
  <2>3. MayBridge(n, t.from, p) => t.from \in n.operators
    BY DEF MayBridge
  <2> QED BY <1>2, <1>3, <1>8, <2>1, <2>2, <2>3, BurnAllowed, NothingAllowed
<1>9. CASE p.op = "SetAgent"
  <2>1. ExecutePayload(n, t).node = SetAgent(n, t.from, p)
    BY <1>9 DEF ExecutePayload, Ok, p
  <2> QED BY <1>1, <1>2, <1>9, <2>1, AgentsAllowed
<1>10. CASE p.op = "RemoveAgent"
  <2>1. ExecutePayload(n, t).node = RemoveAgent(n, t.from, p)
    BY <1>10 DEF ExecutePayload, Ok, p
  <2> QED BY <1>1, <1>2, <1>10, <2>1, AgentsAllowed
<1>11. CASE p.op = "ModifyOrder"
  <2>1. ExecutePayload(n, t).node = n
    BY <1>11 DEF ExecutePayload, Err, p
  <2> QED BY <2>1, NothingAllowed
<1> QED BY <1>2, <1>4, <1>5, <1>6, <1>7, <1>8, <1>9, <1>10, <1>11

\* TransactionExecutor::execute, whatever its outcome.
LEMMA ExecuteAllowed ==
  ASSUME NEW n, Sound(n), NEW t \in Txs
  PROVE  Allowed(n, Execute(n, t).node, t.signer)
<1> DEFINE result == ExecutePayload(n, t)
<1>1. Allowed(n, result.node, t.from)
  BY PayloadAllowed
<1> HIDE DEF result
<1>2. CASE ~VerifyTransaction(t) \/ n.nonce[t.from] # t.nonce
  <2>1. Execute(n, t).node = n
    BY <1>2 DEF Execute, Err
  <2> QED BY <2>1, NothingAllowed
<1>3. CASE VerifyTransaction(t) /\ n.nonce[t.from] = t.nonce /\ ~result.ok
  <2>1. Execute(n, t).node = result.node /\ t.signer = t.from
    BY <1>3 DEF Execute, VerifyTransaction, result
  <2> QED BY <1>1, <2>1
<1>4. CASE VerifyTransaction(t) /\ n.nonce[t.from] = t.nonce /\ result.ok
  <2> DEFINE m == result.node
             k == IncrementNonce(m, t.from)
  <2>1. Execute(n, t).node = k /\ t.signer = t.from /\ t.from \in Users
    BY <1>4 DEF Execute, VerifyTransaction, Ok, result, Txs
  <2>2. m \in Nodes /\ Supply(m) /\ m.nonce \in [Users -> Nat]
    BY <1>1 DEF Allowed, Sound, Nodes
  <2>3. /\ k \in Nodes /\ k.balance = m.balance /\ k.minted = m.minted
        /\ k.stranded = m.stranded /\ k.operators = m.operators /\ k.agents = m.agents
    <3>1. PICK x \in [Users -> Nat] : x = [m.nonce EXCEPT ![t.from] = @ + 1]
      <4> HIDE DEF m
      <4>1. [m.nonce EXCEPT ![t.from] = @ + 1] \in [Users -> Nat]
        BY <2>1, <2>2
      <4> QED BY <4>1
    <3>2. k = [m EXCEPT !.nonce = x]
      BY <2>2, <3>1 DEF IncrementNonce, Nodes
    <3> HIDE DEF m, k
    <3> QED BY <2>2, <3>2 DEF Nodes
  <2> HIDE DEF k, m
  <2>4. Sound(k)
    BY <2>2, <2>3, SupplySame DEF Sound
  <2>5. Allowed(n, m, t.from)
    BY <1>1 DEF m
  <2> QED BY <2>1, <2>3, <2>4, <2>5 DEF Allowed, AgentsOf
<1> QED BY <1>2, <1>3, <1>4

-------------------------------------------------------------------------------
(* Transactions that do not conflict.  What a transaction adds to balances,    *)
(* supply and stranded amounts is the same in any two states that agree on     *)
(* what it declares, and it adds to declared balances only.                    *)

Deltas == [Users -> [Assets -> Int]]
AssetDeltas == [Assets -> Int]

\* m is n with b added to the balances, i to the supply and x to the stranded amounts.
Moves(n, m, b, i, x) ==
    /\ \A w \in Users, s \in Assets : m.balance[w][s] = n.balance[w][s] + b[w][s]
    /\ \A s \in Assets : /\ m.minted[s] = n.minted[s] + i[s]
                         /\ m.stranded[s] = n.stranded[s] + x[s]
    /\ m.nonce = n.nonce /\ m.operators = n.operators /\ m.assets = n.assets

\* Outcomes r of n and q of m: the same success and the same amounts, within D.
Parallel(n, r, m, q, D) ==
    /\ r.ok = q.ok
    /\ \E b \in Deltas, i \in AssetDeltas, x \in AssetDeltas :
          /\ Moves(n, r.node, b, i, x) /\ Moves(m, q.node, b, i, x)
          /\ \A w \in Users, s \in Assets : b[w][s] # 0 => <<w, s>> \in D

Single(u, s, g) ==
    [w \in Users |-> [r \in Assets |-> IF w = u /\ r = s THEN g ELSE 0]]
Double(u, v, s, g) ==
    [w \in Users |-> [r \in Assets |->
        IF r # s THEN 0 ELSE IF w = u THEN -g ELSE IF w = v THEN g ELSE 0]]
At(s, g) == [r \in Assets |-> IF r = s THEN g ELSE 0]

\* The shapes of what a payload adds.
LEMMA DeltaTypes ==
  ASSUME NEW u, NEW v, NEW s, NEW g \in Int
  PROVE  Single(u, s, g) \in Deltas /\ Double(u, v, s, g) \in Deltas /\ At(s, g) \in AssetDeltas
BY DEF Single, Double, At, Deltas, AssetDeltas

\* Every amount in a state is an integer.
LEMMA NodeNumbers ==
  ASSUME NEW n \in Nodes
  PROVE  /\ \A w \in Users, s \in Assets : n.balance[w][s] \in Int
         /\ \A s \in Assets : n.minted[s] \in Int /\ n.stranded[s] \in Int
         /\ DOMAIN n.balance = Users /\ DOMAIN n.minted = Assets /\ DOMAIN n.stranded = Assets
         /\ \A w \in Users : DOMAIN n.balance[w] = Assets
BY DEF Nodes

TooMuch(n, u, s, g) == n.balance[u][s] + g > MaxBalance
TooLittle(n, u, s, g) == n.balance[u][s] < g
Minus(g) == -g

\* A credit from outside adds its amount or, above the limit, nothing.
LEMMA MintMoves ==
  ASSUME NEW n \in Nodes, NEW u \in Users, NEW s \in Assets, NEW g \in Nat
  PROVE  /\ TooMuch(n, u, s, g) =>
              /\ Mint(n, u, s, g).ok = FALSE
              /\ Mint(n, u, s, g).node = n
         /\ ~TooMuch(n, u, s, g) =>
              /\ Mint(n, u, s, g).ok = TRUE
              /\ Mint(n, u, s, g).node.agents = n.agents
              /\ Moves(n, Mint(n, u, s, g).node, Single(u, s, g), At(s, g), At(s, 0))
<1>1. CASE TooMuch(n, u, s, g)
  BY <1>1 DEF Mint, Err, TooMuch
<1>2. CASE ~TooMuch(n, u, s, g)
  <2> DEFINE m == [n EXCEPT !.balance[u][s] = @ + g, !.minted[s] = @ + g]
  <2>1. Mint(n, u, s, g).node = m /\ Mint(n, u, s, g).ok = TRUE
    BY <1>2 DEF Mint, Ok, TooMuch
  <2>2. /\ m.balance = [n.balance EXCEPT ![u][s] = @ + g]
        /\ m.minted = [n.minted EXCEPT ![s] = @ + g] /\ m.stranded = n.stranded
        /\ m.nonce = n.nonce /\ m.operators = n.operators /\ m.assets = n.assets
        /\ m.agents = n.agents
    BY DEF Nodes
  <2> HIDE DEF m
  <2>3. /\ \A w \in Users, r \in Assets :
              m.balance[w][r] = n.balance[w][r] + Single(u, s, g)[w][r]
        /\ \A r \in Assets : m.minted[r] = n.minted[r] + At(s, g)[r]
        /\ \A r \in Assets : m.stranded[r] = n.stranded[r] + At(s, 0)[r]
    BY <2>2, NodeNumbers DEF Single, At
  <2> QED BY <1>2, <2>1, <2>2, <2>3 DEF Moves
<1> QED BY <1>1, <1>2

\* A debit to the outside takes its amount or, below it, nothing.
LEMMA BurnMoves ==
  ASSUME NEW n \in Nodes, NEW u \in Users, NEW s \in Assets, NEW g \in Nat
  PROVE  /\ TooLittle(n, u, s, g) =>
              /\ Burn(n, u, s, g).ok = FALSE
              /\ Burn(n, u, s, g).node = n
         /\ ~TooLittle(n, u, s, g) =>
              /\ Burn(n, u, s, g).ok = TRUE
              /\ Burn(n, u, s, g).node.agents = n.agents
              /\ Moves(n, Burn(n, u, s, g).node, Single(u, s, Minus(g)), At(s, Minus(g)), At(s, 0))
<1>1. CASE TooLittle(n, u, s, g)
  BY <1>1 DEF Burn, Err, TooLittle
<1>2. CASE ~TooLittle(n, u, s, g)
  <2> DEFINE m == [n EXCEPT !.balance[u][s] = @ - g, !.minted[s] = @ - g]
  <2>1. Burn(n, u, s, g).node = m /\ Burn(n, u, s, g).ok = TRUE
    BY <1>2 DEF Burn, Ok, TooLittle
  <2>2. /\ m.balance = [n.balance EXCEPT ![u][s] = @ - g]
        /\ m.minted = [n.minted EXCEPT ![s] = @ - g] /\ m.stranded = n.stranded
        /\ m.nonce = n.nonce /\ m.operators = n.operators /\ m.assets = n.assets
        /\ m.agents = n.agents
    BY DEF Nodes
  <2> HIDE DEF m
  <2>3. /\ \A w \in Users, r \in Assets :
              m.balance[w][r] = n.balance[w][r] + Single(u, s, Minus(g))[w][r]
        /\ \A r \in Assets : m.minted[r] = n.minted[r] + At(s, Minus(g))[r]
        /\ \A r \in Assets : m.stranded[r] = n.stranded[r] + At(s, 0)[r]
    BY <2>2, NodeNumbers DEF Single, At, Minus
  <2> QED BY <1>2, <2>1, <2>2, <2>3 DEF Moves
<1> QED BY <1>1, <1>2

\* The three ends of a transfer.
Refused(n, a, p) == a = p.user \/ p.asset \notin n.assets \/ n.balance[a][p.asset] < p.amount
Overflows(n, p) == n.balance[p.user][p.asset] + p.amount > MaxBalance

\* A transfer is refused, moves its amount, or strands it.
LEMMA TransferMoves ==
  ASSUME NEW n \in Nodes, NEW a \in Users, NEW p, p.user \in Users, p.asset \in Assets,
         p.amount \in Nat
  PROVE  /\ Refused(n, a, p) => Transfer(n, a, p).ok = FALSE /\ Transfer(n, a, p).node = n
         /\ ~Refused(n, a, p) /\ Overflows(n, p) =>
              /\ Transfer(n, a, p).ok = FALSE
              /\ Transfer(n, a, p).node.agents = n.agents
              /\ Moves(n, Transfer(n, a, p).node, Single(a, p.asset, Minus(p.amount)),
                       At(p.asset, 0), At(p.asset, p.amount))
         /\ ~Refused(n, a, p) /\ ~Overflows(n, p) =>
              /\ Transfer(n, a, p).ok = TRUE
              /\ Transfer(n, a, p).node.agents = n.agents
              /\ Moves(n, Transfer(n, a, p).node, Double(a, p.user, p.asset, p.amount),
                       At(p.asset, 0), At(p.asset, 0))
<1> DEFINE u == p.user
           s == p.asset
           g == p.amount
           m == [n EXCEPT !.balance[a][s] = @ - g]
<1>1. CASE Refused(n, a, p)
  BY <1>1 DEF Transfer, Err, Refused
<1>2. ASSUME ~Refused(n, a, p), Overflows(n, p)
      PROVE  /\ Transfer(n, a, p).ok = FALSE
             /\ Transfer(n, a, p).node.agents = n.agents
             /\ Moves(n, Transfer(n, a, p).node, Single(a, s, Minus(g)), At(s, 0), At(s, g))
  <2> DEFINE k == [m EXCEPT !.stranded[s] = @ + g]
  <2>1. Transfer(n, a, p).node = k /\ Transfer(n, a, p).ok = FALSE
    BY <1>2 DEF Transfer, Err, Refused, Overflows
  <2>2. /\ k.balance = [n.balance EXCEPT ![a][s] = @ - g]
        /\ k.stranded = [n.stranded EXCEPT ![s] = @ + g] /\ k.minted = n.minted
        /\ k.nonce = n.nonce /\ k.operators = n.operators /\ k.assets = n.assets
        /\ k.agents = n.agents
    BY DEF Nodes
  <2> HIDE DEF k
  <2>3. /\ \A w \in Users, r \in Assets :
              k.balance[w][r] = n.balance[w][r] + Single(a, s, Minus(g))[w][r]
        /\ \A r \in Assets : k.minted[r] = n.minted[r] + At(s, 0)[r]
        /\ \A r \in Assets : k.stranded[r] = n.stranded[r] + At(s, g)[r]
    BY <2>2, NodeNumbers DEF Single, At, Minus
  <2> QED BY <2>1, <2>2, <2>3 DEF Moves
<1>3. ASSUME ~Refused(n, a, p), ~Overflows(n, p)
      PROVE  /\ Transfer(n, a, p).ok = TRUE
             /\ Transfer(n, a, p).node.agents = n.agents
             /\ Moves(n, Transfer(n, a, p).node, Double(a, u, s, g), At(s, 0), At(s, 0))
  <2> DEFINE k == [m EXCEPT !.balance[u][s] = @ + g]
  <2>1. Transfer(n, a, p).node = k /\ Transfer(n, a, p).ok = TRUE /\ a # u
    BY <1>3 DEF Transfer, Ok, Refused, Overflows
  <2>2. /\ k.balance = [[n.balance EXCEPT ![a][s] = @ - g] EXCEPT ![u][s] = @ + g]
        /\ k.stranded = n.stranded /\ k.minted = n.minted
        /\ k.nonce = n.nonce /\ k.operators = n.operators /\ k.assets = n.assets
        /\ k.agents = n.agents
    BY DEF Nodes
  <2> HIDE DEF k
  <2>3. /\ \A w \in Users, r \in Assets :
              k.balance[w][r] = n.balance[w][r] + Double(a, u, s, g)[w][r]
        /\ \A r \in Assets : k.minted[r] = n.minted[r] + At(s, 0)[r]
        /\ \A r \in Assets : k.stranded[r] = n.stranded[r] + At(s, 0)[r]
    BY <2>1, <2>2, NodeNumbers DEF Double, At
  <2> QED BY <2>1, <2>2, <2>3 DEF Moves
<1> QED BY <1>1, <1>2, <1>3

\* The balances that a transaction declares.
Touched(t) ==
    LET p == t.payload
    IN CASE p.op \in {"Deposit", "Withdraw"} -> {<<t.from, p.asset>>}
         [] p.op = "Transfer" -> {<<t.from, p.asset>>, <<p.user, p.asset>>}
         [] p.op \in {"BridgeDeposit", "BridgeWithdraw"} -> {<<p.user, p.asset>>}
         [] OTHER -> {}

\* n and m look alike to transaction t.
Agree(n, m, t) ==
    /\ m.nonce[t.from] = n.nonce[t.from]
    /\ m.operators = n.operators /\ m.assets = n.assets
    /\ \A w \in Users, s \in Assets :
          <<w, s>> \in Touched(t) => m.balance[w][s] = n.balance[w][s]

\* What a transaction that passed the checks makes of the registry.
AgentsAfter(agents, t) ==
    LET p == t.payload
    IN CASE p.op = "SetAgent" ->
                Without(agents, t.from, p.agent) \cup
                  {[account |-> t.from, agent |-> p.agent, permissions |-> p.permissions]}
         [] p.op = "RemoveAgent" -> Without(agents, t.from, p.agent)
         [] OTHER -> agents

\* The fields each kind of payload has.
LEMMA PayloadTypes ==
  ASSUME NEW t \in Txs, NEW p, p = t.payload
  PROVE  /\ t.from \in Users
         /\ p.op \in {"Deposit", "Withdraw"} => p.asset \in Assets /\ p.amount \in Nat
         /\ p.op \in {"Transfer", "BridgeDeposit", "BridgeWithdraw"} =>
               p.user \in Users /\ p.asset \in Assets /\ p.amount \in Nat
         /\ p.op \in {"Deposit", "Withdraw", "Transfer", "BridgeDeposit", "BridgeWithdraw",
                      "SetAgent", "RemoveAgent", "ModifyOrder"}
<1>1. p \in Payloads /\ t.from \in Users
  BY DEF Txs
<1>2. Amounts \subseteq Nat
  BY AccountAssumption
<1> QED BY <1>1, <1>2 DEF Payloads

\* Nothing is added on either side.
LEMMA ParallelStill ==
  ASSUME NEW n \in Nodes, NEW m \in Nodes, NEW D
  PROVE  Parallel(n, Err(n), m, Err(m), D)
<1> DEFINE b == [w \in Users |-> [s \in Assets |-> 0]]
           i == [s \in Assets |-> 0]
<1>1. b \in Deltas /\ i \in AssetDeltas
  BY DEF Deltas, AssetDeltas
<1>2. Moves(n, n, b, i, i) /\ Moves(m, m, b, i, i)
  BY NodeNumbers DEF Moves
<1>3. \A w \in Users, s \in Assets : b[w][s] # 0 => <<w, s>> \in D
  OBVIOUS
<1>4. Err(n).ok = Err(m).ok /\ Err(n).node = n /\ Err(m).node = m
  BY DEF Err
<1> HIDE DEF b, i
<1> QED BY <1>1, <1>2, <1>3, <1>4 DEF Parallel

\* Credits in two states with the same balance.
LEMMA MintParallel ==
  ASSUME NEW n \in Nodes, NEW m \in Nodes, NEW u \in Users, NEW s \in Assets, NEW g \in Nat,
         m.balance[u][s] = n.balance[u][s]
  PROVE  /\ Parallel(n, Mint(n, u, s, g), m, Mint(m, u, s, g), {<<u, s>>})
         /\ Mint(n, u, s, g).node.agents = n.agents
<1>1. CASE TooMuch(n, u, s, g)
  <2>1. Mint(n, u, s, g) = Err(n) /\ Mint(m, u, s, g) = Err(m) /\ Err(n).node = n
    BY <1>1 DEF Mint, Err, TooMuch
  <2> QED BY <2>1, ParallelStill
<1>2. CASE ~TooMuch(n, u, s, g)
  <2>1. /\ Mint(n, u, s, g).ok = TRUE /\ Mint(m, u, s, g).ok = TRUE
        /\ Mint(n, u, s, g).node.agents = n.agents
        /\ Moves(n, Mint(n, u, s, g).node, Single(u, s, g), At(s, g), At(s, 0))
        /\ Moves(m, Mint(m, u, s, g).node, Single(u, s, g), At(s, g), At(s, 0))
    <3>1. ~TooMuch(n, u, s, g) /\ ~TooMuch(m, u, s, g)
      BY <1>2 DEF TooMuch
    <3>2. /\ Mint(n, u, s, g).ok = TRUE /\ Mint(n, u, s, g).node.agents = n.agents
          /\ Moves(n, Mint(n, u, s, g).node, Single(u, s, g), At(s, g), At(s, 0))
      BY ONLY <3>1, MintMoves, n \in Nodes, u \in Users, s \in Assets, g \in Nat
    <3>3. /\ Mint(m, u, s, g).ok = TRUE
          /\ Moves(m, Mint(m, u, s, g).node, Single(u, s, g), At(s, g), At(s, 0))
      BY ONLY <3>1, MintMoves, m \in Nodes, u \in Users, s \in Assets, g \in Nat
    <3> QED BY <3>2, <3>3
  <2>2. Single(u, s, g) \in Deltas /\ At(s, g) \in AssetDeltas /\ At(s, 0) \in AssetDeltas
    BY DeltaTypes
  <2>3. \A w \in Users, r \in Assets : Single(u, s, g)[w][r] # 0 => <<w, r>> \in {<<u, s>>}
    BY DEF Single
  <2> QED BY <2>1, <2>2, <2>3 DEF Parallel
<1> QED BY <1>1, <1>2

\* Debits in two states with the same balance.
LEMMA BurnParallel ==
  ASSUME NEW n \in Nodes, NEW m \in Nodes, NEW u \in Users, NEW s \in Assets, NEW g \in Nat,
         m.balance[u][s] = n.balance[u][s]
  PROVE  /\ Parallel(n, Burn(n, u, s, g), m, Burn(m, u, s, g), {<<u, s>>})
         /\ Burn(n, u, s, g).node.agents = n.agents
<1>1. CASE TooLittle(n, u, s, g)
  <2>1. Burn(n, u, s, g) = Err(n) /\ Burn(m, u, s, g) = Err(m) /\ Err(n).node = n
    BY <1>1 DEF Burn, Err, TooLittle
  <2> QED BY <2>1, ParallelStill
<1>2. CASE ~TooLittle(n, u, s, g)
  <2>1. /\ Burn(n, u, s, g).ok = TRUE /\ Burn(m, u, s, g).ok = TRUE
        /\ Burn(n, u, s, g).node.agents = n.agents
        /\ Moves(n, Burn(n, u, s, g).node, Single(u, s, Minus(g)), At(s, Minus(g)), At(s, 0))
        /\ Moves(m, Burn(m, u, s, g).node, Single(u, s, Minus(g)), At(s, Minus(g)), At(s, 0))
    <3>1. ~TooLittle(n, u, s, g) /\ ~TooLittle(m, u, s, g)
      BY <1>2 DEF TooLittle
    <3>2. /\ Burn(n, u, s, g).ok = TRUE /\ Burn(n, u, s, g).node.agents = n.agents
          /\ Moves(n, Burn(n, u, s, g).node, Single(u, s, Minus(g)), At(s, Minus(g)), At(s, 0))
      BY ONLY <3>1, BurnMoves, n \in Nodes, u \in Users, s \in Assets, g \in Nat
    <3>3. /\ Burn(m, u, s, g).ok = TRUE
          /\ Moves(m, Burn(m, u, s, g).node, Single(u, s, Minus(g)), At(s, Minus(g)), At(s, 0))
      BY ONLY <3>1, BurnMoves, m \in Nodes, u \in Users, s \in Assets, g \in Nat
    <3> QED BY <3>2, <3>3
  <2>2. Single(u, s, Minus(g)) \in Deltas /\ At(s, Minus(g)) \in AssetDeltas /\ At(s, 0) \in AssetDeltas
    <3>1. Minus(g) \in Int
      BY DEF Minus
    <3> QED BY <3>1, DeltaTypes
  <2>3. \A w \in Users, r \in Assets : Single(u, s, Minus(g))[w][r] # 0 => <<w, r>> \in {<<u, s>>}
    BY DEF Single
  <2> QED BY <2>1, <2>2, <2>3 DEF Parallel
<1> QED BY <1>1, <1>2

\* Transfers in two states with the same two balances.
LEMMA TransferParallel ==
  ASSUME NEW n \in Nodes, NEW m \in Nodes, NEW a \in Users, NEW p, p.user \in Users,
         p.asset \in Assets, p.amount \in Nat, m.assets = n.assets,
         m.balance[a][p.asset] = n.balance[a][p.asset],
         m.balance[p.user][p.asset] = n.balance[p.user][p.asset]
  PROVE  /\ Parallel(n, Transfer(n, a, p), m, Transfer(m, a, p),
                     {<<a, p.asset>>, <<p.user, p.asset>>})
         /\ Transfer(n, a, p).node.agents = n.agents
<1> DEFINE s == p.asset
           g == p.amount
           D == {<<a, s>>, <<p.user, s>>}
<1>1. (Refused(m, a, p) <=> Refused(n, a, p)) /\ (Overflows(m, p) <=> Overflows(n, p))
  BY DEF Refused, Overflows
<1>2. s \in Assets /\ g \in Nat /\ Minus(g) \in Int
  BY DEF Minus
<1>3. CASE Refused(n, a, p)
  <2>1. Transfer(n, a, p) = Err(n) /\ Transfer(m, a, p) = Err(m) /\ Err(n).node = n
    BY <1>1, <1>3 DEF Transfer, Err, Refused
  <2> QED BY <2>1, ParallelStill
<1>4. CASE ~Refused(n, a, p) /\ Overflows(n, p)
  <2>1. /\ Transfer(n, a, p).ok = FALSE /\ Transfer(m, a, p).ok = FALSE
        /\ Transfer(n, a, p).node.agents = n.agents
        /\ Moves(n, Transfer(n, a, p).node, Single(a, s, Minus(g)), At(s, 0), At(s, g))
        /\ Moves(m, Transfer(m, a, p).node, Single(a, s, Minus(g)), At(s, 0), At(s, g))
    <3>1. ~Refused(m, a, p) /\ Overflows(m, p) /\ ~Refused(n, a, p) /\ Overflows(n, p)
      BY <1>1, <1>4
    <3>2. Transfer(n, a, p).ok = FALSE /\ Transfer(m, a, p).ok = FALSE
      BY <3>1 DEF Transfer, Err, Refused, Overflows
    <3>3. Moves(n, Transfer(n, a, p).node, Single(a, s, Minus(g)), At(s, 0), At(s, g))
      BY <3>1, TransferMoves
    <3>4. Moves(m, Transfer(m, a, p).node, Single(a, s, Minus(g)), At(s, 0), At(s, g))
      BY <3>1, TransferMoves
    <3>5. Transfer(n, a, p).node.agents = n.agents
      BY ONLY <3>1, TransferMoves, n \in Nodes, a \in Users, p.user \in Users,
              p.asset \in Assets, p.amount \in Nat, Zenon
    <3> QED BY <3>2, <3>3, <3>4, <3>5
  <2>2. Single(a, s, Minus(g)) \in Deltas /\ At(s, g) \in AssetDeltas /\ At(s, 0) \in AssetDeltas
    <3> HIDE DEF s, g
    <3>1. g \in Int /\ 0 \in Int
      BY <1>2
    <3>2. Single(a, s, Minus(g)) \in Deltas
      BY ONLY <1>2, DeltaTypes
    <3> QED BY ONLY <3>1, <3>2, DeltaTypes
  <2>3. \A w \in Users, r \in Assets : Single(a, s, Minus(g))[w][r] # 0 => <<w, r>> \in D
    BY DEF Single
  <2> QED BY <2>1, <2>2, <2>3 DEF Parallel
<1>5. CASE ~Refused(n, a, p) /\ ~Overflows(n, p)
  <2>1. /\ Transfer(n, a, p).ok = TRUE /\ Transfer(m, a, p).ok = TRUE
        /\ Transfer(n, a, p).node.agents = n.agents
        /\ Moves(n, Transfer(n, a, p).node, Double(a, p.user, s, g), At(s, 0), At(s, 0))
        /\ Moves(m, Transfer(m, a, p).node, Double(a, p.user, s, g), At(s, 0), At(s, 0))
    BY <1>1, <1>5, TransferMoves
  <2>2. Double(a, p.user, s, g) \in Deltas /\ At(s, 0) \in AssetDeltas
    <3> HIDE DEF s, g
    <3>1. g \in Int /\ 0 \in Int
      BY <1>2
    <3> QED BY ONLY <3>1, DeltaTypes
  <2>3. \A w \in Users, r \in Assets : Double(a, p.user, s, g)[w][r] # 0 => <<w, r>> \in D
    BY DEF Double
  <2> QED BY <2>1, <2>2, <2>3 DEF Parallel
<1> QED BY <1>3, <1>4, <1>5

\* Only the registry of agents changes.
LEMMA AgentsParallel ==
  ASSUME NEW n \in Nodes, NEW m \in Nodes, NEW new, NEW old, NEW D
  PROVE  Parallel(n, Ok([n EXCEPT !.agents = new]), m, Ok([m EXCEPT !.agents = old]), D)
<1> DEFINE j == [n EXCEPT !.agents = new]
           k == [m EXCEPT !.agents = old]
           b == [w \in Users |-> [s \in Assets |-> 0]]
           i == [s \in Assets |-> 0]
<1>1. b \in Deltas /\ i \in AssetDeltas
  BY DEF Deltas, AssetDeltas
<1>2. /\ j.balance = n.balance /\ j.minted = n.minted /\ j.stranded = n.stranded
      /\ j.nonce = n.nonce /\ j.operators = n.operators /\ j.assets = n.assets
      /\ k.balance = m.balance /\ k.minted = m.minted /\ k.stranded = m.stranded
      /\ k.nonce = m.nonce /\ k.operators = m.operators /\ k.assets = m.assets
  BY DEF Nodes
<1>3. \A w \in Users, s \in Assets : b[w][s] # 0 => <<w, s>> \in D
  OBVIOUS
<1>4. Ok(j).ok = Ok(k).ok /\ Ok(j).node = j /\ Ok(k).node = k
  BY DEF Ok
<1> HIDE DEF j, k
<1>5. Moves(n, j, b, i, i) /\ Moves(m, k, b, i, i)
  BY <1>2, NodeNumbers DEF Moves
<1> HIDE DEF b, i
<1>6. Parallel(n, Ok(j), m, Ok(k), D)
  BY <1>1, <1>3, <1>4, <1>5 DEF Parallel
<1> QED BY <1>6 DEF j, k

\* Any payload, in two states that agree on what it declares.
LEMMA PayloadParallel ==
  ASSUME NEW n \in Nodes, NEW m \in Nodes, NEW t \in Txs, Agree(n, m, t)
  PROVE  /\ Parallel(n, ExecutePayload(n, t), m, ExecutePayload(m, t), Touched(t))
         /\ ExecutePayload(n, t).node.agents = AgentsAfter(n.agents, t)
<1> DEFINE p == t.payload
           f == t.from
<1>1. /\ f \in Users
      /\ p.op \in {"Deposit", "Withdraw"} => p.asset \in Assets /\ p.amount \in Nat
      /\ p.op \in {"Transfer", "BridgeDeposit", "BridgeWithdraw"} =>
            p.user \in Users /\ p.asset \in Assets /\ p.amount \in Nat
      /\ p.op \in {"Deposit", "Withdraw", "Transfer", "BridgeDeposit", "BridgeWithdraw",
                   "SetAgent", "RemoveAgent", "ModifyOrder"}
  BY PayloadTypes
<1>2. /\ m.operators = n.operators /\ m.assets = n.assets
      /\ \A w \in Users, s \in Assets :
            <<w, s>> \in Touched(t) => m.balance[w][s] = n.balance[w][s]
  BY DEF Agree
<1>3. Err(n).node = n /\ Err(n).node.agents = n.agents
  BY DEF Err
<1>4. CASE p.op = "Deposit"
  <2>1. /\ Touched(t) = {<<f, p.asset>>} /\ AgentsAfter(n.agents, t) = n.agents
        /\ ExecutePayload(n, t) = Mint(n, f, p.asset, p.amount)
        /\ ExecutePayload(m, t) = Mint(m, f, p.asset, p.amount)
    BY <1>4 DEF Touched, AgentsAfter, ExecutePayload, Deposit
  <2> HIDE DEF p, f
  <2> QED BY <1>1, <1>2, <1>4, <2>1, MintParallel
<1>5. CASE p.op = "Withdraw"
  <2>1. /\ Touched(t) = {<<f, p.asset>>} /\ AgentsAfter(n.agents, t) = n.agents
        /\ ExecutePayload(n, t) = Burn(n, f, p.asset, p.amount)
        /\ ExecutePayload(m, t) = Burn(m, f, p.asset, p.amount)
    BY <1>5 DEF Touched, AgentsAfter, ExecutePayload, Withdraw
  <2> HIDE DEF p, f
  <2>2. p.asset \in Assets /\ p.amount \in Nat
    BY <1>1, <1>5
  <2>3. m.balance[f][p.asset] = n.balance[f][p.asset]
    BY <1>1, <1>2, <2>1, <2>2
  <2>4. /\ Parallel(n, Burn(n, f, p.asset, p.amount), m, Burn(m, f, p.asset, p.amount),
                    {<<f, p.asset>>})
        /\ Burn(n, f, p.asset, p.amount).node.agents = n.agents
    <3>1. f \in Users
      BY <1>1
    <3> QED BY ONLY <2>2, <2>3, <3>1, BurnParallel, n \in Nodes, m \in Nodes
  <2> QED BY <2>1, <2>4
<1>6. CASE p.op = "Transfer"
  <2>1. /\ Touched(t) = {<<f, p.asset>>, <<p.user, p.asset>>}
        /\ AgentsAfter(n.agents, t) = n.agents
        /\ ExecutePayload(n, t) = Transfer(n, f, p)
        /\ ExecutePayload(m, t) = Transfer(m, f, p)
    BY <1>6 DEF Touched, AgentsAfter, ExecutePayload
  <2> HIDE DEF p, f
  <2>2. p.user \in Users /\ p.asset \in Assets /\ p.amount \in Nat
    BY <1>1, <1>6
  <2>3. /\ m.balance[f][p.asset] = n.balance[f][p.asset]
        /\ m.balance[p.user][p.asset] = n.balance[p.user][p.asset]
    BY <1>1, <1>2, <2>1, <2>2
  <2> QED BY <1>1, <1>2, <2>1, <2>2, <2>3, TransferParallel
<1>7. CASE p.op \in {"BridgeDeposit", "BridgeWithdraw"}
  <2>1. /\ Touched(t) = {<<p.user, p.asset>>} /\ AgentsAfter(n.agents, t) = n.agents
    BY <1>7 DEF Touched, AgentsAfter
  <2>2. p.user \in Users /\ p.asset \in Assets /\ p.amount \in Nat
    BY <1>1, <1>7
  <2>3. m.balance[p.user][p.asset] = n.balance[p.user][p.asset]
    BY <1>2, <2>1, <2>2
  <2>4. MayBridge(m, f, p) <=> MayBridge(n, f, p)
    BY <1>2 DEF MayBridge
  <2>5. CASE ~MayBridge(n, f, p)
    <3>1. ExecutePayload(n, t) = Err(n) /\ ExecutePayload(m, t) = Err(m)
      BY <1>7, <2>4, <2>5 DEF ExecutePayload, BridgeDeposit, BridgeWithdraw
    <3> HIDE DEF p, f
    <3> QED BY <1>3, <2>1, <3>1, ParallelStill
  <2>6. CASE MayBridge(n, f, p) /\ p.op = "BridgeDeposit"
    <3>1. /\ ExecutePayload(n, t) = Mint(n, p.user, p.asset, p.amount)
          /\ ExecutePayload(m, t) = Mint(m, p.user, p.asset, p.amount)
      BY <2>4, <2>6 DEF ExecutePayload, BridgeDeposit
    <3> HIDE DEF p, f
    <3>2. /\ Parallel(n, Mint(n, p.user, p.asset, p.amount), m,
                      Mint(m, p.user, p.asset, p.amount), {<<p.user, p.asset>>})
          /\ Mint(n, p.user, p.asset, p.amount).node.agents = n.agents
      BY ONLY <2>2, <2>3, MintParallel, n \in Nodes, m \in Nodes
    <3> QED BY <2>1, <3>1, <3>2
  <2>7. CASE MayBridge(n, f, p) /\ p.op = "BridgeWithdraw"
    <3>1. /\ ExecutePayload(n, t) = Burn(n, p.user, p.asset, p.amount)
          /\ ExecutePayload(m, t) = Burn(m, p.user, p.asset, p.amount)
      BY <2>4, <2>7 DEF ExecutePayload, BridgeWithdraw
    <3> HIDE DEF p, f
    <3>2. /\ Parallel(n, Burn(n, p.user, p.asset, p.amount), m,
                      Burn(m, p.user, p.asset, p.amount), {<<p.user, p.asset>>})
          /\ Burn(n, p.user, p.asset, p.amount).node.agents = n.agents
      BY ONLY <2>2, <2>3, BurnParallel, n \in Nodes, m \in Nodes
    <3> QED BY <2>1, <3>1, <3>2
  <2> QED BY <1>7, <2>5, <2>6, <2>7
<1>8. CASE p.op \in {"SetAgent", "RemoveAgent"}
  <2>1. /\ ExecutePayload(n, t) = Ok([n EXCEPT !.agents = AgentsAfter(n.agents, t)])
        /\ ExecutePayload(m, t) = Ok([m EXCEPT !.agents = AgentsAfter(m.agents, t)])
    BY <1>8 DEF ExecutePayload, AgentsAfter, SetAgent, RemoveAgent, Nodes
  <2>2. Ok([n EXCEPT !.agents = AgentsAfter(n.agents, t)]).node.agents = AgentsAfter(n.agents, t)
    BY DEF Ok, Nodes
  <2> HIDE DEF p, f
  <2> QED BY <2>1, <2>2, AgentsParallel
<1>9. CASE p.op = "ModifyOrder"
  <2>1. /\ ExecutePayload(n, t) = Err(n) /\ ExecutePayload(m, t) = Err(m)
        /\ AgentsAfter(n.agents, t) = n.agents
    BY <1>9 DEF ExecutePayload, AgentsAfter
  <2> HIDE DEF p, f
  <2> QED BY <1>3, <2>1, ParallelStill
<1> QED BY <1>1, <1>4, <1>5, <1>6, <1>7, <1>8, <1>9

-------------------------------------------------------------------------------
(* Either order *)

\* m is n with the amounts added, and c used nonces of account f.
Adds(n, m, b, i, x, c, f) ==
    /\ \A w \in Users, s \in Assets : m.balance[w][s] = n.balance[w][s] + b[w][s]
    /\ \A s \in Assets : m.minted[s] = n.minted[s] + i[s]
    /\ \A s \in Assets : m.stranded[s] = n.stranded[s] + x[s]
    /\ \A w \in Users : m.nonce[w] = n.nonce[w] + IF w = f THEN c ELSE 0
    /\ m.operators = n.operators /\ m.assets = n.assets

OnlyTouches(b, t) == \A w \in Users, s \in Assets : b[w][s] # 0 => <<w, s>> \in Touched(t)

Runs(n, t) == VerifyTransaction(t) /\ n.nonce[t.from] = t.nonce

\* The nonce is used up by a payload that succeeds.
LEMMA NonceMoves ==
  ASSUME NEW n \in Nodes, NEW m \in Nodes, NEW f \in Users, NEW b, NEW i, NEW x,
         Moves(n, m, b, i, x)
  PROVE  /\ Adds(n, m, b, i, x, 0, f)
         /\ Adds(n, IncrementNonce(m, f), b, i, x, 1, f)
         /\ IncrementNonce(m, f).agents = m.agents
<1>1. /\ m.nonce \in [Users -> Nat] /\ n.nonce \in [Users -> Nat] /\ m.nonce = n.nonce
      /\ m.operators = n.operators /\ m.assets = n.assets
      /\ \A w \in Users, s \in Assets : m.balance[w][s] = n.balance[w][s] + b[w][s]
      /\ \A s \in Assets : m.minted[s] = n.minted[s] + i[s]
      /\ \A s \in Assets : m.stranded[s] = n.stranded[s] + x[s]
  BY DEF Nodes, Moves
<1>2. \A w \in Users : m.nonce[w] \in Nat /\ n.nonce[w] \in Nat /\ m.nonce[w] = n.nonce[w]
  BY <1>1
<1> DEFINE k == IncrementNonce(m, f)
<1>3. /\ k.balance = m.balance /\ k.minted = m.minted /\ k.stranded = m.stranded
      /\ k.operators = m.operators /\ k.assets = m.assets /\ k.agents = m.agents
      /\ k.nonce = [m.nonce EXCEPT ![f] = @ + 1]
  BY DEF IncrementNonce, Nodes
<1> HIDE DEF k
<1>4. \A w \in Users : k.nonce[w] = n.nonce[w] + IF w = f THEN 1 ELSE 0
  BY <1>1, <1>2, <1>3
<1>5. \A w \in Users : m.nonce[w] = n.nonce[w] + IF w = f THEN 0 ELSE 0
  BY <1>2
<1>6. Adds(n, m, b, i, x, 0, f)
  BY <1>1, <1>5 DEF Adds
<1>7. Adds(n, k, b, i, x, 1, f)
  BY <1>1, <1>3, <1>4 DEF Adds
<1> QED BY <1>3, <1>6, <1>7 DEF k

\* TransactionExecutor::execute in two states that agree on what is declared.
LEMMA ExecuteParallel ==
  ASSUME NEW n, NEW m, Sound(n), Sound(m), NEW t \in Txs, Agree(n, m, t), Runs(n, t)
  PROVE  /\ Execute(n, t).ok = Execute(m, t).ok
         /\ Execute(n, t).node \in Nodes
         /\ Execute(n, t).node.agents = AgentsAfter(n.agents, t)
         /\ \E b \in Deltas, i \in AssetDeltas, x \in AssetDeltas, c \in {0, 1} :
               /\ Adds(n, Execute(n, t).node, b, i, x, c, t.from)
               /\ Adds(m, Execute(m, t).node, b, i, x, c, t.from)
               /\ OnlyTouches(b, t)
<1> DEFINE f == t.from
           r == ExecutePayload(n, t)
           q == ExecutePayload(m, t)
<1>1. n \in Nodes /\ m \in Nodes /\ f \in Users
  BY DEF Sound, Txs
<1>2. Parallel(n, r, m, q, Touched(t)) /\ r.node.agents = AgentsAfter(n.agents, t)
  BY <1>1, PayloadParallel
<1>3. Allowed(n, r.node, f) /\ Allowed(m, q.node, f)
  BY PayloadAllowed
<1>4. Execute(n, t).node \in Nodes
  BY ExecuteAllowed DEF Allowed, Sound
<1>5. Runs(m, t)
  BY DEF Runs, Agree
<1>6. /\ Execute(n, t) = IF r.ok THEN Ok(IncrementNonce(r.node, f)) ELSE r
      /\ Execute(m, t) = IF q.ok THEN Ok(IncrementNonce(q.node, f)) ELSE q
  BY <1>5 DEF Execute, Runs
<1> HIDE DEF r, q, f
<1>7. r.node \in Nodes /\ q.node \in Nodes
  BY <1>3 DEF Allowed, Sound
<1>8. r.ok = q.ok
  BY <1>2 DEF Parallel
<1>9. PICK b \in Deltas, i \in AssetDeltas, x \in AssetDeltas :
         /\ Moves(n, r.node, b, i, x) /\ Moves(m, q.node, b, i, x)
         /\ \A w \in Users, s \in Assets : b[w][s] # 0 => <<w, s>> \in Touched(t)
  BY <1>2 DEF Parallel
<1>10. OnlyTouches(b, t)
  BY <1>9 DEF OnlyTouches
<1>11. /\ Adds(n, r.node, b, i, x, 0, f) /\ Adds(n, IncrementNonce(r.node, f), b, i, x, 1, f)
       /\ IncrementNonce(r.node, f).agents = r.node.agents
  BY <1>1, <1>7, <1>9, NonceMoves
<1>12. /\ Adds(m, q.node, b, i, x, 0, f) /\ Adds(m, IncrementNonce(q.node, f), b, i, x, 1, f)
  BY <1>1, <1>7, <1>9, NonceMoves
<1>13. CASE r.ok
  <2>1. /\ Execute(n, t) = Ok(IncrementNonce(r.node, f))
        /\ Execute(m, t) = Ok(IncrementNonce(q.node, f))
    BY <1>6, <1>8, <1>13
  <2>2. /\ Execute(n, t).node = IncrementNonce(r.node, f)
        /\ Execute(m, t).node = IncrementNonce(q.node, f)
        /\ Execute(n, t).ok = Execute(m, t).ok
    BY <2>1 DEF Ok
  <2>3. \E c \in {0, 1} : /\ Adds(n, Execute(n, t).node, b, i, x, c, f)
                          /\ Adds(m, Execute(m, t).node, b, i, x, c, f)
    BY <1>11, <1>12, <2>2
  <2> QED BY <1>2, <1>4, <1>10, <1>11, <2>2, <2>3 DEF f
<1>14. CASE ~r.ok
  <2>1. Execute(n, t) = r /\ Execute(m, t) = q
    BY <1>6, <1>8, <1>14
  <2>2. \E c \in {0, 1} : /\ Adds(n, Execute(n, t).node, b, i, x, c, f)
                          /\ Adds(m, Execute(m, t).node, b, i, x, c, f)
    BY <1>11, <1>12, <2>1
  <2> QED BY <1>2, <1>4, <1>8, <1>10, <2>1, <2>2 DEF f
<1> QED BY <1>13, <1>14

\* Without a conflict the accounts differ and no declared balance is shared.
LEMMA Disjoint ==
  ASSUME NEW t \in Txs, NEW u \in Txs, ~Conflict(t, u)
  PROVE  t.from # u.from /\ Touched(t) \cap Touched(u) = {}
<1>1. ASSUME t.from = u.from PROVE FALSE
  <2>1. Write(Nonce(t.from)) \in DeclareAccesses(t) /\ Write(Nonce(t.from)) \in DeclareAccesses(u)
    BY <1>1 DEF DeclareAccesses
  <2>2. Write(Nonce(t.from)).write = TRUE
    BY DEF Write
  <2> QED BY <2>1, <2>2 DEF Conflict
<1>2. ASSUME NEW v \in Txs, NEW z \in Touched(v)
      PROVE  /\ z = <<z[1], z[2]>>
             /\ Write(Balance(z[1], z[2])) \in DeclareAccesses(v)
  <2> DEFINE p == v.payload
  <2>1. p.op \in {"Deposit", "Withdraw", "Transfer", "BridgeDeposit", "BridgeWithdraw",
                  "SetAgent", "RemoveAgent", "ModifyOrder"}
    BY PayloadTypes
  <2>2. CASE p.op \in {"Deposit", "Withdraw"}
    <3>1. Touched(v) = {<<v.from, p.asset>>}
      BY <2>2 DEF Touched
    <3>2. BalanceWithAsset(v.from, p.asset) \subseteq DeclareAccesses(v)
      BY <2>2 DEF DeclareAccesses
    <3> QED BY <3>1, <3>2 DEF BalanceWithAsset
  <2>3. CASE p.op = "Transfer"
    <3>1. Touched(v) = {<<v.from, p.asset>>, <<p.user, p.asset>>}
      BY <2>3 DEF Touched
    <3>2. /\ BalanceWithAsset(v.from, p.asset) \subseteq DeclareAccesses(v)
          /\ BalanceWithAsset(p.user, p.asset) \subseteq DeclareAccesses(v)
      BY <2>3 DEF DeclareAccesses, DeclareTransfer
    <3> QED BY <3>1, <3>2 DEF BalanceWithAsset
  <2>4. CASE p.op \in {"BridgeDeposit", "BridgeWithdraw"}
    <3>1. Touched(v) = {<<p.user, p.asset>>}
      BY <2>4 DEF Touched
    <3>2. BalanceWithAsset(p.user, p.asset) \subseteq DeclareAccesses(v)
      BY <2>4 DEF DeclareAccesses, DeclareBridge
    <3> QED BY <3>1, <3>2 DEF BalanceWithAsset
  <2>5. CASE p.op \in {"SetAgent", "RemoveAgent", "ModifyOrder"}
    <3>1. Touched(v) = {}
      BY <2>5 DEF Touched
    <3> QED BY <3>1
  <2> QED BY <2>1, <2>2, <2>3, <2>4, <2>5
<1>3. ASSUME NEW z \in Touched(t), z \in Touched(u) PROVE FALSE
  <2>1. /\ Write(Balance(z[1], z[2])) \in DeclareAccesses(t)
        /\ Write(Balance(z[1], z[2])) \in DeclareAccesses(u)
    BY <1>2, <1>3
  <2>2. Write(Balance(z[1], z[2])).write = TRUE
    BY DEF Write
  <2> QED BY <2>1, <2>2 DEF Conflict
<1> QED BY <1>1, <1>3

\* Executing t leaves everything that u looks at.
LEMMA LeavesAlone ==
  ASSUME NEW n, NEW m, Sound(n), NEW t \in Txs, NEW u \in Txs, ~Conflict(t, u),
         NEW b, NEW i, NEW x, NEW c, Adds(n, m, b, i, x, c, t.from), OnlyTouches(b, t)
  PROVE  Agree(n, m, u)
<1>1. t.from # u.from /\ Touched(t) \cap Touched(u) = {} /\ u.from \in Users
  BY Disjoint DEF Txs
<1>2. n \in Nodes /\ n.nonce[u.from] \in Nat
  BY <1>1 DEF Sound, Nodes
<1>3. m.nonce[u.from] = n.nonce[u.from]
  BY <1>1, <1>2 DEF Adds
<1>4. ASSUME NEW w \in Users, NEW s \in Assets, <<w, s>> \in Touched(u)
      PROVE  m.balance[w][s] = n.balance[w][s]
  <2>1. b[w][s] = 0
    BY <1>1, <1>4 DEF OnlyTouches
  <2>2. m.balance[w][s] = n.balance[w][s] + b[w][s]
    BY DEF Adds
  <2> QED BY <1>2, <2>1, <2>2, NodeNumbers
<1> QED BY <1>3, <1>4 DEF Agree, Adds

\* Entries of different accounts are set and removed independently.
LEMMA AgentsCommute ==
  ASSUME NEW agents, NEW t \in Txs, NEW u \in Txs, t.from # u.from
  PROVE  AgentsAfter(AgentsAfter(agents, t), u) = AgentsAfter(AgentsAfter(agents, u), t)
<1> DEFINE Entry(v) == [account |-> v.from, agent |-> v.payload.agent,
                        permissions |-> v.payload.permissions]
<1>1. ASSUME NEW v, NEW S, NEW e
      PROVE  e \in AgentsAfter(S, v) <=>
               \/ v.payload.op = "SetAgent" /\ e = Entry(v)
               \/ /\ e \in S
                  /\ v.payload.op \in {"SetAgent", "RemoveAgent"} =>
                        ~(e.account = v.from /\ e.agent = v.payload.agent)
  BY DEF AgentsAfter, Without
<1>2. Entry(t).account = t.from /\ Entry(u).account = u.from
  OBVIOUS
<1> HIDE DEF Entry
<1>3. \A e : e \in AgentsAfter(AgentsAfter(agents, t), u) <=>
             e \in AgentsAfter(AgentsAfter(agents, u), t)
  BY <1>1, <1>2
<1> QED BY <1>3

\* Two transactions without a conflict, in either order.
LEMMA Commute ==
  ASSUME NEW n, Sound(n), NEW t \in Txs, NEW u \in Txs, Runs(n, t), Runs(n, u),
         ~Conflict(t, u)
  PROVE  Commutes(n, t, u)
<1> DEFINE nt == Execute(n, t).node
           nu == Execute(n, u).node
           tu == Execute(nt, u).node
           ut == Execute(nu, t).node
<1>1. Agree(n, n, t) /\ Agree(n, n, u) /\ ~Conflict(u, t) /\ t.from # u.from
  <2>1. Agree(n, n, t) /\ Agree(n, n, u)
    BY DEF Agree
  <2>2. ~Conflict(u, t)
    BY DEF Conflict
  <2> QED BY <2>1, <2>2, Disjoint
<1>2. Sound(nt) /\ Sound(nu) /\ n \in Nodes /\ t.from \in Users /\ u.from \in Users
  BY ExecuteAllowed DEF Allowed, Sound, Txs
<1>3. Agree(n, nt, u)
  <2>1. PICK b \in Deltas, i \in AssetDeltas, x \in AssetDeltas, c \in {0, 1} :
           Adds(n, nt, b, i, x, c, t.from) /\ OnlyTouches(b, t)
    BY <1>1, ExecuteParallel
  <2> HIDE DEF nt
  <2> QED BY <2>1, LeavesAlone
<1>4. Agree(n, nu, t)
  <2>1. PICK b \in Deltas, i \in AssetDeltas, x \in AssetDeltas, c \in {0, 1} :
           Adds(n, nu, b, i, x, c, u.from) /\ OnlyTouches(b, u)
    BY <1>1, ExecuteParallel
  <2> HIDE DEF nu
  <2> QED BY <1>1, <2>1, LeavesAlone
<1>5. Runs(nt, u) /\ Runs(nu, t) /\ Agree(nt, nt, u) /\ Agree(nu, nu, t)
  BY <1>3, <1>4 DEF Runs, Agree
<1> HIDE DEF nt, nu
<1>6. PICK b \in Deltas, i \in AssetDeltas, x \in AssetDeltas, c \in {0, 1} :
         Adds(n, nt, b, i, x, c, t.from) /\ Adds(nu, ut, b, i, x, c, t.from)
  BY <1>2, <1>4, ExecuteParallel DEF nt
<1>7. PICK d \in Deltas, j \in AssetDeltas, y \in AssetDeltas, e \in {0, 1} :
         Adds(n, nu, d, j, y, e, u.from) /\ Adds(nt, tu, d, j, y, e, u.from)
  BY <1>2, <1>3, ExecuteParallel DEF nu
<1>8. /\ Execute(n, t).ok = Execute(nu, t).ok /\ Execute(n, u).ok = Execute(nt, u).ok
      /\ nt.agents = AgentsAfter(n.agents, t) /\ nu.agents = AgentsAfter(n.agents, u)
  BY <1>1, <1>2, <1>3, <1>4, ExecuteParallel DEF nt, nu
<1>9. /\ tu \in Nodes /\ tu.agents = AgentsAfter(nt.agents, u)
      /\ ut \in Nodes /\ ut.agents = AgentsAfter(nu.agents, t)
  BY <1>2, <1>5, ExecuteParallel
<1> HIDE DEF tu, ut
<1>10. tu.agents = ut.agents
  BY <1>1, <1>8, <1>9, AgentsCommute
<1>11. /\ \A w \in Users, s \in Assets : n.balance[w][s] \in Int /\ b[w][s] \in Int /\ d[w][s] \in Int
       /\ \A s \in Assets : /\ n.minted[s] \in Int /\ n.stranded[s] \in Int
                            /\ i[s] \in Int /\ j[s] \in Int /\ x[s] \in Int /\ y[s] \in Int
       /\ \A w \in Users : n.nonce[w] \in Int
  BY <1>2 DEF Nodes, Deltas, AssetDeltas
<1>12. \A w \in Users, s \in Assets : tu.balance[w][s] = ut.balance[w][s]
  <2> SUFFICES ASSUME NEW w \in Users, NEW s \in Assets
               PROVE  tu.balance[w][s] = ut.balance[w][s]
    OBVIOUS
  <2>1. /\ nt.balance[w][s] = n.balance[w][s] + b[w][s]
        /\ nu.balance[w][s] = n.balance[w][s] + d[w][s]
        /\ ut.balance[w][s] = nu.balance[w][s] + b[w][s]
        /\ tu.balance[w][s] = nt.balance[w][s] + d[w][s]
    BY <1>6, <1>7 DEF Adds
  <2> QED BY <1>11, <2>1
<1>13. \A s \in Assets : tu.minted[s] = ut.minted[s] /\ tu.stranded[s] = ut.stranded[s]
  <2> SUFFICES ASSUME NEW s \in Assets
               PROVE  tu.minted[s] = ut.minted[s] /\ tu.stranded[s] = ut.stranded[s]
    OBVIOUS
  <2>1. /\ nt.minted[s] = n.minted[s] + i[s] /\ nu.minted[s] = n.minted[s] + j[s]
        /\ ut.minted[s] = nu.minted[s] + i[s] /\ tu.minted[s] = nt.minted[s] + j[s]
    BY <1>6, <1>7 DEF Adds
  <2>2. /\ nt.stranded[s] = n.stranded[s] + x[s] /\ nu.stranded[s] = n.stranded[s] + y[s]
        /\ ut.stranded[s] = nu.stranded[s] + x[s] /\ tu.stranded[s] = nt.stranded[s] + y[s]
    BY <1>6, <1>7 DEF Adds
  <2> QED BY <1>11, <2>1, <2>2
<1>14. \A w \in Users : tu.nonce[w] = ut.nonce[w]
  <2> SUFFICES ASSUME NEW w \in Users PROVE tu.nonce[w] = ut.nonce[w]
    OBVIOUS
  <2> DEFINE p == IF w = t.from THEN c ELSE 0
             q == IF w = u.from THEN e ELSE 0
  <2>1. /\ nt.nonce[w] = n.nonce[w] + p /\ nu.nonce[w] = n.nonce[w] + q
        /\ ut.nonce[w] = nu.nonce[w] + p /\ tu.nonce[w] = nt.nonce[w] + q
    BY <1>6, <1>7 DEF Adds
  <2>2. p \in Int /\ q \in Int
    OBVIOUS
  <2> HIDE DEF p, q
  <2> QED BY <1>11, <2>1, <2>2
<1>15. tu.operators = ut.operators /\ tu.assets = ut.assets
  BY <1>6, <1>7 DEF Adds
<1>16. tu = ut
  <2>1. tu.balance = ut.balance
    BY <1>9, <1>12 DEF Nodes
  <2>2. tu.minted = ut.minted /\ tu.stranded = ut.stranded
    BY <1>9, <1>13 DEF Nodes
  <2>3. tu.nonce = ut.nonce
    BY <1>9, <1>14 DEF Nodes
  <2> QED BY <1>9, <1>10, <1>15, <2>1, <2>2, <2>3 DEF Nodes
<1> QED BY <1>8, <1>16 DEF Commutes, nt, nu, tu, ut

-------------------------------------------------------------------------------
(* The process *)

\* An empty database is sound.
LEMMA InitInv == Init => Inv
<1> SUFFICES ASSUME Init PROVE Sound(Empty)
  BY DEF Init, Inv
<1>1. Empty \in Nodes
  BY AccountAssumption DEF Empty, Nodes
<1>2. ASSUME NEW s \in Assets PROVE Total(Empty, s) = 0
  <2>1. \A u \in Users : Holdings(Empty, s)[u] = 0
    BY DEF Holdings, Empty
  <2>2. SumOver(Holdings(Empty, s), Users) = 0
    BY <2>1, SumZero, AccountAssumption
  <2> QED BY <1>1, <2>2, HoldingsType
<1>3. \A s \in Assets : Empty.minted[s] = 0 /\ Empty.stranded[s] = 0
  BY DEF Empty
<1> QED BY <1>1, <1>2, <1>3 DEF Sound, Supply

\* Every step leaves both states sound, and while the process runs it changes
\* another account's money and agents only in the allowed way.
LEMMA StepAllowed ==
  ASSUME Inv, [Next]_vars
  PROVE  Inv' /\ (up /\ up' => Allowed(node, node', actor'))
<1> USE DEF Inv
<1>1. CASE UNCHANGED vars
  BY <1>1, NothingAllowed DEF vars
<1>2. ASSUME NEW ops \in SUBSET Configurable, Start(ops)
      PROVE  Inv' /\ ~up
  <2> DEFINE m == InitializeBridgeOperators(InitializeAssets(saved), ops)
  <2>1. saved' = saved /\ node' = m /\ ~up
    BY <1>2 DEF Start
  <2>2. saved \in Nodes /\ Supply(saved)
    BY DEF Sound
  <2>3. m \in Nodes /\ m.balance = saved.balance /\ m.minted = saved.minted
        /\ m.stranded = saved.stranded
    BY <2>2, AccountAssumption
       DEF Nodes, InitializeBridgeOperators, InitializeAssets, SetAssets, SetBridgeOperators
  <2> HIDE DEF m
  <2>4. Sound(m)
    BY <2>2, <2>3, SupplySame DEF Sound
  <2> QED BY <2>1, <2>4
<1>3. ASSUME NEW t \in Txs, ExecuteTx(t)
      PROVE  Inv' /\ Allowed(node, node', actor')
  <2>1. saved' = saved /\ actor' = t.signer /\ node' = Execute(node, t).node
    BY <1>3 DEF ExecuteTx
  <2>2. Allowed(node, node', t.signer)
    BY <2>1, ExecuteAllowed
  <2> QED BY <2>1, <2>2 DEF Allowed
<1>4. ASSUME NEW t \in Txs, RpcSetAgent(t) \/ RpcRemoveAgent(t)
      PROVE  Inv' /\ Allowed(node, node', actor')
  <2>1. /\ saved' = saved /\ actor' = t.from /\ t.from \in Users
        /\ \/ t.payload.op = "SetAgent" /\ node' = SetAgent(node, t.from, t.payload)
           \/ t.payload.op = "RemoveAgent" /\ node' = RemoveAgent(node, t.from, t.payload)
    BY <1>4 DEF RpcSetAgent, RpcRemoveAgent, DecodeAndVerifyTx, VerifyTransaction, Txs
  <2>2. /\ t.payload.op \in {"SetAgent", "RemoveAgent"} => t.payload.agent \in Agents
        /\ t.payload.op = "SetAgent" => t.payload.permissions \in SUBSET Permissions
    <3>1. t.payload \in Payloads
      BY DEF Txs
    <3> QED BY <3>1 DEF Payloads
  <2>3. Allowed(node, node', t.from)
    BY <2>1, <2>2, AgentsAllowed
  <2> QED BY <2>1, <2>3 DEF Allowed
<1>5. CASE Commit
  <2>1. node' = node /\ saved' = [node EXCEPT !.agents = {}]
    BY <1>5 DEF Commit
  <2>2. node \in Nodes /\ Supply(node)
    BY DEF Sound
  <2>3. saved' \in Nodes /\ saved'.balance = node.balance /\ saved'.minted = node.minted
        /\ saved'.stranded = node.stranded
    BY <2>1, <2>2 DEF Nodes
  <2>4. Sound(saved')
    BY <2>2, <2>3, SupplySame DEF Sound
  <2> QED BY <2>1, <2>4, NothingAllowed
<1>6. CASE Crash
  BY <1>6 DEF Crash
<1> QED BY <1>1, <1>2, <1>3, <1>4, <1>5, <1>6 DEF Next

\* The state in memory and the one on disk are sound in every reachable state.
THEOREM AccountInvariant == Spec => []Inv
<1>1. Inv /\ [Next]_vars => Inv'
  BY StepAllowed
<1> QED BY <1>1, InitInv, PTL DEF Spec

\* No transaction, repeated, failing or half done, and no restart creates or loses
\* money that deposits, withdrawals and stranded transfers do not account for.
THEOREM SupplyHolds == Spec => []SupplyExplained
<1>1. Inv => SupplyExplained
  BY DEF Inv, Sound, Supply, SupplyExplained
<1> QED BY <1>1, AccountInvariant, PTL

\* Account transactions (not those that place or cancel orders or close positions)
\* that declare no conflict can be executed in either order, in every reachable
\* state and for any accounts, assets and amounts.
THEOREM AccountAccessesSuffice == Spec => []AccountTxsCommute
<1>1. Inv => AccountTxsCommute
  <2> SUFFICES ASSUME Inv, NEW t \in Candidates, NEW u \in Candidates, ~Conflict(t, u)
               PROVE  Commutes(node, t, u)
    BY DEF AccountTxsCommute
  <2>1. t \in Txs /\ u \in Txs /\ Runs(node, t) /\ Runs(node, u)
    BY DEF Candidates, Runs
  <2> QED BY <2>1, Commute DEF Inv
<1> QED BY <1>1, AccountInvariant, PTL

\* Nobody but the account itself changes its agents, and nobody but the account
\* itself or a configured bridge operator takes its money.
THEOREM OwnerActs == Spec => OnlyOwnerActs
<1> DEFINE A == (up /\ up') =>
                  \A a \in Users :
                    /\ (\E s \in Assets : node'.balance[a][s] < node.balance[a][s])
                          => actor' = a \/ actor' \in node.operators \cap Configurable
                    /\ {x \in node'.agents : x.account = a} # {x \in node.agents : x.account = a}
                          => actor' = a
<1>1. Inv /\ [Next]_vars => [A]_vars
  <2> SUFFICES ASSUME Inv, [Next]_vars, up, up', NEW a \in Users, actor' # a
               PROVE  /\ actor' \notin node.operators \cap Configurable =>
                           \A s \in Assets : ~(node'.balance[a][s] < node.balance[a][s])
                      /\ AgentsOf(node', a) = AgentsOf(node, a)
    BY DEF AgentsOf
  <2>1. Allowed(node, node', actor')
    BY StepAllowed
  <2>2. node.operators \subseteq Configurable /\ node \in Nodes /\ node' \in Nodes
    BY <2>1 DEF Inv, Sound, Nodes, Allowed
  <2>3. \A s \in Assets : node.balance[a][s] \in Nat /\ node'.balance[a][s] \in Nat
    BY <2>2, HoldingsType
  <2> QED BY <2>1, <2>2, <2>3 DEF Allowed
<1> QED BY <1>1, AccountInvariant, PTL DEF Spec, OnlyOwnerActs

-----------------------------------------------------------------------------
(***************************************************************************)
(* Funding. The history of the index, in memory and as committed, is a     *)
(* sequence in which every step is within the rate; what two distant       *)
(* records differ by is then the sum of the steps between them. Payments   *)
(* balance because rounding towards 0 splits a sum up to one unit.         *)
(***************************************************************************)

Records == [rate : Int, last : Nat, index : Int]

\* The step from one record to the next is within the highest rate.
WithinRate(r, s) ==
  FundingInterval > 0 =>
    Distance(r.index, s.index) * FundingInterval
      <= MaxFundingRateBps * TimeElapsed(r.last, s.last)

History(f, p) ==
  /\ p \in Seq(Records)
  /\ Len(p) > 0
  /\ f = p[Len(p)]
  /\ \A k \in 1 .. Len(p) - 1 : WithinRate(p[k], p[k + 1])

FundingInv ==
  History(funding, past) /\ History(savedFunding.funding, savedFunding.past)

\* The constants of the funding rate are naturals.
LEMMA Parameters ==
  /\ MaxFundingRateBps \in Nat /\ FundingInterval \in Nat
  /\ \A x \in Marks \cup Oracles \cup Timestamps \cup PositionSizes : x \in Nat
BY FundingAssumption

\* A rate is clamped before it is scaled by the time that passed.
LEMMA RateBounded ==
  ASSUME NEW mark \in Nat, NEW oracle \in Nat, NEW elapsed \in Nat,
         NEW r, r = CalculateFundingRate(mark, oracle, elapsed)
  PROVE  /\ r \in Int
         /\ FundingInterval > 0 =>
              Distance(0, r) * FundingInterval <= MaxFundingRateBps * elapsed
<1> DEFINE premium == (Distance(mark, oracle) * BASIS_POINTS) \div oracle
           clamped == Within(premium, MaxFundingRateBps)
           scaled  == IF FundingInterval = 0 THEN clamped
                      ELSE (clamped * elapsed) \div FundingInterval
<1>1. r = IF oracle = 0 THEN 0 ELSE IF mark >= oracle THEN scaled ELSE -scaled
  BY DEF CalculateFundingRate
<1>2. CASE oracle = 0
  <2>1. r = 0
    BY <1>1, <1>2
  <2>2. MaxFundingRateBps * elapsed >= 0
    BY Parameters
  <2> QED BY <2>1, <2>2, Parameters DEF Distance
<1>3. CASE oracle # 0
  <2>1. premium \in Nat
    <3>1. Distance(mark, oracle) * BASIS_POINTS \in Nat
      BY DEF Distance, BASIS_POINTS
    <3>2. \A x \in Nat, y \in Nat \ {0} : x \div y \in Nat
      OBVIOUS
    <3> QED BY <1>3, <3>1, <3>2
  <2> HIDE DEF premium
  <2>2. clamped \in Nat /\ clamped <= MaxFundingRateBps
    BY <2>1, Parameters DEF Within
  <2> HIDE DEF clamped
  <2>3. scaled \in Nat /\ (FundingInterval > 0 =>
                             scaled * FundingInterval <= MaxFundingRateBps * elapsed)
    <3>1. clamped * elapsed \in Nat /\ MaxFundingRateBps * elapsed \in Nat
          /\ clamped * elapsed <= MaxFundingRateBps * elapsed
      BY <2>2, Parameters
    <3>2. \A x \in Nat, y \in Nat \ {0} : x \div y \in Nat /\ (x \div y) * y <= x
      OBVIOUS
    <3>3. CASE FundingInterval = 0
      BY <2>2, <3>3
    <3>4. CASE FundingInterval # 0
      <4> DEFINE x == clamped * elapsed
      <4>1. scaled = x \div FundingInterval /\ FundingInterval \in Nat \ {0}
        BY <3>4, Parameters
      <4> HIDE DEF scaled, x
      <4>2. scaled \in Nat /\ scaled * FundingInterval <= x
        BY <3>1, <3>2, <4>1 DEF x
      <4>3. scaled * FundingInterval \in Nat
        BY <4>1, <4>2
      <4> DEFINE y == scaled * FundingInterval
                 z == MaxFundingRateBps * elapsed
      <4>4. y \in Nat /\ z \in Nat /\ x \in Nat /\ y <= x /\ x <= z
        BY <3>1, <4>2, <4>3 DEF x
      <4> HIDE DEF y, z
      <4>5. y <= z
        BY <4>4
      <4> QED BY <4>2, <4>5 DEF y, z
    <3> QED BY <3>3, <3>4
  <2>4. r = scaled \/ r = -scaled
    BY <1>1, <1>3
  <2> HIDE DEF scaled
  <2>5. r \in Int /\ Distance(0, r) = scaled
    BY <2>3, <2>4 DEF Distance
  <2> QED BY <2>3, <2>5
<1> QED BY <1>2, <1>3

\* One more record keeps a history a history.
LEMMA HistoryGrows ==
  ASSUME NEW f, NEW p, History(f, p), NEW mark \in Nat, NEW oracle \in Nat,
         NEW timestamp \in Nat, NEW rate,
         rate = CalculateFundingRate(mark, oracle, TimeElapsed(f.last, timestamp)),
         NEW g, g = [rate |-> rate, last |-> timestamp, index |-> f.index + rate]
  PROVE  History(g, Append(p, g))
<1>1. p \in Seq(Records) /\ Len(p) \in Nat /\ Len(p) > 0 /\ f = p[Len(p)]
      /\ f \in Records
  BY DEF History
<1>2. f.last \in Nat /\ f.index \in Int
  BY <1>1 DEF Records
<1>3. TimeElapsed(f.last, timestamp) \in Nat
  BY <1>2 DEF TimeElapsed
<1>4. /\ rate \in Int
      /\ FundingInterval > 0 =>
           Distance(0, rate) * FundingInterval
             <= MaxFundingRateBps * TimeElapsed(f.last, timestamp)
  BY <1>3, RateBounded
<1>5. g \in Records /\ g.index = f.index + rate /\ g.last = timestamp
  BY <1>2, <1>4 DEF Records
<1>6. WithinRate(f, g)
  <2>1. Distance(f.index, g.index) = Distance(0, rate)
    BY <1>2, <1>4, <1>5 DEF Distance
  <2> QED BY <1>4, <1>5, <2>1 DEF WithinRate
<1> DEFINE q == Append(p, g)
<1>7. /\ q \in Seq(Records) /\ Len(q) = Len(p) + 1 /\ q[Len(p) + 1] = g
      /\ \A k \in 1 .. Len(p) : q[k] = p[k]
  BY <1>1, <1>5
<1> HIDE DEF q
<1>8. \A k \in 1 .. Len(q) - 1 : WithinRate(q[k], q[k + 1])
  <2> SUFFICES ASSUME NEW k \in 1 .. Len(p) PROVE WithinRate(q[k], q[k + 1])
    BY <1>1, <1>7
  <2>1. CASE k = Len(p)
    <3>1. q[k] = f /\ q[k + 1] = g
      BY <1>1, <1>7, <2>1
    <3> QED BY <1>6, <3>1
  <2>2. CASE k < Len(p)
    <3>1. k \in 1 .. Len(p) - 1 /\ q[k] = p[k] /\ q[k + 1] = p[k + 1]
      BY <1>1, <1>7, <2>2
    <3>2. WithinRate(p[k], p[k + 1])
      BY <3>1 DEF History
    <3> QED BY <3>1, <3>2
  <2> QED BY <1>1, <2>1, <2>2
<1>9. History(g, q)
  BY <1>1, <1>7, <1>8 DEF History
<1> QED BY <1>9 DEF q

\* Every step keeps both histories within the rate.
LEMMA FundingStep == FundingInv /\ [FundingNext]_fundingVars => FundingInv'
<1> SUFFICES ASSUME FundingInv, [FundingNext]_fundingVars PROVE FundingInv'
  OBVIOUS
<1>1. ASSUME NEW mark \in Marks, NEW oracle \in Oracles, NEW timestamp \in Timestamps,
             UpdateFundingRate(mark, oracle, timestamp)
      PROVE  FundingInv'
  <2>1. mark \in Nat /\ oracle \in Nat /\ timestamp \in Nat
    BY Parameters
  <2> DEFINE rate == CalculateFundingRate(mark, oracle,
                                          TimeElapsed(funding.last, timestamp))
             g == [rate |-> rate, last |-> timestamp, index |-> funding.index + rate]
  <2>2. funding' = g /\ past' = Append(past, g) /\ savedFunding' = savedFunding
    BY <1>1 DEF UpdateFundingRate
  <2>3. History(g, Append(past, g))
    BY <2>1, HistoryGrows DEF FundingInv
  <2> HIDE DEF g
  <2> QED BY <2>2, <2>3 DEF FundingInv
<1>2. CASE CommitFunding
  <2>1. /\ savedFunding'.funding = funding /\ savedFunding'.past = past
        /\ funding' = funding /\ past' = past
    BY <1>2 DEF CommitFunding
  <2> QED BY <2>1 DEF FundingInv
<1>3. CASE CrashFunding
  BY <1>3 DEF CrashFunding, FundingInv
<1>4. CASE UNCHANGED fundingVars
  BY <1>4 DEF fundingVars, FundingInv
<1> QED BY <1>1, <1>2, <1>3, <1>4 DEF FundingNext

\* Both histories begin with the empty record.
LEMMA FundingStart == FundingInit => FundingInv
<1> SUFFICES ASSUME FundingInit PROVE FundingInv
  OBVIOUS
<1>1. NoFunding \in Records
  BY DEF NoFunding, Records
<1>2. History(NoFunding, <<NoFunding>>)
  BY <1>1 DEF History
<1> QED BY <1>2 DEF FundingInit, FundingInv

\* The steps between two records add up.
LEMMA StepsAddUp ==
  ASSUME NEW a \in Int, NEW b \in Int, NEW c \in Int, NEW n \in Nat, NEW m \in Nat,
         NEW s \in Nat, NEW e \in Nat,
         Distance(a, b) * n <= m * s, Distance(b, c) * n <= m * e
  PROVE  Distance(a, c) * n <= m * (s + e)
<1>1. /\ Distance(a, b) \in Nat /\ Distance(b, c) \in Nat /\ Distance(a, c) \in Nat
      /\ Distance(a, c) <= Distance(a, b) + Distance(b, c)
  BY DEF Distance
<1>2. ASSUME NEW x \in Nat, NEW y \in Nat, NEW z \in Nat, z <= x + y,
             x * n <= m * s, y * n <= m * e
      PROVE  z * n <= m * (s + e)
  <2>1. z * n <= (x + y) * n
    BY <1>2
  <2>2. (x + y) * n = x * n + y * n /\ m * (s + e) = m * s + m * e
    OBVIOUS
  <2>3. x * n \in Nat /\ y * n \in Nat /\ z * n \in Nat /\ m * s \in Nat /\ m * e \in Nat
    OBVIOUS
  <2> QED BY <1>2, <2>1, <2>2, <2>3
<1> QED BY <1>1, <1>2

\* Between any two updates the index moved by no more than the highest rate allows
\* for the time that passed forward in between, for any history of late, repeated
\* and reordered updates, commits and crashes.
THEOREM IndexFollowsRate == FundingSpec => []IndexWithinRate
<1>1. ASSUME FundingInv PROVE IndexWithinRate
  <2>0. /\ past \in Seq(Records)
        /\ \A k \in 1 .. Len(past) - 1 : WithinRate(past[k], past[k + 1])
        /\ \A k \in 1 .. Len(past) : past[k] \in Records
    BY <1>1 DEF FundingInv, History
  <2>1. /\ Len(past) \in Nat /\ DOMAIN past = 1 .. Len(past)
        /\ \A k \in 1 .. Len(past) - 1 : WithinRate(past[k], past[k + 1])
        /\ \A k \in 1 .. Len(past) : past[k].index \in Int /\ past[k].last \in Nat
    BY <2>0 DEF Records
  <2>2. \A k \in 1 .. Len(past) - 1 :
          /\ Elapsed[k] = TimeElapsed(past[k].last, past[k + 1].last)
          /\ Elapsed[k] \in Nat
    BY <2>1 DEF Elapsed, TimeElapsed
  <2> DEFINE M == MaxFundingRateBps
             N == FundingInterval
  <2>3. M \in Nat /\ N \in Nat
    BY Parameters
  <2>4. ASSUME NEW i \in 1 .. Len(past), N > 0
        PROVE  \A j \in i .. Len(past) :
                 Distance(past[i].index, past[j].index) * N
                   <= M * SumOver(Elapsed, i .. j - 1)
    <3> DEFINE Good(j) == Distance(past[i].index, past[j].index) * N
                            <= M * SumOver(Elapsed, i .. j - 1)
               Bad == {j \in i .. Len(past) : ~Good(j)}
    <3>1. SUFFICES ASSUME Bad # {} PROVE FALSE
      OBVIOUS
    <3>2. PICK j \in Bad : \A l \in Bad : j <= l
      <4>1. Bad \subseteq Nat
        BY <2>1
      <4> HIDE DEF Bad
      <4> QED BY <3>1, <4>1, NatMin
    <3>3. j \in i .. Len(past) /\ ~Good(j) /\ i \in Nat /\ j \in Nat
      BY <2>1, <3>2
    <3>4. Good(i)
      <4>1. i .. i - 1 = {}
        BY <2>1
      <4>2. SumOver(Elapsed, i .. i - 1) = 0
        BY <4>1, SumEmpty
      <4>3. Distance(past[i].index, past[i].index) = 0
        BY <2>1 DEF Distance
      <4> QED BY <2>3, <4>2, <4>3
    <3>5. j - 1 \in i .. Len(past) /\ j - 1 \in 1 .. Len(past) - 1 /\ j - 1 < j
      <4>1. j # i
        BY <3>3, <3>4
      <4> QED BY <2>1, <3>3, <4>1
    <3>6. Good(j - 1)
      <4> HIDE DEF Good
      <4>1. j - 1 \notin Bad
        BY <3>2, <3>3, <3>5
      <4> QED BY <3>5, <4>1
    <3> DEFINE S == i .. (j - 1) - 1
               l == j - 1
               sum == SumOver(Elapsed, S)
    <3>7. /\ IsFiniteSet(S) /\ l \notin S /\ S \cup {l} = i .. j - 1
          /\ \A k \in S : Elapsed[k] \in Nat
          /\ Elapsed[l] \in Nat
      <4>1. IsFiniteSet(S)
        BY <3>3, FS_Interval
      <4> QED BY <2>1, <2>2, <3>3, <3>5, <4>1
    <3>8. sum \in Nat /\ SumOver(Elapsed, i .. j - 1) = sum + Elapsed[l]
      <4> HIDE DEF S, l
      <4>1. SumOver(Elapsed, S) \in Nat
        BY <3>7, SumNat
      <4>0. Elapsed[l] \in Int /\ \A k \in S : Elapsed[k] \in Int
        BY <3>7
      <4>2. SumOver(Elapsed, S \cup {l}) = SumOver(Elapsed, S) + Elapsed[l]
        BY ONLY <3>7, <4>0, SumAdd
      <4> QED BY <3>7, <4>1, <4>2
    <3>9. Distance(past[l].index, past[j].index) * N <= M * Elapsed[l]
      <4>1. WithinRate(past[l], past[l + 1]) /\ l + 1 = j
        BY <2>1, <3>3, <3>5
      <4> QED BY <2>2, <2>4, <3>5, <4>1 DEF WithinRate
    <3>10. Distance(past[i].index, past[l].index) * N <= M * sum
      BY <3>6
    <3>11. past[i].index \in Int /\ past[j].index \in Int /\ past[l].index \in Int
      BY <2>1, <3>3, <3>5
    <3> HIDE DEF l, sum, M, N
    <3>12. Distance(past[i].index, past[j].index) * N <= M * (sum + Elapsed[l])
      BY <2>3, <3>7, <3>8, <3>9, <3>10, <3>11, StepsAddUp
    <3> QED BY <3>3, <3>8, <3>12
  <2>5. ASSUME NEW i \in DOMAIN past, NEW j \in DOMAIN past, i < j, N > 0
        PROVE  Distance(past[i].index, past[j].index) * N
                 <= M * MapThenSumSet(LAMBDA k : Elapsed[k], i .. j - 1)
    <3>1. i \in 1 .. Len(past) /\ j \in i .. Len(past)
      BY <2>1, <2>5
    <3>2. Distance(past[i].index, past[j].index) * N
            <= M * SumOver(Elapsed, i .. j - 1)
      BY <2>4, <2>5, <3>1
    <3> QED BY <3>2 DEF SumOver
  <2> QED BY <2>5 DEF IndexWithinRate
<1> QED BY <1>1, FundingStart, FundingStep, PTL DEF FundingSpec

-----------------------------------------------------------------------------

\* Rounding towards 0 and adding: one unit at most is lost.
LEMMA RoundingSplits ==
  ASSUME NEW a \in Int, NEW b \in Int
  PROVE  /\ TowardsZero(a) \in Int /\ TowardsZero(b) \in Int /\ TowardsZero(a + b) \in Int
         /\ TowardsZero(a) + TowardsZero(b) - TowardsZero(a + b) \in {-1, 0, 1}
BY DEF TowardsZero, BASIS_POINTS

\* What a long pays, net, is the distance of the index times its size; a short
\* receives it.
LEMMA NetPayment ==
  ASSUME NEW size \in Nat, NEW long \in BOOLEAN, NEW i, NEW j,
         past[i].index \in Int, past[j].index \in Int
  PROVE  LET t == TowardsZero(size * (past[j].index - past[i].index))
         IN  t \in Int /\ Net(size, long, i, j) = IF long THEN t ELSE -t
<1> DEFINE d == size * (past[j].index - past[i].index)
           t == TowardsZero(d)
           p == CalculateFundingPayment(size, long, past[i].index, past[j].index)
<1>1. d \in Int
  OBVIOUS
<1>2. past[j].index = past[i].index => d = 0
  OBVIOUS
<1>3. \/ past[j].index = past[i].index /\ p = [amount |-> 0, pays |-> TRUE]
      \/ t > 0 /\ p = [amount |-> t, pays |-> long]
      \/ t <= 0 /\ p = [amount |-> -t, pays |-> ~long]
  <2>1. t \in Int
    BY <1>1 DEF TowardsZero, BASIS_POINTS
  <2>2. CASE past[j].index = past[i].index
    BY <2>2, Zenon DEF CalculateFundingPayment
  <2>3. CASE past[j].index # past[i].index /\ t > 0
    <3>1. ~(t <= 0)
      BY <2>1, <2>3
    <3> QED BY <2>3, <3>1, Zenon DEF CalculateFundingPayment
  <2>4. CASE past[j].index # past[i].index /\ t <= 0
    <3>1. ~(t > 0)
      BY <2>1, <2>4
    <3> QED BY <2>4, <3>1, Zenon DEF CalculateFundingPayment
  <2> QED BY <2>1, <2>2, <2>3, <2>4
<1>4. Net(size, long, i, j) = IF p.pays THEN p.amount ELSE -p.amount
  BY DEF Net
<1> HIDE DEF d, p
<1>5. t \in Int /\ (d = 0 => t = 0)
  BY <1>1 DEF TowardsZero, BASIS_POINTS
<1>6. Net(size, long, i, j) = IF long THEN t ELSE -t
  <2> HIDE DEF t
  <2>1. CASE past[j].index = past[i].index /\ p = [amount |-> 0, pays |-> TRUE]
    <3>1. t = 0 /\ p.amount = 0 /\ p.pays = TRUE
      BY <1>2, <1>5, <2>1
    <3> QED BY <1>4, <3>1
  <2>2. CASE p = [amount |-> t, pays |-> long]
    <3>1. p.amount = t /\ p.pays = long
      BY <2>2, Zenon
    <3>2. Net(size, long, i, j) = IF long THEN p.amount ELSE -p.amount
      BY <1>4, <3>1, Zenon
    <3> QED BY <3>1, <3>2
  <2>3. CASE p = [amount |-> -t, pays |-> ~long]
    <3>1. p.amount = -t /\ p.pays = ~long
      BY <2>3, Zenon
    <3>2. Net(size, long, i, j) = IF long THEN -p.amount ELSE p.amount
      BY <1>4, <3>1, Zenon
    <3>3. Net(size, long, i, j) = IF long THEN -(-t) ELSE -t
      BY <3>1, <3>2
    <3> QED BY <1>5, <3>3
  <2> QED BY <1>3, <2>1, <2>2, <2>3, Zenon
<1> QED BY <1>5, <1>6 DEF d

\* Funding moves money between the two sides and makes none, over any stretch of any
\* history of the index and for positions of any size, up to one unit of rounding.
THEOREM FundingBalances == FundingSpec => []PaymentsBalance
<1>1. ASSUME FundingInv PROVE PaymentsBalance
  <2>0. \A k \in DOMAIN past : past[k] \in Records
    BY <1>1 DEF FundingInv, History
  <2>1. \A k \in DOMAIN past : past[k].index \in Int
    BY <2>0 DEF Records
  <2> SUFFICES ASSUME NEW i \in DOMAIN past, NEW j \in DOMAIN past,
                      NEW m \in PositionSizes, NEW n \in PositionSizes,
                      NEW long \in BOOLEAN, i <= j
               PROVE  /\ Distance(Net(m, long, i, j) + Net(n, long, i, j),
                                  -Net(m + n, ~long, i, j)) <= 1
                      /\ \A k \in i .. j :
                           Distance(Net(m, long, i, k) + Net(m, long, k, j),
                                    Net(m, long, i, j)) <= 1
    BY DEF PaymentsBalance
  <2>2. m \in Nat /\ n \in Nat /\ m + n \in Nat /\ (~long) \in BOOLEAN
    BY Parameters
  <2> DEFINE T(size, from, to) == TowardsZero(size * (past[to].index - past[from].index))
  <2>3. \A size \in Nat, from, to \in DOMAIN past, side \in BOOLEAN :
          /\ T(size, from, to) \in Int
          /\ Net(size, side, from, to) = IF side THEN T(size, from, to)
                                         ELSE -T(size, from, to)
    BY <2>1, NetPayment
  <2>4. Distance(Net(m, long, i, j) + Net(n, long, i, j), -Net(m + n, ~long, i, j)) <= 1
    <3> DEFINE d == past[j].index - past[i].index
    <3>1. m * d \in Int /\ n * d \in Int /\ m * d + n * d = (m + n) * d
      <4>1. d \in Int
        BY <2>1
      <4> HIDE DEF d
      <4> QED BY <2>2, <4>1
    <3>2. /\ T(m, i, j) + T(n, i, j) - T(m + n, i, j) \in {-1, 0, 1}
          /\ T(m, i, j) \in Int /\ T(n, i, j) \in Int /\ T(m + n, i, j) \in Int
      BY <3>1, RoundingSplits
    <3>3. /\ Net(m, long, i, j) = IF long THEN T(m, i, j) ELSE -T(m, i, j)
          /\ Net(n, long, i, j) = IF long THEN T(n, i, j) ELSE -T(n, i, j)
          /\ Net(m + n, ~long, i, j) = IF ~long THEN T(m + n, i, j) ELSE -T(m + n, i, j)
      BY <2>2, <2>3
    <3> HIDE DEF T
    <3> QED BY <3>2, <3>3 DEF Distance
  <2>5. ASSUME NEW k \in i .. j
        PROVE  Distance(Net(m, long, i, k) + Net(m, long, k, j), Net(m, long, i, j)) <= 1
    <3>1. k \in DOMAIN past
      BY <1>1 DEF FundingInv, History
    <3> DEFINE d == past[k].index - past[i].index
               e == past[j].index - past[k].index
    <3>2. m * d \in Int /\ m * e \in Int
          /\ m * d + m * e = m * (past[j].index - past[i].index)
      <4>1. d \in Int /\ e \in Int /\ past[j].index - past[i].index = d + e
        BY <2>1, <3>1
      <4> HIDE DEF d, e
      <4> QED BY <2>2, <4>1
    <3>3. /\ T(m, i, k) + T(m, k, j) - T(m, i, j) \in {-1, 0, 1}
          /\ T(m, i, k) \in Int /\ T(m, k, j) \in Int /\ T(m, i, j) \in Int
      BY <3>2, RoundingSplits
    <3>4. /\ Net(m, long, i, k) = IF long THEN T(m, i, k) ELSE -T(m, i, k)
          /\ Net(m, long, k, j) = IF long THEN T(m, k, j) ELSE -T(m, k, j)
          /\ Net(m, long, i, j) = IF long THEN T(m, i, j) ELSE -T(m, i, j)
      BY <2>2, <2>3, <3>1
    <3> HIDE DEF T
    <3> QED BY <3>3, <3>4 DEF Distance
  <2> QED BY <2>4, <2>5
<1> QED BY <1>1, FundingStart, FundingStep, PTL DEF FundingSpec

-----------------------------------------------------------------------------
(***************************************************************************)
(* The event log. What is buffered was appended, so a flush writes nothing *)
(* that the in-memory store does not hold; a key can be written several    *)
(* times but is counted each time, so the counter is never too small.      *)
(***************************************************************************)

EventTypes ==
  /\ mem \in Seq(Events) /\ buffer \in Seq(Events)
  /\ count \in Nat /\ lost \in Nat
  /\ IsFiniteSet(DOMAIN stored)

EventInv == EventTypes /\ EventsAccounted /\ Range(buffer) \subseteq Range(mem)

\* Concatenation adds lengths and joins ranges.
LEMMA ConcatRange ==
  ASSUME NEW s \in Seq(Events), NEW t \in Seq(Events)
  PROVE  /\ s \o t \in Seq(Events) /\ Len(s \o t) = Len(s) + Len(t)
         /\ Range(s \o t) = Range(s) \cup Range(t)
         /\ \A i \in 1 .. Len(s) + Len(t) :
              (s \o t)[i] = IF i <= Len(s) THEN s[i] ELSE t[i - Len(s)]
<1> DEFINE u == s \o t
<1>1. /\ u \in Seq(Events) /\ Len(u) = Len(s) + Len(t)
      /\ \A i \in 1 .. Len(s) + Len(t) :
           u[i] = IF i <= Len(s) THEN s[i] ELSE t[i - Len(s)]
  BY ConcatProperties
<1>2. /\ DOMAIN u = 1 .. Len(s) + Len(t) /\ DOMAIN s = 1 .. Len(s)
      /\ DOMAIN t = 1 .. Len(t) /\ Len(s) \in Nat /\ Len(t) \in Nat
  BY <1>1
<1> HIDE DEF u
<1>3. ASSUME NEW i \in DOMAIN u PROVE u[i] \in Range(s) \cup Range(t)
  <2>1. CASE i <= Len(s)
    <3>1. u[i] = s[i] /\ i \in DOMAIN s
      BY <1>1, <1>2, <2>1
    <3> QED BY <3>1 DEF Range
  <2>2. CASE ~(i <= Len(s))
    <3>1. u[i] = t[i - Len(s)] /\ i - Len(s) \in DOMAIN t
      BY <1>1, <1>2, <2>2
    <3> QED BY <3>1 DEF Range
  <2> QED BY <2>1, <2>2
<1>4. ASSUME NEW i \in DOMAIN s PROVE s[i] \in Range(u)
  <2>1. i \in DOMAIN u /\ u[i] = s[i]
    BY <1>1, <1>2
  <2> QED BY <2>1 DEF Range
<1>5. ASSUME NEW i \in DOMAIN t PROVE t[i] \in Range(u)
  <2>1. i + Len(s) \in DOMAIN u /\ u[i + Len(s)] = t[(i + Len(s)) - Len(s)]
        /\ (i + Len(s)) - Len(s) = i
    BY <1>1, <1>2
  <2> QED BY <2>1 DEF Range
<1>6. Range(u) = Range(s) \cup Range(t)
  BY <1>3, <1>4, <1>5 DEF Range
<1> QED BY <1>1, <1>6 DEF u

\* The value that a batch leaves under a key is the last one put there.
LEMMA LastPutIsLast ==
  ASSUME NEW batch \in Seq(Events), NEW k \in {Key(e) : e \in Range(batch)}
  PROVE  \E l \in 1 .. Len(batch) :
            /\ LastPut(batch, k) = batch[l] /\ Key(batch[l]) = k
            /\ \A j \in l + 1 .. Len(batch) : Key(batch[j]) # k
<1>1. Len(batch) \in Nat /\ DOMAIN batch = 1 .. Len(batch)
  OBVIOUS
<1> DEFINE n == Len(batch)
           I == {i \in 1 .. n : Key(batch[i]) = k}
           D == {n - i : i \in I}
<1>2. I # {} /\ D # {} /\ D \subseteq Nat
  BY <1>1 DEF Range
<1>3. PICK m \in D : \A x \in D : m <= x
  <2> HIDE DEF D
  <2> QED BY <1>2, NatMin
<1>4. PICK i \in I : m = n - i
  BY <1>3
<1>5. ASSUME NEW j \in i + 1 .. n PROVE Key(batch[j]) # k
  <2>1. i \in 1 .. n /\ j \in 1 .. n /\ n - j < n - i
    BY <1>1, <1>5
  <2>2. n - i <= n - j => FALSE
    BY <1>1, <2>1
  <2>3. n - j \in D => n - i <= n - j
    <3> HIDE DEF D, n
    <3> QED BY <1>3, <1>4
  <2>4. j \in I => n - j \in D
    <3> HIDE DEF I, n
    <3> QED OBVIOUS
  <2> QED BY <2>1, <2>2, <2>3, <2>4
<1>6. \E l \in DOMAIN batch :
        Key(batch[l]) = k /\ \A j \in l + 1 .. Len(batch) : Key(batch[j]) # k
  BY <1>1, <1>4, <1>5
<1> QED BY <1>1, <1>6 DEF LastPut

\* The keys of a batch, and the value that the batch leaves under each.
LEMMA BatchKeys ==
  ASSUME NEW batch \in Seq(Events), NEW K, K = {Key(e) : e \in Range(batch)}
  PROVE  /\ IsFiniteSet(K) /\ Cardinality(K) <= Len(batch)
         /\ \A k \in K : LastPut(batch, k) \in Range(batch)
<1>1. Len(batch) \in Nat /\ DOMAIN batch = 1 .. Len(batch)
  OBVIOUS
<1>2. IsFiniteSet(K) /\ Cardinality(K) <= Len(batch)
  <2> DEFINE g == [i \in 1 .. Len(batch) |-> Key(batch[i])]
  <2>1. g \in Surjection(1 .. Len(batch), K)
    <3>1. \A i \in 1 .. Len(batch) : Key(batch[i]) \in K
      BY <1>1 DEF Range
    <3>2. \A k \in K : \E i \in 1 .. Len(batch) : Key(batch[i]) = k
      BY <1>1 DEF Range
    <3> QED BY <3>1, <3>2 DEF Surjection
  <2>2. IsFiniteSet(1 .. Len(batch)) /\ Cardinality(1 .. Len(batch)) = Len(batch)
    BY <1>1, FS_Interval
  <2> HIDE DEF g
  <2> QED BY <2>1, <2>2, FS_Surjection
<1>3. ASSUME NEW k \in K PROVE LastPut(batch, k) \in Range(batch)
  BY <1>1, LastPutIsLast DEF Range
<1> QED BY <1>2, <1>3

\* A flush, whether the write succeeds or fails.
LEMMA FlushKeeps ==
  ASSUME EventInv, NEW batch \in Seq(Events), FlushBatch(batch),
         mem' \in Seq(Events), Range(mem) \subseteq Range(mem'),
         Range(batch) \subseteq Range(mem'), count + Len(batch) + lost = Len(mem')
  PROVE  EventInv'
<1>1. buffer' = <<>> /\ buffer' \in Seq(Events) /\ Len(buffer') = 0
      /\ Range(buffer') = {}
  <2>1. buffer' = <<>>
    BY DEF FlushBatch
  <2> QED BY <2>1 DEF Range
<1>2. Len(batch) \in Nat /\ count \in Nat /\ lost \in Nat
  BY DEF EventInv, EventTypes
<1>3. CASE WriteFails(batch)
  <2>1. /\ lost' = lost + Len(batch)
        /\ UNCHANGED <<stored, blockIndex, txIndex, count>>
    BY <1>3 DEF WriteFails
  <2> QED BY <1>1, <1>2, <2>1 DEF EventInv, EventTypes, EventsAccounted
<1>4. CASE WriteBatch(batch)
  <2> DEFINE K == {Key(e) : e \in Range(batch)}
  <2>1. /\ stored' = [k \in DOMAIN stored \cup K |->
                        IF k \in K THEN LastPut(batch, k) ELSE stored[k]]
        /\ blockIndex' = blockIndex \cup K
        /\ txIndex' = txIndex \cup {<<e.tx, e.index>> : e \in Range(batch)}
        /\ count' = count + Len(batch) /\ lost' = lost
    BY <1>4 DEF WriteBatch
  <2>2. /\ IsFiniteSet(K) /\ Cardinality(K) <= Len(batch)
        /\ \A k \in K : LastPut(batch, k) \in Range(batch)
    BY BatchKeys
  <2>3. /\ IsFiniteSet(DOMAIN stored) /\ Cardinality(DOMAIN stored) <= count
        /\ blockIndex = DOMAIN stored
        /\ txIndex = {<<k[2], k[3]>> : k \in DOMAIN stored}
        /\ Range(stored) \subseteq Range(mem)
        /\ count + Len(buffer) + lost = Len(mem)
    BY DEF EventInv, EventTypes, EventsAccounted
  <2>4. \A e : Key(e)[2] = e.tx /\ Key(e)[3] = e.index
    BY DEF Key
  <2>5. {<<e.tx, e.index>> : e \in Range(batch)} = {<<k[2], k[3]>> : k \in K}
    <3>1. \A e \in Range(batch) : Key(e) \in K
      OBVIOUS
    <3>2. \A k \in K : \E e \in Range(batch) : k = Key(e)
      OBVIOUS
    <3> HIDE DEF K
    <3> QED BY <2>4, <3>1, <3>2
  <2> HIDE DEF K
  <2>6. DOMAIN stored' = DOMAIN stored \cup K
    BY <2>1
  <2>7. /\ IsFiniteSet(DOMAIN stored')
        /\ Cardinality(DOMAIN stored') <= count'
    <3> DEFINE S == DOMAIN stored
    <3>1. /\ IsFiniteSet(S \cup K)
          /\ Cardinality(S \cup K) = Cardinality(S) + Cardinality(K) - Cardinality(S \cap K)
      BY <2>2, <2>3, FS_Union
    <3>2. IsFiniteSet(S \cap K)
      BY <2>3, FS_Intersection
    <3>3. Cardinality(S) \in Nat /\ Cardinality(K) \in Nat /\ Cardinality(S \cap K) \in Nat
      BY <2>2, <2>3, <3>2, FS_CardinalityType
    <3> QED BY <1>2, <2>1, <2>2, <2>3, <2>6, <3>1, <3>3
  <2>8. blockIndex' = DOMAIN stored'
    BY <2>1, <2>3, <2>6
  <2>9. txIndex' = {<<k[2], k[3]>> : k \in DOMAIN stored'}
    BY <2>1, <2>3, <2>5, <2>6
  <2>10. Range(stored') \subseteq Range(mem')
    <3> SUFFICES ASSUME NEW k \in DOMAIN stored' PROVE stored'[k] \in Range(mem')
      BY DEF Range
    <3>1. CASE k \in K
      BY <2>1, <2>2, <2>6, <3>1
    <3>2. CASE k \notin K
      <4>1. k \in DOMAIN stored /\ stored'[k] = stored[k]
        BY <2>1, <2>6, <3>2
      <4>2. stored[k] \in Range(stored)
        BY <4>1 DEF Range
      <4> QED BY <2>3, <4>1, <4>2
    <3> QED BY <3>1, <3>2
  <2>11. count' + Len(buffer') + lost' = Len(mem')
    BY <1>1, <1>2, <2>1
  <2>12. count' \in Nat /\ lost' \in Nat
    BY <1>2, <2>1
  <2>13. EventTypes'
    BY <1>1, <2>7, <2>12 DEF EventTypes
  <2>14. EventsAccounted'
    BY <1>1, <2>7, <2>8, <2>9, <2>10, <2>11 DEF EventsAccounted
  <2>15. Range(buffer') \subseteq Range(mem')
    BY <1>1
  <2> QED BY <2>13, <2>14, <2>15 DEF EventInv
<1> QED BY <1>3, <1>4 DEF FlushBatch

\* The events of one transaction, as they are appended.
LEMMA TakenEvents ==
  ASSUME NEW h \in Heights, NEW t \in Hashes, NEW n \in 1 .. MaxPerTx,
         NEW emitted \in [1 .. n -> SUBSET Addresses],
         NEW events, events = TakeEvents(h, t, emitted)
  PROVE  /\ n \in Nat /\ events \in Seq(Events) /\ Len(events) = n
         /\ \A i \in 1 .. n : Key(events[i]) = <<h, t, i - 1>>
         /\ \A i \in 1 .. n : events[i].block = h /\ events[i].tx = t /\ events[i].index = i - 1
<1>1. n \in Nat
  <2>1. {BufferLimit, MaxPerTx, MaxEvents, MaxFaults} \subseteq Nat
    BY EventAssumption
  <2>2. MaxPerTx \in Nat
    BY <2>1
  <2> QED BY ONLY <2>2, n \in 1 .. MaxPerTx
<1>2. emitted \in Seq(SUBSET Addresses) /\ Len(emitted) = n
  BY <1>1
<1>3. events = [i \in 1 .. n |-> [block |-> h, tx |-> t, index |-> i - 1,
                                  parties |-> emitted[i]]]
  BY <1>2 DEF TakeEvents
<1>4. \A i \in 1 .. n : [block |-> h, tx |-> t, index |-> i - 1,
                         parties |-> emitted[i]] \in Events
  BY <1>1 DEF Events
<1>5. events \in [1 .. n -> Events]
  BY <1>3, <1>4
<1>6. events \in Seq(Events) /\ Len(events) = n
  BY <1>1, <1>5
<1>7. \A i \in 1 .. n : events[i].block = h /\ events[i].tx = t /\ events[i].index = i - 1
  BY <1>3
<1>8. \A i \in 1 .. n : Key(events[i]) = <<h, t, i - 1>>
  BY <1>7 DEF Key
<1> QED BY <1>1, <1>6, <1>7, <1>8

\* append(), with or without the flush it triggers.
LEMMA AppendKeeps ==
  ASSUME EventInv, NEW h \in Heights, NEW t \in Hashes, NEW n \in 1 .. MaxPerTx,
         NEW emitted \in [1 .. n -> SUBSET Addresses], AppendEvents(h, t, emitted)
  PROVE  EventInv'
<1> DEFINE events == TakeEvents(h, t, emitted)
           full   == buffer \o events
<1>2. events \in Seq(Events)
  BY TakenEvents
<1> HIDE DEF events
<1>3. mem \in Seq(Events) /\ buffer \in Seq(Events) /\ Range(buffer) \subseteq Range(mem)
      /\ count + Len(buffer) + lost = Len(mem) /\ count \in Nat /\ lost \in Nat
  BY DEF EventInv, EventTypes, EventsAccounted
<1>4. mem' = mem \o events
  BY DEF AppendEvents, MemAppend, events
<1>5. /\ mem' \in Seq(Events) /\ Len(mem') = Len(mem) + Len(events)
      /\ Range(mem') = Range(mem) \cup Range(events)
  BY <1>2, <1>3, <1>4, ConcatRange
<1>6. /\ full \in Seq(Events) /\ Len(full) = Len(buffer) + Len(events)
      /\ Range(full) = Range(buffer) \cup Range(events)
  BY <1>2, <1>3, ConcatRange
<1>7. \/ FlushBatch(full)
      \/ /\ Len(full) < BufferLimit /\ buffer' = full
         /\ UNCHANGED <<stored, blockIndex, txIndex, count, lost, faults>>
  BY DEF AppendEvents, events
<1> HIDE DEF full
<1>8. Len(events) \in Nat /\ Len(buffer) \in Nat /\ Len(mem) \in Nat
  BY <1>2, <1>3
<1>9. /\ Range(mem) \subseteq Range(mem') /\ Range(full) \subseteq Range(mem')
      /\ count + Len(full) + lost = Len(mem')
  <2>1. Range(mem) \subseteq Range(mem') /\ Range(full) \subseteq Range(mem')
    BY <1>3, <1>5, <1>6
  <2>2. /\ Len(full) = Len(buffer) + Len(events)
        /\ Len(mem') = Len(mem) + Len(events)
        /\ count + Len(buffer) + lost = Len(mem)
        /\ count \in Nat /\ lost \in Nat
    BY <1>3, <1>5, <1>6
  <2>3. count + Len(full) + lost = Len(mem')
    BY ONLY <1>8, <2>2
  <2> QED BY <2>1, <2>3
<1>10. CASE FlushBatch(full)
  BY ONLY EventInv, <1>5, <1>6, <1>9, <1>10, FlushKeeps
<1>11. CASE /\ Len(full) < BufferLimit /\ buffer' = full
            /\ UNCHANGED <<stored, blockIndex, txIndex, count, lost, faults>>
  <2>1. EventTypes'
    BY <1>5, <1>6, <1>11 DEF EventInv, EventTypes
  <2>2. EventsAccounted'
    BY <1>9, <1>11 DEF EventInv, EventsAccounted
  <2> QED BY <1>9, <1>11, <2>1, <2>2 DEF EventInv
<1> QED BY <1>7, <1>10, <1>11

\* Initially the log is empty.
LEMMA EventStart == EventInit => EventInv
<1> SUFFICES ASSUME EventInit PROVE EventInv
  OBVIOUS
<1>1. IsFiniteSet({}) /\ Cardinality({}) = 0
  BY FS_EmptySet
<1>2. mem = <<>> /\ buffer = <<>> /\ stored = <<>> /\ count = 0 /\ lost = 0
      /\ blockIndex = {} /\ txIndex = {}
  BY DEF EventInit
<1>3. DOMAIN stored = {} /\ Range(buffer) = {} /\ Range(stored) = {}
  BY <1>2 DEF Range
<1>4. EventTypes
  BY <1>1, <1>2, <1>3 DEF EventTypes
<1>5. EventsAccounted
  BY <1>1, <1>2, <1>3 DEF EventsAccounted
<1> QED BY <1>3, <1>4, <1>5 DEF EventInv

\* Every step keeps the account of the events.
LEMMA EventStep == EventInv /\ [EventNext]_eventVars => EventInv'
<1> SUFFICES ASSUME EventInv, [EventNext]_eventVars PROVE EventInv'
  OBVIOUS
<1>1. ASSUME Flush PROVE EventInv'
  <2>1. mem' = mem /\ FlushBatch(buffer) /\ buffer \in Seq(Events)
        /\ mem' \in Seq(Events) /\ Range(buffer) \subseteq Range(mem')
        /\ Range(mem) \subseteq Range(mem')
        /\ count + Len(buffer) + lost = Len(mem')
    BY <1>1 DEF Flush, EventInv, EventTypes, EventsAccounted
  <2> QED BY ONLY EventInv, <2>1, FlushKeeps
<1>2. ASSUME LoseBuffer PROVE EventInv'
  <2>1. /\ lost' = lost + Len(buffer) /\ buffer' = <<>>
        /\ UNCHANGED <<stored, blockIndex, txIndex, count, mem>>
    BY <1>2 DEF LoseBuffer
  <2>2. Len(buffer') = 0 /\ buffer' \in Seq(Events) /\ Range(buffer') = {}
    BY <2>1 DEF Range
  <2>3. Len(buffer) \in Nat /\ count \in Nat /\ lost \in Nat
    BY DEF EventInv, EventTypes
  <2>4. EventTypes'
    BY <2>1, <2>2, <2>3 DEF EventInv, EventTypes
  <2>5. EventsAccounted'
    BY <2>1, <2>2, <2>3 DEF EventInv, EventsAccounted
  <2> QED BY <2>2, <2>4, <2>5 DEF EventInv
<1>3. CASE UNCHANGED eventVars
  BY <1>3 DEF eventVars, EventInv, EventTypes, EventsAccounted
<1> QED BY <1>1, <1>2, <1>3, AppendKeeps DEF EventNext

\* Every event appended is counted on disk, buffered, or was taken by a failed write
\* or a crash; the counter covers the stored events and both indexes lead to exactly
\* those: for any blocks, transactions and repetitions.
THEOREM EventsAreAccounted == EventSpec => []EventsAccounted
<1>1. EventInv => EventsAccounted
  BY DEF EventInv
<1> QED BY <1>1, EventStart, EventStep, PTL DEF EventSpec

-----------------------------------------------------------------------------
(***************************************************************************)
(* What the log holds, beyond the account of it: each event under its own  *)
(* key, the first appends on disk and the others in the buffer, numbers    *)
(* without a gap, in their order unless a transaction ran twice.           *)
(***************************************************************************)

\* Every stored event is under its own key.
Named == \A k \in DOMAIN stored : Key(stored[k]) = k

\* While nothing was lost, the disk holds what the first appends left under each
\* key, and the buffer holds the others.
FlushedPrefix ==
  /\ \A i \in 1 .. Len(buffer) : buffer[i] = mem[count + i]
  /\ DOMAIN stored = {Key(mem[i]) : i \in 1 .. count}
  /\ \A k \in DOMAIN stored :
       \E i \in 1 .. count :
         mem[i] = stored[k] /\ \A j \in i + 1 .. count : Key(mem[j]) # k

\* The events of a transaction in a block are numbered from 0 without a gap.
Numbered ==
  \A i \in DOMAIN mem : \A m \in 0 .. mem[i].index - 1 :
    \E j \in DOMAIN mem : Key(mem[j]) = <<mem[i].block, mem[i].tx, m>>

\* Unless it ran twice in a block, they were appended in the order of their numbers.
OneRun ==
  NoRepeat =>
    \A i, j \in DOMAIN mem :
      i < j /\ mem[i].block = mem[j].block /\ mem[i].tx = mem[j].tx
        => mem[i].index < mem[j].index

LogInv == Named /\ (lost = 0 => FlushedPrefix) /\ Numbered /\ OneRun

\* A key is three numbers, and names the place of its event.
LEMMA KeyFields ==
  ASSUME NEW d \in Events, NEW e \in Events
  PROVE  /\ d.block \in Nat /\ d.tx \in Nat /\ d.index \in Nat
         /\ Key(d)[1] = d.block /\ Key(d)[2] = d.tx /\ Key(d)[3] = d.index
         /\ Key(d) = Key(e) <=> d.block = e.block /\ d.tx = e.tx /\ d.index = e.index
<1>1. d.block \in Heights /\ d.tx \in Hashes /\ d.index \in Nat
  BY DEF Events
<1>2. Heights \subseteq Nat
  BY EventAssumption
<1>3. Hashes \subseteq Nat
  BY EventAssumption
<1>4. d.block \in Nat /\ d.tx \in Nat
  BY ONLY <1>1, <1>2, <1>3
<1>5. Key(d)[1] = d.block /\ Key(d)[2] = d.tx /\ Key(d)[3] = d.index
  BY DEF Key
<1>6. Key(e)[1] = e.block /\ Key(e)[2] = e.tx /\ Key(e)[3] = e.index
  BY DEF Key
<1>7. Key(d) = Key(e) => d.block = e.block /\ d.tx = e.tx /\ d.index = e.index
  BY <1>5, <1>6
<1>8. d.block = e.block /\ d.tx = e.tx /\ d.index = e.index => Key(d) = Key(e)
  BY DEF Key
<1> QED BY <1>1, <1>4, <1>5, <1>7, <1>8

\* A batch that is written.
LEMMA WriteKeepsLog ==
  ASSUME EventInv, LogInv, NEW batch \in Seq(Events), WriteBatch(batch), buffer' = <<>>,
         mem' \in Seq(Events), Len(mem) <= Len(mem'), \A i \in 1 .. Len(mem) : mem'[i] = mem[i],
         lost = 0 => \A i \in 1 .. Len(batch) : batch[i] = mem'[count + i]
  PROVE  Named' /\ (lost' = 0 => FlushedPrefix')
<1> DEFINE K == {Key(e) : e \in Range(batch)}
<1>1. /\ stored' = [k \in DOMAIN stored \cup K |->
                      IF k \in K THEN LastPut(batch, k) ELSE stored[k]]
      /\ count' = count + Len(batch) /\ lost' = lost
  BY DEF WriteBatch
<1>2. /\ mem \in Seq(Events) /\ buffer \in Seq(Events) /\ count \in Nat /\ lost \in Nat
      /\ count + Len(buffer) + lost = Len(mem)
  BY DEF EventInv, EventTypes, EventsAccounted
<1>3. Len(batch) \in Nat /\ Len(mem) \in Nat /\ Len(buffer) \in Nat /\ count <= Len(mem)
      /\ DOMAIN batch = 1 .. Len(batch) /\ Len(buffer') = 0
  BY <1>2
<1>4. \A k \in K : \E l \in 1 .. Len(batch) :
         /\ LastPut(batch, k) = batch[l] /\ Key(batch[l]) = k
         /\ \A j \in l + 1 .. Len(batch) : Key(batch[j]) # k
  BY LastPutIsLast
<1>5. \A l \in 1 .. Len(batch) : Key(batch[l]) \in K
  BY <1>3 DEF Range
<1> HIDE DEF K
<1>6. /\ DOMAIN stored' = DOMAIN stored \cup K
      /\ \A k \in DOMAIN stored \cup K :
           stored'[k] = IF k \in K THEN LastPut(batch, k) ELSE stored[k]
  BY <1>1
<1>7. Named'
  <2> SUFFICES ASSUME NEW k \in DOMAIN stored' PROVE Key(stored'[k]) = k
    BY DEF Named, Key
  <2> QED BY <1>4, <1>6 DEF LogInv, Named
<1>8. ASSUME lost' = 0 PROVE FlushedPrefix'
  <2>1. lost = 0 /\ FlushedPrefix
    BY <1>1, <1>8 DEF LogInv
  <2>2. \A i \in 1 .. count : mem'[i] = mem[i] /\ i \in 1 .. count'
    BY <1>1, <1>2, <1>3
  <2>3. \A l \in 1 .. Len(batch) : mem'[count + l] = batch[l] /\ count + l \in 1 .. count'
    BY <1>1, <1>2, <1>3, <2>1
  <2>4. \A i \in 1 .. count' : i \notin 1 .. count =>
           /\ i - count \in 1 .. Len(batch)
           /\ mem'[i] = batch[i - count]
    <3> TAKE i \in 1 .. count'
    <3> HAVE i \notin 1 .. count
    <3>1. i - count \in 1 .. Len(batch) /\ count + (i - count) = i
      BY <1>1, <1>2, <1>3
    <3> QED BY <2>3, <3>1
  <2>5. DOMAIN stored = {Key(mem[i]) : i \in 1 .. count}
    BY <2>1 DEF FlushedPrefix
  <2>6. \A i \in 1 .. count' : Key(mem'[i]) \in DOMAIN stored'
    <3> TAKE i \in 1 .. count'
    <3>1. CASE i \in 1 .. count
      BY <1>6, <2>2, <2>5, <3>1
    <3>2. CASE i \notin 1 .. count
      BY <1>5, <1>6, <2>4, <3>2
    <3> QED BY <3>1, <3>2
  <2>7. ASSUME NEW k \in DOMAIN stored'
        PROVE  \E i \in 1 .. count' :
                 /\ mem'[i] = stored'[k] /\ Key(mem'[i]) = k
                 /\ \A j \in i + 1 .. count' : Key(mem'[j]) # k
    <3>1. CASE k \in K
      <4>1. PICK l \in 1 .. Len(batch) :
               /\ LastPut(batch, k) = batch[l] /\ Key(batch[l]) = k
               /\ \A j \in l + 1 .. Len(batch) : Key(batch[j]) # k
        BY <1>4, <3>1
      <4>2. /\ count + l \in 1 .. count' /\ mem'[count + l] = stored'[k]
            /\ Key(mem'[count + l]) = k
        BY <1>6, <2>3, <3>1, <4>1
      <4>3. ASSUME NEW j \in count + l + 1 .. count' PROVE Key(mem'[j]) # k
        <5>1. j \in 1 .. count' /\ j \notin 1 .. count /\ j - count \in l + 1 .. Len(batch)
          BY <1>1, <1>2, <1>3
        <5>2. mem'[j] = batch[j - count]
          BY <2>4, <5>1
        <5> QED BY <4>1, <5>1, <5>2
      <4> QED BY <4>2, <4>3
    <3>2. CASE k \notin K
      <4>1. k \in DOMAIN stored /\ stored'[k] = stored[k]
        BY <1>6, <3>2
      <4>2. PICK i \in 1 .. count :
               mem[i] = stored[k] /\ \A j \in i + 1 .. count : Key(mem[j]) # k
        BY <2>1, <4>1 DEF FlushedPrefix
      <4>3. i \in 1 .. count' /\ mem'[i] = stored'[k] /\ Key(mem'[i]) = k
        BY <2>2, <4>1, <4>2 DEF LogInv, Named
      <4>4. ASSUME NEW j \in i + 1 .. count' PROVE Key(mem'[j]) # k
        <5>1. j \in 1 .. count'
          BY <1>1, <1>2, <1>3
        <5>2. CASE j \in 1 .. count
          <6>1. j \in i + 1 .. count
            BY <1>2, <5>2
          <6> QED BY <2>2, <4>2, <5>2, <6>1
        <5>3. CASE j \notin 1 .. count
          BY <1>5, <2>4, <3>2, <5>1, <5>3
        <5> QED BY <5>2, <5>3
      <4> QED BY <4>3, <4>4
    <3> QED BY <3>1, <3>2
  <2>8. DOMAIN stored' = {Key(mem'[i]) : i \in 1 .. count'}
    <3>1. \A k \in DOMAIN stored' : k \in {Key(mem'[i]) : i \in 1 .. count'}
      BY <2>7
    <3>2. \A k \in {Key(mem'[i]) : i \in 1 .. count'} : k \in DOMAIN stored'
      BY <2>6
    <3> QED BY <3>1, <3>2
  <2>9. FlushedPrefix' <=>
          /\ \A i \in 1 .. Len(buffer') : buffer'[i] = mem'[count' + i]
          /\ DOMAIN stored' = {Key(mem'[i]) : i \in 1 .. count'}
          /\ \A k \in DOMAIN stored' :
               \E i \in 1 .. count' :
                 mem'[i] = stored'[k] /\ \A j \in i + 1 .. count' : Key(mem'[j]) # k
    BY DEF FlushedPrefix, Key
  <2>10. \A i \in 1 .. Len(buffer') : buffer'[i] = mem'[count' + i]
    BY <1>3
  <2>11. \A k \in DOMAIN stored' :
           \E i \in 1 .. count' :
             mem'[i] = stored'[k] /\ \A j \in i + 1 .. count' : Key(mem'[j]) # k
    BY <2>7
  <2> QED BY <2>8, <2>9, <2>10, <2>11
<1> QED BY <1>7, <1>8

\* A flush, written or failed: what failed is counted as lost.
LEMMA FlushKeepsLog ==
  ASSUME EventInv, LogInv, NEW batch \in Seq(Events), FlushBatch(batch),
         mem' \in Seq(Events), Len(mem) <= Len(mem'), \A i \in 1 .. Len(mem) : mem'[i] = mem[i],
         lost = 0 => \A i \in 1 .. Len(batch) : batch[i] = mem'[count + i]
  PROVE  Named' /\ (lost' = 0 => FlushedPrefix')
<1>1. CASE WriteBatch(batch)
  <2>1. buffer' = <<>>
    BY DEF FlushBatch
  <2> QED BY <1>1, <2>1, WriteKeepsLog
<1>2. CASE WriteFails(batch)
  <2>1. stored' = stored /\ lost' = lost + Len(batch) /\ batch # <<>>
    BY <1>2 DEF FlushBatch, WriteFails
  <2>2. lost \in Nat /\ Len(batch) \in Nat /\ Len(batch) # 0
    BY <2>1, EmptySeq DEF EventInv, EventTypes
  <2>3. lost' # 0
    BY <2>1, <2>2
  <2> QED BY <2>1, <2>3 DEF LogInv, Named, Key
<1> QED BY <1>1, <1>2 DEF FlushBatch

\* Appending keeps what was there, without a flush.
LEMMA UnflushedKeepsLog ==
  ASSUME EventInv, LogInv, UNCHANGED <<stored, count, lost>>,
         mem' \in Seq(Events), Len(mem) <= Len(mem'), \A i \in 1 .. Len(mem) : mem'[i] = mem[i],
         lost = 0 => \A i \in 1 .. Len(buffer') : buffer'[i] = mem'[count + i]
  PROVE  Named' /\ (lost' = 0 => FlushedPrefix')
<1>1. Named'
  BY DEF LogInv, Named, Key
<1>2. ASSUME lost' = 0 PROVE FlushedPrefix'
  <2>1. FlushedPrefix /\ \A i \in 1 .. Len(buffer') : buffer'[i] = mem'[count + i]
    BY <1>2 DEF LogInv
  <2>2. /\ count \in Nat /\ Len(mem) \in Nat /\ Len(buffer) \in Nat /\ lost \in Nat
        /\ count + Len(buffer) + lost = Len(mem)
    BY DEF EventInv, EventTypes, EventsAccounted
  <2>3. \A i \in 1 .. count : mem'[i] = mem[i]
    BY <2>2
  <2>4. DOMAIN stored = {Key(mem'[i]) : i \in 1 .. count}
    BY <2>1, <2>3 DEF FlushedPrefix
  <2>5. ASSUME NEW k \in DOMAIN stored
        PROVE  \E i \in 1 .. count :
                 mem'[i] = stored[k] /\ \A j \in i + 1 .. count : Key(mem'[j]) # k
    <3>1. PICK i \in 1 .. count :
             mem[i] = stored[k] /\ \A j \in i + 1 .. count : Key(mem[j]) # k
      BY <2>1 DEF FlushedPrefix
    <3>2. \A j \in i + 1 .. count : j \in 1 .. count
      BY <2>2
    <3> QED BY <2>3, <3>1, <3>2
  <2>6. FlushedPrefix' <=>
          /\ \A i \in 1 .. Len(buffer') : buffer'[i] = mem'[count' + i]
          /\ DOMAIN stored' = {Key(mem'[i]) : i \in 1 .. count'}
          /\ \A k \in DOMAIN stored' :
               \E i \in 1 .. count' :
                 mem'[i] = stored'[k] /\ \A j \in i + 1 .. count' : Key(mem'[j]) # k
    BY DEF FlushedPrefix, Key
  <2> QED BY <2>1, <2>4, <2>5, <2>6
<1> QED BY <1>1, <1>2

\* append(), with or without the flush it triggers.
LEMMA AppendKeepsLog ==
  ASSUME EventInv, LogInv, NEW h \in Heights, NEW t \in Hashes, NEW n \in 1 .. MaxPerTx,
         NEW emitted \in [1 .. n -> SUBSET Addresses], AppendEvents(h, t, emitted)
  PROVE  LogInv'
<1> DEFINE events == TakeEvents(h, t, emitted)
           full   == buffer \o events
           M == Len(mem)
<1>1. /\ n \in Nat /\ events \in Seq(Events) /\ Len(events) = n /\ n >= 1
      /\ \A i \in 1 .. n : Key(events[i]) = <<h, t, i - 1>>
      /\ \A i \in 1 .. n : events[i].block = h /\ events[i].tx = t /\ events[i].index = i - 1
  BY TakenEvents
<1>2. mem' = mem \o events
  BY DEF AppendEvents, MemAppend
<1>3. \/ FlushBatch(full)
      \/ /\ Len(full) < BufferLimit /\ buffer' = full
         /\ UNCHANGED <<stored, blockIndex, txIndex, count, lost, faults>>
  BY DEF AppendEvents
<1> HIDE DEF events
<1>4. /\ mem \in Seq(Events) /\ buffer \in Seq(Events) /\ count \in Nat /\ lost \in Nat
      /\ count + Len(buffer) + lost = M
  BY DEF EventInv, EventTypes, EventsAccounted
<1>5. /\ mem' \in Seq(Events) /\ Len(mem') = M + n
      /\ \A i \in 1 .. M + n : mem'[i] = IF i <= M THEN mem[i] ELSE events[i - M]
  <2>1. events \in Seq(Events) /\ mem \in Seq(Events)
    BY <1>1, <1>4
  <2> QED BY ONLY <1>1, <1>2, <2>1, ConcatRange
<1>6. /\ full \in Seq(Events) /\ Len(full) = Len(buffer) + n
      /\ \A i \in 1 .. Len(buffer) + n :
           full[i] = IF i <= Len(buffer) THEN buffer[i] ELSE events[i - Len(buffer)]
  <2>1. events \in Seq(Events) /\ buffer \in Seq(Events)
    BY <1>1, <1>4
  <2> QED BY ONLY <1>1, <2>1, ConcatRange
<1>7. /\ M \in Nat /\ Len(buffer) \in Nat
      /\ DOMAIN mem = 1 .. M /\ DOMAIN mem' = 1 .. M + n
  BY <1>1, <1>4, <1>5
<1> HIDE DEF full
<1>8. \A i \in 1 .. M : i \in 1 .. M + n /\ mem'[i] = mem[i]
  BY <1>1, <1>5, <1>7
<1>9. \A i \in 1 .. n : M + i \in 1 .. M + n /\ mem'[M + i] = events[i]
  <2> TAKE i \in 1 .. n
  <2>1. M + i \in 1 .. M + n /\ ~(M + i <= M) /\ (M + i) - M = i
    BY <1>1, <1>7
  <2> QED BY <1>5, <2>1
<1>10. \A i \in 1 .. M + n : i \in 1 .. M \/ (i - M \in 1 .. n /\ mem'[i] = events[i - M])
  BY <1>1, <1>5, <1>7
<1>11. lost = 0 => \A i \in 1 .. Len(full) : full[i] = mem'[count + i]
  <2> SUFFICES ASSUME lost = 0, NEW i \in 1 .. Len(full) PROVE full[i] = mem'[count + i]
    OBVIOUS
  <2>1. count + Len(buffer) = M /\ FlushedPrefix
    BY <1>4, <1>7 DEF LogInv
  <2>2. CASE i <= Len(buffer)
    <3>1. i \in 1 .. Len(buffer) /\ count + i \in 1 .. M /\ full[i] = buffer[i]
      BY <1>1, <1>4, <1>6, <1>7, <2>1, <2>2
    <3>2. buffer[i] = mem[count + i]
      BY <2>1, <3>1 DEF FlushedPrefix
    <3> QED BY <1>8, <3>1, <3>2
  <2>3. CASE ~(i <= Len(buffer))
    <3>1. i \in 1 .. Len(buffer) + n
      BY <1>6
    <3>2. full[i] = events[i - Len(buffer)]
      BY <1>6, <2>3, <3>1
    <3>3. i - Len(buffer) \in 1 .. n /\ count + i = M + (i - Len(buffer))
      <4>1. n \in Nat /\ count \in Nat /\ Len(buffer) \in Nat
        BY <1>1, <1>4, <1>7
      <4>2. count + Len(buffer) = M
        BY <2>1
      <4> QED BY ONLY <2>3, <3>1, <4>1, <4>2
    <3> QED BY <1>9, <3>2, <3>3
  <2> QED BY <2>2, <2>3
<1>12. Len(mem) <= Len(mem') /\ \A i \in 1 .. Len(mem) : mem'[i] = mem[i]
  BY <1>1, <1>5, <1>7, <1>8
<1>13. Named' /\ (lost' = 0 => FlushedPrefix')
  <2>1. CASE FlushBatch(full)
    BY ONLY EventInv, LogInv, <1>5, <1>6, <1>11, <1>12, <2>1, FlushKeepsLog
  <2>2. CASE buffer' = full /\ UNCHANGED <<stored, count, lost>>
    <3>1. lost = 0 => \A i \in 1 .. Len(buffer') : buffer'[i] = mem'[count + i]
      BY <1>11, <2>2
    <3>2. UNCHANGED <<stored, count, lost>>
      BY <2>2
    <3> QED BY ONLY EventInv, LogInv, <1>5, <1>12, <3>1, <3>2, UnflushedKeepsLog
  <2> QED BY <1>3, <2>1, <2>2
<1>14. Numbered'
  <2>1. ASSUME NEW i \in 1 .. M + n, NEW m \in 0 .. mem'[i].index - 1
        PROVE  \E j \in 1 .. M + n : Key(mem'[j]) = <<mem'[i].block, mem'[i].tx, m>>
    <3>1. CASE i \in 1 .. M
      <4>1. PICK j \in 1 .. M : Key(mem[j]) = <<mem[i].block, mem[i].tx, m>>
        BY <1>7, <1>8, <3>1 DEF LogInv, Numbered
      <4>2. j \in 1 .. M + n /\ Key(mem'[j]) = <<mem'[i].block, mem'[i].tx, m>>
        BY <1>8, <3>1, <4>1
      <4> QED BY <4>2
    <3>2. CASE i - M \in 1 .. n /\ mem'[i] = events[i - M]
      <4>1. mem'[i].block = h /\ mem'[i].tx = t /\ mem'[i].index = (i - M) - 1
        BY <1>1, <3>2
      <4>2. m + 1 \in 1 .. n /\ (m + 1) - 1 = m
        BY <1>1, <1>7, <3>2, <4>1
      <4>3. M + (m + 1) \in 1 .. M + n /\ Key(mem'[M + (m + 1)]) = <<h, t, m>>
        BY <1>1, <1>9, <4>2
      <4> QED BY <4>1, <4>3
    <3> QED BY <1>10, <3>1, <3>2
  <2>2. Numbered' <=>
          \A i \in DOMAIN mem' : \A m \in 0 .. mem'[i].index - 1 :
            \E j \in DOMAIN mem' : Key(mem'[j]) = <<mem'[i].block, mem'[i].tx, m>>
    BY DEF Numbered, Key
  <2>3. DOMAIN mem' = 1 .. M + n
    BY <1>7
  <2> HIDE DEF M
  <2> QED BY ONLY <2>1, <2>2, <2>3
<1>15. OneRun'
  <2> SUFFICES ASSUME NoRepeat', NEW i \in 1 .. M + n, NEW j \in 1 .. M + n, i < j,
                      mem'[i].block = mem'[j].block, mem'[i].tx = mem'[j].tx
               PROVE  mem'[i].index < mem'[j].index
    BY <1>7 DEF OneRun
  <2>1. \A x, y \in 1 .. M + n : Key(mem'[x]) = Key(mem'[y]) => x = y
    BY <1>7 DEF NoRepeat, Key
  <2>2. CASE i \in 1 .. M /\ j \in 1 .. M
    <3>1. \A x, y \in 1 .. M : Key(mem[x]) = Key(mem[y]) => x = y
      BY <1>8, <2>1
    <3>2. NoRepeat
      BY <1>7, <3>1 DEF NoRepeat
    <3> QED BY <1>7, <1>8, <2>2, <3>2 DEF LogInv, OneRun
  <2>3. CASE i \in 1 .. M /\ j - M \in 1 .. n /\ mem'[j] = events[j - M]
    <3>1. mem[i] \in Events /\ mem'[i] = mem[i] /\ mem[i].block = h /\ mem[i].tx = t
      BY <1>1, <1>4, <1>7, <1>8, <2>3
    <3>2. mem[i].index \in Nat /\ Key(mem[i]) = <<h, t, mem[i].index>>
      BY <3>1 DEF Events, Key
    <3>3. \E x \in 1 .. M : Key(mem[x]) = <<h, t, 0>>
      <4>1. CASE mem[i].index = 0
        BY <2>3, <3>2, <4>1
      <4>2. CASE mem[i].index # 0
        <5>1. 0 \in 0 .. mem[i].index - 1
          BY <3>2, <4>2
        <5> QED BY <1>7, <2>3, <3>1, <5>1 DEF LogInv, Numbered
      <4> QED BY <4>1, <4>2
    <3>4. PICK x \in 1 .. M : Key(mem[x]) = <<h, t, 0>>
      BY <3>3
    <3>5. 1 \in 1 .. n /\ 1 - 1 = 0
      BY <1>1
    <3>6. M + 1 \in 1 .. M + n /\ Key(mem'[M + 1]) = <<h, t, 0>>
      BY <1>1, <1>9, <3>5
    <3>7. x = M + 1
      BY <1>8, <2>1, <3>4, <3>6
    <3> QED BY <1>7, <3>4, <3>7
  <2>4. CASE i - M \in 1 .. n /\ mem'[i] = events[i - M] /\ j - M \in 1 .. n /\ mem'[j] = events[j - M]
    <3>1. mem'[i].index = (i - M) - 1 /\ mem'[j].index = (j - M) - 1
      BY <1>1, <2>4
    <3> QED BY <1>1, <1>7, <3>1
  <2>5. CASE i - M \in 1 .. n /\ j \in 1 .. M
    BY <1>1, <1>7, <2>5
  <2> QED BY <1>10, <2>2, <2>3, <2>4, <2>5
<1> QED BY <1>13, <1>14, <1>15 DEF LogInv

\* A crash only loses what is buffered.
LEMMA LoseKeepsLog ==
  ASSUME EventInv, LogInv, LoseBuffer
  PROVE  LogInv'
<1>1. /\ UNCHANGED <<stored, count, mem>> /\ lost' = lost + Len(buffer) /\ buffer # <<>>
  BY DEF LoseBuffer
<1>2. lost \in Nat /\ buffer \in Seq(Events)
  BY DEF EventInv, EventTypes
<1>3. Len(buffer) \in Nat /\ Len(buffer) # 0
  BY <1>1, <1>2, EmptySeq
<1>4. lost' # 0
  BY <1>1, <1>2, <1>3
<1> QED BY <1>1, <1>4 DEF LogInv, Named, Numbered, OneRun, NoRepeat, Key

-----------------------------------------------------------------------------
(***************************************************************************)
(* Sorting. An order is a set of pairs, so that it can be a parameter of a *)
(* lemma.                                                                  *)
(***************************************************************************)

\* A strict total order on S.
IsOrder(R, S) ==
  /\ \A x \in S : <<x, x>> \notin R
  /\ \A x, y, z \in S : <<x, y>> \in R /\ <<y, z>> \in R => <<x, z>> \in R
  /\ \A x, y \in S : x # y => <<x, y>> \in R \/ <<y, x>> \in R

\* What comes before e.
Earlier(S, R, e) == {d \in S : <<d, e>> \in R}

\* Every element has a number of earlier ones, and in the order it grows.
LEMMA RankGrows ==
  ASSUME NEW S, IsFiniteSet(S), NEW R, IsOrder(R, S)
  PROVE  /\ \A e \in S : Cardinality(Earlier(S, R, e)) \in 0 .. Cardinality(S) - 1
         /\ \A d, e \in S : <<d, e>> \in R =>
               Cardinality(Earlier(S, R, d)) < Cardinality(Earlier(S, R, e))
<1>1. \A e \in S : /\ IsFiniteSet(Earlier(S, R, e))
                   /\ Cardinality(Earlier(S, R, e)) \in Nat
                   /\ Cardinality(Earlier(S, R, e)) < Cardinality(S)
  <2> TAKE e \in S
  <2>1. Earlier(S, R, e) \in SUBSET S /\ e \notin Earlier(S, R, e)
    BY DEF Earlier, IsOrder
  <2>2. /\ IsFiniteSet(Earlier(S, R, e))
        /\ Cardinality(Earlier(S, R, e)) <= Cardinality(S)
        /\ Cardinality(S) # Cardinality(Earlier(S, R, e))
    BY <2>1, FS_Subset
  <2>3. Cardinality(Earlier(S, R, e)) \in Nat /\ Cardinality(S) \in Nat
    BY <2>2, FS_CardinalityType
  <2> QED BY <2>2, <2>3
<1>2. ASSUME NEW d \in S, NEW e \in S, <<d, e>> \in R
      PROVE  Cardinality(Earlier(S, R, d)) < Cardinality(Earlier(S, R, e))
  <2>1. Earlier(S, R, d) \in SUBSET Earlier(S, R, e) /\ Earlier(S, R, d) # Earlier(S, R, e)
    BY <1>2 DEF Earlier, IsOrder
  <2>2. /\ Cardinality(Earlier(S, R, d)) <= Cardinality(Earlier(S, R, e))
        /\ Cardinality(Earlier(S, R, d)) # Cardinality(Earlier(S, R, e))
    BY <1>1, <2>1, FS_Subset
  <2> QED BY <1>1, <2>2
<1>3. Cardinality(S) \in Nat
  BY FS_CardinalityType
<1> QED BY <1>1, <1>2, <1>3

\* What Sorted returns: every element once, in the order, each at its rank.
LEMMA SortedProps ==
  ASSUME NEW S, IsFiniteSet(S), NEW R, IsOrder(R, S), NEW n, n = Cardinality(S)
  PROVE  /\ n \in Nat
         /\ Sorted(S, R) \in [1 .. n -> S] /\ Len(Sorted(S, R)) = n
         /\ \A e \in S : \E i \in 1 .. n : Sorted(S, R)[i] = e
         /\ \A i \in 1 .. n : Cardinality(Earlier(S, R, Sorted(S, R)[i])) = i - 1
         /\ \A i, j \in 1 .. n : i < j => <<Sorted(S, R)[i], Sorted(S, R)[j]>> \in R
         /\ \A i, j \in 1 .. n : i # j => Sorted(S, R)[i] # Sorted(S, R)[j]
<1> DEFINE r == [e \in S |-> Cardinality(Earlier(S, R, e))]
           f == Sorted(S, R)
<1>1. n \in Nat
  BY FS_CardinalityType
<1>2. /\ \A e \in S : r[e] \in 0 .. n - 1
      /\ \A d, e \in S : <<d, e>> \in R => r[d] < r[e]
  BY RankGrows
<1>3. \A d, e \in S : d # e => <<d, e>> \in R \/ <<e, d>> \in R
  BY DEF IsOrder
<1>4. \A e \in S : r[e] = Cardinality(Earlier(S, R, e))
  OBVIOUS
<1>5. r \in [S -> 0 .. n - 1]
  BY <1>2
<1> HIDE DEF r
<1>6. \A d, e \in S : r[d] = r[e] => d = e
  <2> SUFFICES ASSUME NEW d \in S, NEW e \in S, r[d] = r[e], d # e PROVE FALSE
    OBVIOUS
  <2>1. r[d] \in 0 .. n - 1 /\ r[e] \in 0 .. n - 1
    BY <1>2
  <2>2. r[d] \in Int /\ r[e] \in Int
    BY <1>1, <2>1
  <2>3. r[d] < r[e] \/ r[e] < r[d]
    BY <1>2, <1>3
  <2> QED BY <2>2, <2>3
<1>7. r \in Injection(S, 0 .. n - 1)
  BY <1>5, <1>6 DEF Injection, IsInjective
<1>8. IsFiniteSet(0 .. n - 1) /\ Cardinality(0 .. n - 1) = n
  <2>1. 0 \in Int /\ n - 1 \in Int
    BY <1>1
  <2>2. IsFiniteSet(0 .. n - 1) /\ Cardinality(0 .. n - 1) = IF 0 > n - 1 THEN 0 ELSE n - 1 - 0 + 1
    BY <2>1, FS_Interval
  <2> QED BY <1>1, <2>2
<1>9. r \in Surjection(S, 0 .. n - 1)
  BY <1>7, <1>8, FS_Injection
<1>10. \A i \in 1 .. n : \E e \in S : r[e] = i - 1
  <2> TAKE i \in 1 .. n
  <2>1. i - 1 \in 0 .. n - 1
    BY <1>1
  <2> QED BY <1>9, <2>1 DEF Surjection
<1>11. f = [i \in 1 .. n |-> CHOOSE e \in S : Cardinality(Earlier(S, R, e)) = i - 1]
  BY DEF Sorted, Earlier
<1> HIDE DEF f
<1>12. \A i \in 1 .. n : f[i] \in S /\ r[f[i]] = i - 1
  <2> TAKE i \in 1 .. n
  <2>1. \E e \in S : Cardinality(Earlier(S, R, e)) = i - 1
    BY <1>4, <1>10
  <2>2. f[i] \in S /\ Cardinality(Earlier(S, R, f[i])) = i - 1
    BY <1>11, <2>1
  <2> QED BY <1>4, <2>2
<1>13. f \in [1 .. n -> S]
  BY <1>11, <1>12
<1>14. f \in Seq(S) /\ Len(f) = n
  BY <1>1, <1>13
<1>15. ASSUME NEW e \in S PROVE \E i \in 1 .. n : f[i] = e
  <2>1. r[e] \in 0 .. n - 1
    BY <1>2
  <2>2. r[e] + 1 \in 1 .. n /\ (r[e] + 1) - 1 = r[e]
    BY <1>1, <2>1
  <2>3. r[f[r[e] + 1]] = r[e] /\ f[r[e] + 1] \in S
    BY <1>12, <2>2
  <2> QED BY <1>6, <2>2, <2>3
<1>16. ASSUME NEW i \in 1 .. n, NEW j \in 1 .. n, i < j
       PROVE  <<f[i], f[j]>> \in R /\ f[i] # f[j]
  <2>1. f[i] \in S /\ f[j] \in S /\ r[f[i]] = i - 1 /\ r[f[j]] = j - 1
    BY <1>12
  <2>2. r[f[i]] # r[f[j]] /\ ~(r[f[j]] < r[f[i]])
    BY <1>1, <1>16, <2>1
  <2> QED BY <1>2, <1>3, <2>1, <2>2
<1>17. ASSUME NEW i \in 1 .. n, NEW j \in 1 .. n, i # j
       PROVE  f[i] # f[j]
  <2>1. i < j \/ j < i
    BY <1>1, <1>17
  <2> QED BY <1>16, <2>1
<1> QED BY <1>1, <1>4, <1>12, <1>13, <1>14, <1>15, <1>16, <1>17 DEF f

\* Where the numbers of the elements have no gap, the one at place i has number i - 1.
LEMMA RankIsNumber ==
  ASSUME NEW S, IsFiniteSet(S), NEW g \in [S -> Nat], NEW R,
         \A x, y \in S : <<x, y>> \in R <=> g[x] < g[y],
         \A x, y \in S : g[x] = g[y] => x = y,
         \A x \in S : \A m \in 0 .. g[x] - 1 : \E y \in S : g[y] = m
  PROVE  /\ IsOrder(R, S)
         /\ \A i \in 1 .. Cardinality(S) : Sorted(S, R)[i] \in S /\ g[Sorted(S, R)[i]] = i - 1
<1>1. \A x \in S : g[x] \in Nat
  OBVIOUS
<1>2. IsOrder(R, S)
  <2>1. \A x \in S : <<x, x>> \notin R
    BY <1>1
  <2>2. \A x, y, z \in S : <<x, y>> \in R /\ <<y, z>> \in R => <<x, z>> \in R
    <3> TAKE x, y, z \in S
    <3>1. g[x] \in Int /\ g[y] \in Int /\ g[z] \in Int
      BY <1>1
    <3>2. g[x] < g[y] /\ g[y] < g[z] => g[x] < g[z]
      BY <3>1
    <3> QED BY <3>2
  <2>3. \A x, y \in S : x # y => <<x, y>> \in R \/ <<y, x>> \in R
    <3> TAKE x, y \in S
    <3>1. g[x] \in Int /\ g[y] \in Int
      BY <1>1
    <3>2. g[x] # g[y] => g[x] < g[y] \/ g[y] < g[x]
      BY <3>1
    <3> QED BY <3>2
  <2> QED BY <2>1, <2>2, <2>3 DEF IsOrder
<1>3. ASSUME NEW i \in 1 .. Cardinality(S)
      PROVE  Sorted(S, R)[i] \in S /\ g[Sorted(S, R)[i]] = i - 1
  <2> DEFINE e == Sorted(S, R)[i]
             E == Earlier(S, R, e)
             h == [d \in E |-> g[d]]
  <2>1. e \in S /\ Cardinality(E) = i - 1
    BY <1>2, SortedProps
  <2> HIDE DEF e
  <2>2. IsFiniteSet(E)
    <3>1. E \in SUBSET S
      BY DEF Earlier
    <3> QED BY <3>1, FS_Subset
  <2>3. g[e] \in Nat
    BY <1>1, <2>1
  <2>4. h \in Bijection(E, 0 .. g[e] - 1)
    <3>1. ASSUME NEW d \in E PROVE d \in S /\ h[d] = g[d] /\ g[d] \in 0 .. g[e] - 1
      <4>1. d \in S /\ g[d] < g[e] /\ g[d] \in Nat
        BY <1>1, <2>1 DEF Earlier
      <4> QED BY <2>3, <4>1
    <3>2. ASSUME NEW m \in 0 .. g[e] - 1 PROVE \E d \in E : h[d] = m
      <4>1. PICK y \in S : g[y] = m
        BY <2>1
      <4>2. g[y] < g[e]
        BY <2>3, <4>1
      <4>3. y \in E
        BY <2>1, <4>2 DEF Earlier
      <4> QED BY <4>1, <4>3
    <3>3. \A c, d \in E : h[c] = h[d] => c = d
      BY <3>1
    <3>4. h \in [E -> 0 .. g[e] - 1]
      BY <3>1
    <3> HIDE DEF h, E
    <3> QED BY <3>2, <3>3, <3>4 DEF Bijection, Injection, Surjection, IsInjective
  <2>5. Cardinality(0 .. g[e] - 1) = i - 1
    <3>1. ExistsBijection(E, 0 .. g[e] - 1)
      BY <2>4 DEF ExistsBijection
    <3> HIDE DEF E
    <3> QED BY <2>1, <2>2, <3>1, FS_Bijection
  <2>6. Cardinality(0 .. g[e] - 1) = g[e]
    <3>1. 0 \in Int /\ g[e] - 1 \in Int
      BY <2>3
    <3>2. Cardinality(0 .. g[e] - 1) = IF 0 > g[e] - 1 THEN 0 ELSE g[e] - 1 - 0 + 1
      BY <3>1, FS_Interval
    <3> QED BY <2>3, <3>2
  <2> QED BY <2>1, <2>5, <2>6 DEF e
<1> QED BY <1>2, <1>3

\* The elements from a level up.
Above(F, b, k) == {x \in F : b[x] >= k}

\* Equally many from each level up.
SameLevels(F, b, P, c) ==
  \A k \in Int : Cardinality(Above(F, b, k)) = Cardinality(Above(P, c, k))

\* u lists the n elements of F, each once, by falling level.
Falls(n, F, b, u) ==
  /\ n \in Nat /\ IsFiniteSet(F) /\ b \in [F -> Int] /\ u \in [1 .. n -> F]
  /\ \A e \in F : \E i \in 1 .. n : u[i] = e
  /\ \A i, j \in 1 .. n : i # j => u[i] # u[j]
  /\ \A i, j \in 1 .. n : i < j => b[u[i]] >= b[u[j]]

\* An element that comes as the i-th of a falling listing has at least i from its
\* level up.
LEMMA LevelHolds ==
  ASSUME NEW n, NEW F, NEW b, NEW u, Falls(n, F, b, u),
         NEW i \in 1 .. n, NEW k \in Int, b[u[i]] >= k
  PROVE  IsFiniteSet(Above(F, b, k)) /\ i <= Cardinality(Above(F, b, k))
<1>0. /\ n \in Nat /\ IsFiniteSet(F) /\ b \in [F -> Int] /\ u \in [1 .. n -> F]
      /\ \A j, l \in 1 .. n : j # l => u[j] # u[l]
      /\ \A j, l \in 1 .. n : j < l => b[u[j]] >= b[u[l]]
  BY DEF Falls
<1> USE <1>0
<1> DEFINE A == {x \in F : b[x] >= k}
           w == [j \in 1 .. i |-> u[j]]
<1>1. i \in Nat /\ i >= 1 /\ i <= n /\ u[i] \in F /\ b[u[i]] \in Int
  OBVIOUS
<1>2. IsFiniteSet(A) /\ A = Above(F, b, k)
  <2>1. A \in SUBSET F
    OBVIOUS
  <2> QED BY <2>1, FS_Subset DEF Above
<1>3. ASSUME NEW j \in 1 .. i PROVE u[j] \in A /\ j \in 1 .. n
  <2>1. j \in 1 .. n /\ (j < i \/ j = i)
    BY <1>1
  <2>2. u[j] \in F /\ b[u[j]] \in Int /\ b[u[j]] >= b[u[i]]
    BY <1>1, <2>1
  <2> QED BY <1>1, <2>1, <2>2
<1>4. w \in Injection(1 .. i, A)
  <2>1. w \in [1 .. i -> A]
    BY <1>3
  <2>2. \A x, y \in 1 .. i : w[x] = w[y] => x = y
    BY <1>3
  <2> HIDE DEF w, A
  <2> QED BY <2>1, <2>2 DEF Injection, IsInjective
<1>5. Cardinality(1 .. i) = i
  <2>1. 1 \in Int /\ i \in Int
    BY <1>1
  <2>2. Cardinality(1 .. i) = IF 1 > i THEN 0 ELSE i - 1 + 1
    BY <2>1, FS_Interval
  <2> QED BY <1>1, <2>2
<1>6. Cardinality(1 .. i) <= Cardinality(A)
  <2> HIDE DEF w, A
  <2> QED BY <1>2, <1>4, FS_Injection
<1> QED BY <1>2, <1>5, <1>6

\* A level that fits into the first m of a falling listing is among them.
LEMMA FallsWithin ==
  ASSUME NEW n, NEW F, NEW b, NEW u, Falls(n, F, b, u),
         NEW k \in Int, NEW m \in Nat, Cardinality(Above(F, b, k)) <= m,
         NEW x \in F, b[x] >= k
  PROVE  \E i \in 1 .. n : i <= m /\ u[i] = x
<1>1. PICK i \in 1 .. n : u[i] = x
  BY DEF Falls
<1>2. IsFiniteSet(Above(F, b, k)) /\ i <= Cardinality(Above(F, b, k))
  BY <1>1, LevelHolds
<1>3. Cardinality(Above(F, b, k)) \in Nat
  BY <1>2, FS_CardinalityType
<1>4. i <= m
  BY <1>2, <1>3
<1> QED BY <1>1, <1>4

\* Two listings of two finite sets by falling level are level with each other, when
\* the sets have equally many elements from each level up.
LEMMA LevelsFall ==
  ASSUME NEW n, NEW F, NEW b, NEW u, Falls(n, F, b, u),
         NEW P, NEW c, NEW v, Falls(n, P, c, v), SameLevels(F, b, P, c), NEW i \in 1 .. n
  PROVE  b[u[i]] <= c[v[i]]
<1>0. /\ n \in Nat /\ IsFiniteSet(F) /\ b \in [F -> Int] /\ u \in [1 .. n -> F]
      /\ IsFiniteSet(P) /\ c \in [P -> Int] /\ v \in [1 .. n -> P]
      /\ \A j, l \in 1 .. n : j # l => u[j] # u[l]
      /\ \A p \in P : \E j \in 1 .. n : v[j] = p
      /\ \A j, l \in 1 .. n : j < l => b[u[j]] >= b[u[l]] /\ c[v[j]] >= c[v[l]]
      /\ \A k \in Int : Cardinality(Above(F, b, k)) = Cardinality(Above(P, c, k))
  BY DEF Falls, SameLevels
<1> USE <1>0
<1> DEFINE k == b[u[i]]
           A == {x \in F : b[x] >= k}
           B == {p \in P : c[p] >= k}
           J == {j \in 1 .. n : c[v[j]] >= k}
<1>1. i \in Nat /\ i >= 1 /\ i <= n /\ u[i] \in F /\ v[i] \in P
  OBVIOUS
<1>2. k \in Int /\ c[v[i]] \in Int
  BY <1>1
<1> SUFFICES ASSUME c[v[i]] < k PROVE FALSE
  BY <1>2
<1>3. IsFiniteSet(A) /\ IsFiniteSet(B) /\ Cardinality(A) = Cardinality(B)
  <2>1. A \in SUBSET F /\ B \in SUBSET P
    OBVIOUS
  <2>2. A = Above(F, b, k) /\ B = Above(P, c, k)
    BY DEF Above
  <2> QED BY <1>2, <2>1, <2>2, FS_Subset
<1>4. i <= Cardinality(A)
  <2>1. b[u[i]] >= k
    BY <1>2
  <2> HIDE DEF k
  <2>2. i <= Cardinality(Above(F, b, k))
    BY ONLY Falls(n, F, b, u), i \in 1 .. n, <1>2, <2>1, LevelHolds
  <2> QED BY <2>2 DEF Above
<1>5. J \in SUBSET (1 .. i - 1)
  <2> SUFFICES ASSUME NEW j \in J, ~(j \in 1 .. i - 1) PROVE FALSE
    OBVIOUS
  <2>1. j \in 1 .. n /\ c[v[j]] >= k /\ (i < j \/ i = j)
    BY <1>1
  <2>2. c[v[j]] \in Int /\ c[v[i]] >= c[v[j]]
    BY <1>1, <1>2, <2>1
  <2> QED BY <1>2, <2>1, <2>2
<1>6. Cardinality(B) <= i - 1
  <2>1. IsFiniteSet(1 .. i - 1) /\ Cardinality(1 .. i - 1) = i - 1
    <3>1. 1 \in Int /\ i - 1 \in Int
      BY <1>1
    <3>2. /\ IsFiniteSet(1 .. i - 1)
          /\ Cardinality(1 .. i - 1) = IF 1 > i - 1 THEN 0 ELSE i - 1 - 1 + 1
      BY <3>1, FS_Interval
    <3> QED BY <1>1, <3>2
  <2>2. IsFiniteSet(J) /\ Cardinality(J) <= i - 1
    <3> HIDE DEF J
    <3>1. IsFiniteSet(J) /\ Cardinality(J) <= Cardinality(1 .. i - 1)
      BY <1>5, <2>1, FS_Subset
    <3> QED BY <2>1, <3>1
  <2> DEFINE w == [j \in J |-> v[j]]
  <2>3. w \in Surjection(J, B)
    <3>1. w \in [J -> B]
      OBVIOUS
    <3>2. ASSUME NEW p \in B PROVE \E j \in J : w[j] = p
      <4>1. PICK j \in 1 .. n : v[j] = p
        OBVIOUS
      <4> QED BY <4>1
    <3> HIDE DEF w, J, B
    <3> QED BY <3>1, <3>2 DEF Surjection
  <2>4. Cardinality(B) <= Cardinality(J)
    <3> HIDE DEF w, J, B
    <3> QED BY <2>2, <2>3, FS_Surjection
  <2>5. Cardinality(B) \in Nat /\ Cardinality(J) \in Nat
    <3> HIDE DEF J, B
    <3> QED BY <1>3, <2>2, FS_CardinalityType
  <2> QED BY <1>1, <2>2, <2>4, <2>5
<1>7. Cardinality(B) \in Nat /\ Cardinality(A) \in Nat
  <2> HIDE DEF A, B
  <2> QED BY <1>3, FS_CardinalityType
<1> HIDE DEF A, B
<1> QED BY <1>1, <1>3, <1>4, <1>6, <1>7

-----------------------------------------------------------------------------
(***************************************************************************)
(* What the queries return of such a log.                                  *)
(***************************************************************************)

\* Once everything is flushed, the disk holds the last version of every event that
\* was appended, under its key.
LEMMA FlushedLog ==
  ASSUME EventInv, LogInv, AllFlushed
  PROVE  /\ mem \in Seq(Events) /\ Len(mem) \in Nat /\ DOMAIN mem = 1 .. Len(mem)
         /\ \A i \in DOMAIN mem : mem[i] \in Events /\ Key(mem[i]) \in DOMAIN stored
         /\ IsFiniteSet(DOMAIN stored) /\ IsFiniteSet(Range(stored))
         /\ blockIndex = DOMAIN stored
         /\ txIndex = {<<k[2], k[3]>> : k \in DOMAIN stored}
         /\ \A k \in DOMAIN stored : stored[k] \in Events /\ Key(stored[k]) = k
         /\ \A k \in DOMAIN stored : \E i \in DOMAIN mem :
               /\ mem[i] = stored[k]
               /\ \A j \in i + 1 .. Len(mem) : Key(mem[j]) # k
         /\ NoRepeat => \A i \in DOMAIN mem : stored[Key(mem[i])] = mem[i]
<1>1. /\ mem \in Seq(Events) /\ IsFiniteSet(DOMAIN stored) /\ count \in Nat
      /\ blockIndex = DOMAIN stored /\ txIndex = {<<k[2], k[3]>> : k \in DOMAIN stored}
      /\ count + Len(buffer) + lost = Len(mem)
  BY DEF EventInv, EventTypes, EventsAccounted
<1>2. Len(mem) \in Nat /\ DOMAIN mem = 1 .. Len(mem) /\ \A i \in DOMAIN mem : mem[i] \in Events
  BY <1>1
<1>3. lost = 0 /\ Len(buffer) = 0
  BY DEF AllFlushed
<1>4. count = Len(mem)
  BY <1>1, <1>2, <1>3
<1>5. DOMAIN stored = {Key(mem[i]) : i \in DOMAIN mem}
  BY <1>2, <1>3, <1>4 DEF LogInv, FlushedPrefix
<1>6. \A k \in DOMAIN stored : \E i \in DOMAIN mem :
         mem[i] = stored[k] /\ \A j \in i + 1 .. Len(mem) : Key(mem[j]) # k
  BY <1>2, <1>3, <1>4 DEF LogInv, FlushedPrefix
<1>7. \A k \in DOMAIN stored : stored[k] \in Events /\ Key(stored[k]) = k
  BY <1>2, <1>6 DEF LogInv, Named
<1>8. ASSUME NoRepeat, NEW i \in DOMAIN mem PROVE stored[Key(mem[i])] = mem[i]
  <2>1. Key(mem[i]) \in DOMAIN stored
    BY <1>5
  <2>2. PICK l \in DOMAIN mem : mem[l] = stored[Key(mem[i])]
    BY <1>6, <2>1
  <2>3. Key(mem[l]) = Key(mem[i])
    BY <1>7, <2>1, <2>2
  <2> QED BY <1>8, <2>2, <2>3 DEF NoRepeat
<1>9. IsFiniteSet(Range(stored))
  <2> DEFINE w == [k \in DOMAIN stored |-> stored[k]]
  <2>1. w \in Surjection(DOMAIN stored, Range(stored))
    BY DEF Surjection, Range
  <2> HIDE DEF w
  <2> QED BY <1>1, <2>1, FS_Surjection
<1> QED BY <1>1, <1>2, <1>5, <1>6, <1>7, <1>8, <1>9

\* Both orders of a scan by height are orders of events with different keys.
LEMMA EventOrders ==
  ASSUME NEW F \in SUBSET Events, \A d, e \in F : Key(d) = Key(e) => d = e
  PROVE  /\ IsOrder(OldestFirst(F), F) /\ IsOrder(NewestFirst(F), F)
         /\ \A d, e \in F : <<d, e>> \in NewestFirst(F) => d.block >= e.block
<1>1. \A d \in F : d.block \in Nat /\ d.tx \in Nat /\ d.index \in Nat
  BY KeyFields
<1>2. \A d, e \in F :
         d.block = e.block /\ d.tx = e.tx /\ d.index = e.index => d = e
  BY KeyFields
<1>3. \A d, e \in F : <<d, e>> \in OldestFirst(F) <=>
         d.block < e.block \/ (d.block = e.block /\ (d.tx < e.tx \/ (d.tx = e.tx /\ d.index < e.index)))
  BY DEF OldestFirst, SuffixBefore
<1>4. \A d, e \in F : <<d, e>> \in NewestFirst(F) <=>
         d.block > e.block \/ (d.block = e.block /\ (d.tx < e.tx \/ (d.tx = e.tx /\ d.index < e.index)))
  BY DEF NewestFirst, SuffixBefore
<1>5. IsOrder(OldestFirst(F), F)
  <2>1. \A x \in F : <<x, x>> \notin OldestFirst(F)
    BY <1>1, <1>3
  <2>2. \A x, y, z \in F : <<x, y>> \in OldestFirst(F) /\ <<y, z>> \in OldestFirst(F)
                              => <<x, z>> \in OldestFirst(F)
    BY <1>1, <1>3
  <2>3. \A x, y \in F : x # y => <<x, y>> \in OldestFirst(F) \/ <<y, x>> \in OldestFirst(F)
    BY <1>1, <1>2, <1>3
  <2> QED BY <2>1, <2>2, <2>3 DEF IsOrder
<1>6. IsOrder(NewestFirst(F), F)
  <2>1. \A x \in F : <<x, x>> \notin NewestFirst(F)
    BY <1>1, <1>4
  <2>2. \A x, y, z \in F : <<x, y>> \in NewestFirst(F) /\ <<y, z>> \in NewestFirst(F)
                              => <<x, z>> \in NewestFirst(F)
    BY <1>1, <1>4
  <2>3. \A x, y \in F : x # y => <<x, y>> \in NewestFirst(F) \/ <<y, x>> \in NewestFirst(F)
    BY <1>1, <1>2, <1>4
  <2> QED BY <2>1, <2>2, <2>3 DEF IsOrder
<1> QED BY <1>1, <1>4, <1>5, <1>6

\* Places in the list, read upwards or downwards.
LEMMA PlaceOrders ==
  ASSUME NEW n \in Nat, NEW P \in SUBSET (1 .. n)
  PROVE  /\ IsFiniteSet(P) /\ IsOrder(Upward(P), P) /\ IsOrder(Downward(P), P)
         /\ \A p, q \in P : <<p, q>> \in Upward(P) <=> p < q
         /\ \A p, q \in P : <<p, q>> \in Downward(P) <=> p > q
<1>1. \A p \in P : p \in Int
  OBVIOUS
<1>2. IsFiniteSet(P)
  <2>1. IsFiniteSet(1 .. n)
    <3>1. 1 \in Int /\ n \in Int
      OBVIOUS
    <3> QED BY <3>1, FS_Interval
  <2> QED BY <2>1, FS_Subset
<1>3. /\ \A p, q \in P : <<p, q>> \in Upward(P) <=> p < q
      /\ \A p, q \in P : <<p, q>> \in Downward(P) <=> p > q
  BY DEF Upward, Downward
<1>4. IsOrder(Upward(P), P)
  BY <1>1, <1>3 DEF IsOrder
<1>5. IsOrder(Downward(P), P)
  BY <1>1, <1>3 DEF IsOrder
<1> QED BY <1>2, <1>3, <1>4, <1>5

\* What the in-memory store returns for a set of places in an order.
LEMMA PlacesListed ==
  ASSUME mem \in Seq(Events), NEW P \in SUBSET DOMAIN mem, NEW R, IsOrder(R, P),
         NEW n, n = Cardinality(P), NEW s, s = EventsAt(Sorted(P, R))
  PROVE  /\ n \in Nat /\ s \in Seq(Events) /\ Len(s) = n
         /\ \A i \in 1 .. n : Sorted(P, R)[i] \in P /\ s[i] = mem[Sorted(P, R)[i]]
         /\ Range(s) = {mem[i] : i \in P}
<1>1. Len(mem) \in Nat /\ DOMAIN mem = 1 .. Len(mem) /\ \A i \in P : mem[i] \in Events
  OBVIOUS
<1>2. IsFiniteSet(P)
  BY <1>1, PlaceOrders
<1> DEFINE f == Sorted(P, R)
<1>3. /\ n \in Nat /\ f \in [1 .. n -> P]
      /\ \A e \in P : \E i \in 1 .. n : f[i] = e
  BY <1>2, SortedProps
<1>4. s = [i \in DOMAIN f |-> mem[f[i]]]
  BY DEF EventsAt
<1> HIDE DEF f
<1>5. DOMAIN f = 1 .. n /\ \A i \in 1 .. n : f[i] \in P
  BY <1>3
<1>6. s \in [1 .. n -> Events] /\ \A i \in 1 .. n : s[i] = mem[f[i]]
  BY <1>1, <1>4, <1>5
<1>7. s \in Seq(Events) /\ Len(s) = n
  BY <1>3, <1>6
<1>8. Range(s) = {mem[i] : i \in P}
  <2>1. DOMAIN s = 1 .. n
    BY <1>6
  <2>2. \A x \in Range(s) : x \in {mem[i] : i \in P}
    BY <1>5, <1>6, <2>1 DEF Range
  <2>3. ASSUME NEW i \in P PROVE mem[i] \in Range(s)
    <3>1. PICK l \in 1 .. n : f[l] = i
      BY <1>3
    <3>2. s[l] = mem[i] /\ l \in DOMAIN s
      BY <1>6, <2>1, <3>1
    <3> QED BY <3>2 DEF Range
  <2> QED BY <2>2, <2>3
<1> QED BY <1>3, <1>5, <1>6, <1>7, <1>8 DEF f

\* Different places hold different events when nothing was repeated.
LEMMA PlacesCount ==
  ASSUME mem \in Seq(Events), NoRepeat, NEW P \in SUBSET DOMAIN mem, NEW F, F = {mem[i] : i \in P}
  PROVE  IsFiniteSet(F) /\ Cardinality(F) = Cardinality(P)
<1>1. Len(mem) \in Nat /\ DOMAIN mem = 1 .. Len(mem)
  OBVIOUS
<1>2. IsFiniteSet(P)
  BY <1>1, PlaceOrders
<1> DEFINE w == [i \in P |-> mem[i]]
<1>3. \A i, j \in P : w[i] = w[j] => i = j
  BY DEF NoRepeat
<1>4. w \in [P -> F] /\ \A e \in F : \E i \in P : w[i] = e
  OBVIOUS
<1> HIDE DEF w
<1>5. w \in Bijection(P, F)
  BY <1>3, <1>4 DEF Bijection, Injection, Surjection, IsInjective
<1>6. ExistsBijection(P, F)
  BY <1>5 DEF ExistsBijection
<1> QED BY <1>2, <1>6, FS_Bijection

\* With nothing repeated, both stores hold the same events.
LEMMA SameEvents ==
  ASSUME EventInv, LogInv, AllFlushed, NoRepeat
  PROVE  Range(stored) = {mem[i] : i \in DOMAIN mem}
<1>1. /\ \A i \in DOMAIN mem : Key(mem[i]) \in DOMAIN stored /\ stored[Key(mem[i])] = mem[i]
      /\ \A k \in DOMAIN stored : \E i \in DOMAIN mem : mem[i] = stored[k]
  BY FlushedLog
<1>2. \A e \in Range(stored) : e \in {mem[i] : i \in DOMAIN mem}
  BY <1>1 DEF Range
<1>3. \A i \in DOMAIN mem : mem[i] \in Range(stored)
  BY <1>1 DEF Range
<1> QED BY <1>2, <1>3

\* Stored events with different keys, a finite set of them.
LEMMA StoredSome ==
  ASSUME EventInv, LogInv, AllFlushed, NEW F \in SUBSET Range(stored)
  PROVE  IsFiniteSet(F) /\ F \in SUBSET Events /\ \A d, e \in F : Key(d) = Key(e) => d = e
<1>1. /\ IsFiniteSet(Range(stored))
      /\ \A k \in DOMAIN stored : stored[k] \in Events /\ Key(stored[k]) = k
  BY FlushedLog
<1>2. IsFiniteSet(F)
  BY <1>1, FS_Subset
<1>3. \A e \in F : \E k \in DOMAIN stored : e = stored[k]
  BY DEF Range
<1> QED BY <1>1, <1>2, <1>3

\* The last versions of a block's events are its events of which no later place
\* holds another version: a key names its block.
LEMMA BlockVersions ==
  ASSUME mem \in Seq(Events), NEW h \in Heights, NEW e
  PROVE  e \in LastVersions(MemByBlock(h)) <=>
            \E i \in DOMAIN mem :
               /\ mem[i] = e /\ e.block = h
               /\ \A j \in i + 1 .. Len(mem) : Key(mem[j]) # Key(e)
<1> DEFINE P == {j \in DOMAIN mem : mem[j].block = h}
           f == Sorted(P, Upward(P))
           n == Cardinality(P)
           s == MemByBlock(h)
<1>1. /\ Len(mem) \in Nat /\ DOMAIN mem = 1 .. Len(mem)
      /\ \A i \in DOMAIN mem : mem[i] \in Events
  OBVIOUS
<1>2. P \in SUBSET DOMAIN mem /\ P \in SUBSET (1 .. Len(mem))
  BY <1>1
<1>3. /\ IsFiniteSet(P) /\ IsOrder(Upward(P), P)
      /\ \A p, q \in P : <<p, q>> \in Upward(P) <=> p < q
  BY <1>1, <1>2, PlaceOrders
<1>4. s = EventsAt(f)
  BY DEF MemByBlock
<1>p. \A p \in DOMAIN mem : p \in P <=> mem[p].block = h
  OBVIOUS
<1> HIDE DEF P
<1>5. /\ n \in Nat /\ f \in [1 .. n -> P]
      /\ \A p \in P : \E i \in 1 .. n : f[i] = p
      /\ \A i, j \in 1 .. n : i < j => <<f[i], f[j]>> \in Upward(P)
  <2> DEFINE R == Upward(P)
  <2>1. IsFiniteSet(P) /\ IsOrder(R, P) /\ n = Cardinality(P) /\ f = Sorted(P, R)
    BY <1>3
  <2> HIDE DEF R, n, f
  <2>2. /\ n \in Nat /\ f \in [1 .. n -> P]
        /\ \A p \in P : \E i \in 1 .. n : f[i] = p
        /\ \A i, j \in 1 .. n : i < j => <<f[i], f[j]>> \in R
    BY ONLY <2>1, SortedProps
  <2> QED BY ONLY <2>2 DEF R
<1>6. /\ s \in Seq(Events) /\ Len(s) = n
      /\ \A i \in 1 .. n : s[i] = mem[f[i]]
  BY <1>2, <1>3, <1>4, PlacesListed
<1> HIDE DEF f, n, s
<1>7. DOMAIN s = 1 .. n
  BY <1>6
<1>8. \A i \in 1 .. n : f[i] \in P /\ f[i] \in 1 .. Len(mem)
  BY <1>2, <1>5
<1>9. \A i, j \in 1 .. n : i < j <=> f[i] < f[j]
  <2>1. \A i, j \in 1 .. n : i < j => f[i] < f[j]
    BY <1>3, <1>5, <1>8
  <2> TAKE i, j \in 1 .. n
  <2>2. i < j \/ i = j \/ j < i
    BY <1>5
  <2>3. f[i] \in Int /\ f[j] \in Int
    BY <1>1, <1>8
  <2> QED BY <2>1, <2>2, <2>3
<1>10. \A d \in Events : Key(d)[1] = d.block
  BY KeyFields
<1>11. ASSUME NEW i \in 1 .. n, \A l \in i + 1 .. n : Key(s[l]) # Key(s[i])
       PROVE  \A j \in f[i] + 1 .. Len(mem) : Key(mem[j]) # Key(s[i])
  <2> SUFFICES ASSUME NEW j \in f[i] + 1 .. Len(mem), Key(mem[j]) = Key(s[i]) PROVE FALSE
    OBVIOUS
  <2>1. j \in DOMAIN mem /\ f[i] < j
    BY <1>1, <1>8
  <2>2. mem[j].block = h
    <3>1. s[i] = mem[f[i]] /\ mem[f[i]].block = h /\ mem[f[i]] \in Events
      BY <1>1, <1>6, <1>8, <1>p
    <3>2. mem[j] \in Events
      BY <1>1, <2>1
    <3> QED BY <1>10, <3>1, <3>2
  <2>3. PICK l \in 1 .. n : f[l] = j
    BY <1>5, <1>p, <2>1, <2>2
  <2>4. l \in i + 1 .. n
    <3>1. i < l
      BY <1>9, <2>1, <2>3
    <3> QED BY <1>5, <3>1
  <2>5. s[l] = mem[j]
    BY <1>6, <2>3
  <2> QED BY <1>11, <2>4, <2>5
<1>12. ASSUME NEW i \in 1 .. n, \A j \in f[i] + 1 .. Len(mem) : Key(mem[j]) # Key(s[i])
       PROVE  \A l \in i + 1 .. n : Key(s[l]) # Key(s[i])
  <2> TAKE l \in i + 1 .. n
  <2>1. l \in 1 .. n /\ i < l
    BY <1>5
  <2>2. f[i] < f[l] /\ f[l] \in 1 .. Len(mem) /\ f[i] \in 1 .. Len(mem)
    BY <1>8, <1>9, <2>1
  <2>3. f[l] \in f[i] + 1 .. Len(mem) /\ s[l] = mem[f[l]]
    BY <1>1, <1>6, <2>1, <2>2
  <2> QED BY <1>12, <2>3
<1>13. e \in LastVersions(s) <=>
          \E i \in 1 .. n : e = s[i] /\ \A l \in i + 1 .. n : Key(s[l]) # Key(s[i])
  BY <1>6, <1>7 DEF LastVersions
<1>14. ASSUME NEW i \in 1 .. n, e = s[i], \A l \in i + 1 .. n : Key(s[l]) # Key(s[i])
       PROVE  \E p \in DOMAIN mem :
                 /\ mem[p] = e /\ e.block = h
                 /\ \A j \in p + 1 .. Len(mem) : Key(mem[j]) # Key(e)
  <2>1. f[i] \in DOMAIN mem /\ mem[f[i]] = e /\ e.block = h
    BY <1>1, <1>6, <1>8, <1>14, <1>p
  <2>2. \A j \in f[i] + 1 .. Len(mem) : Key(mem[j]) # Key(e)
    BY <1>11, <1>14
  <2> QED BY <2>1, <2>2
<1>15. ASSUME NEW p \in DOMAIN mem, mem[p] = e, e.block = h,
              \A j \in p + 1 .. Len(mem) : Key(mem[j]) # Key(e)
       PROVE  \E i \in 1 .. n : e = s[i] /\ \A l \in i + 1 .. n : Key(s[l]) # Key(s[i])
  <2>1. PICK i \in 1 .. n : f[i] = p
    BY <1>5, <1>15, <1>p
  <2>2. s[i] = e
    BY <1>6, <1>15, <2>1
  <2>3. \A l \in i + 1 .. n : Key(s[l]) # Key(s[i])
    BY <1>12, <1>15, <2>1, <2>2
  <2> QED BY <2>2, <2>3
<1> QED BY <1>13, <1>14, <1>15 DEF s

\* A query by a range of blocks.
LEMMA BlockQuery ==
  ASSUME EventInv, LogInv, AllFlushed, NEW from \in Heights, NEW to \in Heights,
         NEW found, found = GetByBlockRange(from, to)
  PROVE  /\ \A e \in Range(found) : e.block \in from .. to
         /\ \A h \in Heights \cap from .. to :
                {e \in Range(found) : e.block = h} = LastVersions(MemByBlock(h))
         /\ \A i, j \in DOMAIN found : i < j => found[i].block <= found[j].block
         /\ NoRepeat =>
                Len(found) = Cardinality({i \in DOMAIN mem : mem[i].block \in from .. to})
<1> DEFINE F == {stored[k] : k \in {i \in blockIndex : i[1] \in from .. to}}
           n == Cardinality(F)
<1>1. /\ mem \in Seq(Events) /\ Len(mem) \in Nat /\ DOMAIN mem = 1 .. Len(mem)
      /\ \A i \in DOMAIN mem : mem[i] \in Events /\ Key(mem[i]) \in DOMAIN stored
      /\ blockIndex = DOMAIN stored
      /\ \A k \in DOMAIN stored : stored[k] \in Events /\ Key(stored[k]) = k
      /\ \A k \in DOMAIN stored : \E i \in DOMAIN mem :
            mem[i] = stored[k] /\ \A j \in i + 1 .. Len(mem) : Key(mem[j]) # k
  BY FlushedLog
<1>2. F \in SUBSET Range(stored)
  BY <1>1 DEF Range
<1>3. /\ IsFiniteSet(F) /\ F \in SUBSET Events
      /\ \A d, e \in F : Key(d) = Key(e) => d = e
  BY <1>2, StoredSome
<1>4. IsOrder(OldestFirst(F), F)
  BY <1>3, EventOrders
<1>5. found = Sorted(F, OldestFirst(F))
  BY DEF GetByBlockRange
<1>6. \A e \in F : \E k \in DOMAIN stored : e = stored[k] /\ Key(e) = k /\ k[1] \in from .. to
  BY <1>1
<1>7. \A k \in DOMAIN stored : k[1] \in from .. to => stored[k] \in F
  BY <1>1
<1> HIDE DEF F
<1>8. /\ n \in Nat /\ found \in [1 .. n -> F] /\ Len(found) = n
      /\ \A e \in F : \E i \in 1 .. n : found[i] = e
      /\ \A i, j \in 1 .. n : i < j => <<found[i], found[j]>> \in OldestFirst(F)
  BY <1>3, <1>4, <1>5, SortedProps
<1>9. Range(found) = F
  BY <1>8 DEF Range
<1>10. \A d \in Events : Key(d)[1] = d.block /\ d.block \in Heights
  <2> TAKE d \in Events
  <2>1. Key(d)[1] = d.block
    BY KeyFields
  <2>2. d.block \in Heights
    BY DEF Events
  <2> QED BY <2>1, <2>2
<1>11. ASSUME NEW e \in F PROVE e.block \in from .. to
  BY <1>3, <1>6, <1>10
<1>12. ASSUME NEW h \in Heights \cap from .. to
       PROVE  {e \in F : e.block = h} = LastVersions(MemByBlock(h))
  <2>1. ASSUME NEW e \in F, e.block = h PROVE e \in LastVersions(MemByBlock(h))
    <3>1. PICK k \in DOMAIN stored : e = stored[k] /\ Key(e) = k
      BY <1>6
    <3>2. PICK i \in DOMAIN mem :
              mem[i] = e /\ \A j \in i + 1 .. Len(mem) : Key(mem[j]) # Key(e)
      BY <1>1, <3>1
    <3> QED BY <1>1, <2>1, <3>2, BlockVersions
  <2>2. ASSUME NEW e \in LastVersions(MemByBlock(h)) PROVE e \in F /\ e.block = h
    <3>1. PICK i \in DOMAIN mem :
              /\ mem[i] = e /\ e.block = h
              /\ \A j \in i + 1 .. Len(mem) : Key(mem[j]) # Key(e)
      BY <1>1, <2>2, BlockVersions
    <3>2. Key(e) \in DOMAIN stored /\ Key(e)[1] = h /\ h \in from .. to
      BY <1>1, <1>10, <3>1
    <3>3. PICK l \in DOMAIN mem :
              /\ mem[l] = stored[Key(e)]
              /\ \A j \in l + 1 .. Len(mem) : Key(mem[j]) # Key(e)
      BY <1>1, <3>2
    <3>4. Key(mem[l]) = Key(e)
      BY <1>1, <3>2, <3>3
    <3>5. i = l
      <4>1. i \in 1 .. Len(mem) /\ l \in 1 .. Len(mem) /\ Key(mem[i]) = Key(e)
        BY <1>1, <3>1
      <4>2. ~(l \in i + 1 .. Len(mem)) /\ ~(i \in l + 1 .. Len(mem))
        BY <3>1, <3>3, <3>4, <4>1
      <4> QED BY ONLY <1>1, <4>1, <4>2
    <3>6. stored[Key(e)] \in F
      BY <1>7, <3>2
    <3> QED BY <3>1, <3>3, <3>5, <3>6
  <2> QED BY <2>1, <2>2
<1>14. ASSUME NEW i \in 1 .. n, NEW j \in 1 .. n, i < j
       PROVE  found[i].block <= found[j].block
  <2>1. found[i] \in F /\ found[j] \in F /\ <<found[i], found[j]>> \in OldestFirst(F)
    BY <1>8, <1>14
  <2>2. found[i].block < found[j].block \/ found[i].block = found[j].block
    BY <2>1 DEF OldestFirst
  <2>3. found[i].block \in Nat /\ found[j].block \in Nat
    BY <1>3, <2>1, KeyFields
  <2> QED BY <2>2, <2>3
<1>13. ASSUME NoRepeat
       PROVE  Len(found) = Cardinality({i \in DOMAIN mem : mem[i].block \in from .. to})
  <2> DEFINE P == {i \in DOMAIN mem : mem[i].block \in from .. to}
  <2>1. \A i \in DOMAIN mem : Key(mem[i]) \in DOMAIN stored /\ stored[Key(mem[i])] = mem[i]
    BY <1>13, FlushedLog
  <2>2. ASSUME NEW e \in F PROVE \E i \in P : e = mem[i]
    <3>1. PICK k \in DOMAIN stored : e = stored[k] /\ Key(e) = k /\ k[1] \in from .. to
      BY <1>6
    <3>2. PICK i \in DOMAIN mem : mem[i] = stored[k]
      BY <1>1
    <3>3. e.block = k[1]
      BY <1>3, <1>10, <3>1
    <3> QED BY <3>1, <3>2, <3>3
  <2>3. ASSUME NEW i \in P PROVE mem[i] \in F
    <3>1. Key(mem[i])[1] = mem[i].block
      BY <1>1, <1>10
    <3> QED BY <1>7, <2>1, <3>1
  <2>4. F = {mem[i] : i \in P}
    <3> HIDE DEF P
    <3> QED BY <2>2, <2>3
  <2>5. P \in SUBSET DOMAIN mem
    OBVIOUS
  <2> HIDE DEF P
  <2>6. Cardinality(F) = Cardinality(P)
    BY <1>1, <1>13, <2>4, <2>5, PlacesCount
  <2> QED BY <1>8, <2>6 DEF P
<1>15. DOMAIN found = 1 .. n
  BY <1>8
<1> HIDE DEF n
<1> QED BY <1>9, <1>11, <1>12, <1>13, <1>14, <1>15

\* The bytes of a height are numbers.
LEMMA ByteTypes ==
  ASSUME NEW h \in Heights, NEW i \in 1 .. 8
  PROVE  LittleEndian(h)[i] \in Nat
<1>1. h \in Nat
  <2>1. Heights \subseteq Nat
    BY EventAssumption
  <2> QED BY <2>1
<1>2. \A x \in Nat : x \div 256 \in Nat /\ x % 256 \in Nat
  OBVIOUS
<1> DEFINE h1 == h \div 256
           h2 == h1 \div 256
           h3 == h2 \div 256
           h4 == h3 \div 256
           h5 == h4 \div 256
           h6 == h5 \div 256
           h7 == h6 \div 256
<1>3. h1 \in Nat
  BY <1>1, <1>2
<1> HIDE DEF h1
<1>4. h2 \in Nat
  BY <1>2, <1>3
<1> HIDE DEF h2
<1>5. h3 \in Nat
  BY <1>2, <1>4
<1> HIDE DEF h3
<1>6. h4 \in Nat
  BY <1>2, <1>5
<1> HIDE DEF h4
<1>7. h5 \in Nat
  BY <1>2, <1>6
<1> HIDE DEF h5
<1>8. h6 \in Nat
  BY <1>2, <1>7
<1> HIDE DEF h6
<1>9. h7 \in Nat
  BY <1>2, <1>8
<1> HIDE DEF h7
<1>10. LittleEndian(h) = <<h % 256, h1 % 256, h2 % 256, h3 % 256,
                          h4 % 256, h5 % 256, h6 % 256, h7 % 256>>
  BY DEF LittleEndian, h1, h2, h3, h4, h5, h6, h7
<1>11. i \in {1, 2, 3, 4, 5, 6, 7, 8}
  OBVIOUS
<1> QED BY <1>1, <1>2, <1>3, <1>4, <1>5, <1>6, <1>7, <1>8, <1>9, <1>10, <1>11

\* A pair of heights in the order of their bytes.
ByteOrder == {p \in Heights \X Heights : BytesBefore(p[1], p[2])}

\* Bytes order the heights.
LEMMA BytesOrder == IsOrder(ByteOrder, Heights)
<1> DEFINE B(h) == LittleEndian(h)
<1>1. \A h \in Heights : \A i \in 1 .. 8 : B(h)[i] \in Nat
  BY ByteTypes
<1>2. \A g, h \in Heights : <<g, h>> \in ByteOrder <=>
         \E i \in 1 .. 8 : B(g)[i] < B(h)[i] /\ \A j \in 1 .. i - 1 : B(g)[j] = B(h)[j]
  BY DEF ByteOrder, BytesBefore
<1>3. \A g, h \in Heights : (\A i \in 1 .. 8 : B(g)[i] = B(h)[i]) => g = h
  <2> TAKE g, h \in Heights
  <2> HAVE \A i \in 1 .. 8 : B(g)[i] = B(h)[i]
  <2>1. B(g) = B(h)
    BY DEF LittleEndian
  <2>2. \A x, y \in Heights : LittleEndian(x) = LittleEndian(y) => x = y
    BY EventAssumption
  <2> QED BY <2>1, <2>2
<1> HIDE DEF B
<1>4. \A x \in Heights : <<x, x>> \notin ByteOrder
  BY <1>1, <1>2
<1>5. ASSUME NEW x \in Heights, NEW y \in Heights, NEW z \in Heights,
             <<x, y>> \in ByteOrder, <<y, z>> \in ByteOrder
      PROVE  <<x, z>> \in ByteOrder
  <2>1. PICK i \in 1 .. 8 : B(x)[i] < B(y)[i] /\ \A j \in 1 .. i - 1 : B(x)[j] = B(y)[j]
    BY <1>2, <1>5
  <2>2. PICK k \in 1 .. 8 : B(y)[k] < B(z)[k] /\ \A j \in 1 .. k - 1 : B(y)[j] = B(z)[j]
    BY <1>2, <1>5
  <2>3. CASE i < k
    <3>1. B(x)[i] < B(z)[i]
      BY <2>1, <2>2, <2>3
    <3>2. \A j \in 1 .. i - 1 : B(x)[j] = B(z)[j]
      BY <2>1, <2>2, <2>3
    <3> QED BY <1>2, <3>1, <3>2
  <2>4. CASE k < i
    <3>1. B(x)[k] < B(z)[k]
      BY <2>1, <2>2, <2>4
    <3>2. \A j \in 1 .. k - 1 : B(x)[j] = B(z)[j]
      BY <2>1, <2>2, <2>4
    <3> QED BY <1>2, <3>1, <3>2
  <2>5. CASE i = k
    <3>1. B(x)[i] < B(z)[i]
      BY <1>1, <2>1, <2>2, <2>5
    <3>2. \A j \in 1 .. i - 1 : B(x)[j] = B(z)[j]
      BY <2>1, <2>2, <2>5
    <3> QED BY <1>2, <3>1, <3>2
  <2> QED BY <2>3, <2>4, <2>5
<1>6. ASSUME NEW x \in Heights, NEW y \in Heights, x # y
      PROVE  <<x, y>> \in ByteOrder \/ <<y, x>> \in ByteOrder
  <2> DEFINE D == {i \in 1 .. 8 : B(x)[i] # B(y)[i]}
  <2>1. D # {} /\ D \subseteq Nat
    BY <1>3, <1>6
  <2>2. PICK m \in D : \A i \in D : m <= i
    <3> HIDE DEF D
    <3> QED BY <2>1, NatMin
  <2>3. m \in 1 .. 8 /\ B(x)[m] # B(y)[m]
    OBVIOUS
  <2>4. \A j \in 1 .. m - 1 : B(x)[j] = B(y)[j]
    <3> SUFFICES ASSUME NEW j \in 1 .. m - 1, B(x)[j] # B(y)[j] PROVE FALSE
      OBVIOUS
    <3>1. j \in D /\ j < m
      BY <2>3
    <3>2. m <= j
      BY <2>2, <3>1
    <3> QED BY <2>3, <3>1, <3>2
  <2>5. B(x)[m] < B(y)[m] \/ B(y)[m] < B(x)[m]
    BY <1>1, <2>3
  <2> QED BY <1>2, <2>3, <2>4, <2>5
<1> QED BY <1>4, <1>5, <1>6 DEF IsOrder

\* The event that get_by_tx finds for a number of a transaction.
LEMMA FirstEventFound ==
  ASSUME EventInv, LogInv, AllFlushed, NEW x \in DOMAIN stored
  PROVE  \E k \in DOMAIN stored :
            k[2] = x[2] /\ k[3] = x[3] /\ FirstEvent(x[2], x[3]) = stored[k]
<1> DEFINE keys == {k \in DOMAIN stored : k[2] = x[2] /\ k[3] = x[3]}
           R == {p \in keys \X keys : BytesBefore(p[1][1], p[2][1])}
<1>1. \A k \in DOMAIN stored : stored[k] \in Events /\ Key(stored[k]) = k
  BY FlushedLog
<1>2. \A k \in DOMAIN stored : k[1] \in Heights
  <2> TAKE k \in DOMAIN stored
  <2>1. k[1] = stored[k].block
    BY <1>1, KeyFields
  <2> QED BY <1>1, <2>1 DEF Events
<1>3. \A k, l \in DOMAIN stored : k[1] = l[1] /\ k[2] = l[2] /\ k[3] = l[3] => k = l
  <2> TAKE k, l \in DOMAIN stored
  <2>1. k = <<stored[k].block, stored[k].tx, stored[k].index>>
    BY <1>1 DEF Key
  <2>2. l = <<stored[l].block, stored[l].tx, stored[l].index>>
    BY <1>1 DEF Key
  <2> QED BY <2>1, <2>2
<1>4. IsOrder(R, keys)
  <2>1. \A k, l \in keys : <<k, l>> \in R <=> <<k[1], l[1]>> \in ByteOrder
    BY <1>2 DEF ByteOrder
  <2>2. \A k \in keys : k[1] \in Heights
    BY <1>2
  <2>3. \A k, l \in keys : k # l => k[1] # l[1]
    BY <1>3
  <2> HIDE DEF keys, R
  <2> QED BY <2>1, <2>2, <2>3, BytesOrder DEF IsOrder
<1>5. x \in keys /\ keys \in SUBSET DOMAIN stored
  OBVIOUS
<1>6. IsFiniteSet(keys)
  <2>1. IsFiniteSet(DOMAIN stored)
    BY FlushedLog
  <2> HIDE DEF keys
  <2> QED BY <1>5, <2>1, FS_Subset
<1>7. \E k \in keys : \A l \in keys \ {k} : BytesBefore(k[1], l[1])
  <2> DEFINE n == Cardinality(keys)
             f == Sorted(keys, R)
  <2>1. /\ n \in Nat /\ f \in [1 .. n -> keys]
        /\ \A k \in keys : \E i \in 1 .. n : f[i] = k
        /\ \A i, j \in 1 .. n : i < j => <<f[i], f[j]>> \in R
    <3> HIDE DEF keys, R
    <3> QED BY <1>4, <1>6, SortedProps
  <2> HIDE DEF n, f
  <2>2. 1 \in 1 .. n /\ f[1] \in keys
    BY <1>5, <2>1
  <2>3. ASSUME NEW l \in keys, l # f[1] PROVE BytesBefore(f[1][1], l[1])
    <3>1. PICK i \in 1 .. n : f[i] = l
      BY <2>1
    <3>2. 1 < i
      BY <2>1, <2>3, <3>1
    <3>3. <<f[1], l>> \in R
      BY <2>1, <2>2, <3>1, <3>2
    <3> QED BY <3>3
  <2> HIDE DEF keys
  <2> QED BY <2>2, <2>3
<1>8. FirstEvent(x[2], x[3]) = stored[CHOOSE m \in keys : \A l \in keys \ {m} : BytesBefore(m[1], l[1])]
  BY DEF FirstEvent
<1>9. keys \in SUBSET DOMAIN stored /\ \A m \in keys : m[2] = x[2] /\ m[3] = x[3]
  OBVIOUS
<1> HIDE DEF keys
<1> DEFINE c == CHOOSE m \in keys : \A l \in keys \ {m} : BytesBefore(m[1], l[1])
<1>10. c \in keys
  BY <1>7
<1> HIDE DEF c
<1>11. FirstEvent(x[2], x[3]) = stored[c]
  BY <1>8 DEF c
<1> QED BY <1>9, <1>10, <1>11

\* A query by transaction.
LEMMA TxQuery ==
  ASSUME EventInv, LogInv, AllFlushed, NEW t \in Hashes, NEW found, found = GetByTx(t)
  PROVE  /\ {e.index : e \in Range(found)} = {e.index : e \in Range(MemByTx(t))}
         /\ \A i \in DOMAIN found : found[i].index = i - 1
         /\ (NoRepeat /\ \A d, e \in Range(MemByTx(t)) : d.block = e.block)
                => found = MemByTx(t)
<1> DEFINE F == {FirstEvent(t, x[2]) : x \in {y \in txIndex : y[1] = t}}
           P == {i \in DOMAIN mem : mem[i].tx = t}
           n == Cardinality(F)
           m == Cardinality(P)
           g == [e \in F |-> e.index]
<1>1. /\ mem \in Seq(Events) /\ Len(mem) \in Nat /\ DOMAIN mem = 1 .. Len(mem)
      /\ \A i \in DOMAIN mem : mem[i] \in Events /\ Key(mem[i]) \in DOMAIN stored
      /\ txIndex = {<<k[2], k[3]>> : k \in DOMAIN stored}
      /\ \A k \in DOMAIN stored : stored[k] \in Events /\ Key(stored[k]) = k
      /\ \A k \in DOMAIN stored : \E i \in DOMAIN mem : mem[i] = stored[k]
  BY FlushedLog
<1>2. \A d \in Events : /\ d.index \in Nat /\ d.block \in Nat
                        /\ Key(d)[1] = d.block /\ Key(d)[2] = d.tx /\ Key(d)[3] = d.index
  BY KeyFields
<1>3. \A k \in DOMAIN stored : k[2] = stored[k].tx /\ k[3] = stored[k].index
  BY <1>1, <1>2
<1>4. ASSUME NEW k \in DOMAIN stored, k[2] = t
      PROVE  FirstEvent(t, k[3]) \in F
  <2>1. <<t, k[3]>> \in txIndex
    BY <1>1, <1>4
  <2>2. <<t, k[3]>>[1] = t /\ <<t, k[3]>>[2] = k[3]
    OBVIOUS
  <2> QED BY <2>1, <2>2
<1>5. ASSUME NEW k \in DOMAIN stored, k[2] = t
      PROVE  \E l \in DOMAIN stored :
                l[2] = t /\ l[3] = k[3] /\ FirstEvent(t, k[3]) = stored[l]
  BY <1>5, FirstEventFound
<1>6. ASSUME NEW e \in F
      PROVE  \E k \in DOMAIN stored : k[2] = t /\ e = FirstEvent(t, k[3]) /\ e = stored[k]
                                      /\ e.tx = t /\ e.index = k[3]
  <2>1. PICK x \in txIndex : x[1] = t /\ e = FirstEvent(t, x[2])
    OBVIOUS
  <2>2. PICK k \in DOMAIN stored : x = <<k[2], k[3]>>
    BY <1>1, <2>1
  <2>3. k[2] = t /\ e = FirstEvent(t, k[3])
    BY <2>1, <2>2
  <2>4. PICK l \in DOMAIN stored : l[2] = t /\ l[3] = k[3] /\ FirstEvent(t, k[3]) = stored[l]
    BY <1>5, <2>3
  <2>5. e = FirstEvent(t, l[3]) /\ e = stored[l]
    BY <2>3, <2>4
  <2> QED BY <1>3, <2>4, <2>5
<1>7. P \in SUBSET DOMAIN mem /\ P \in SUBSET (1 .. Len(mem)) /\ \A p \in P : mem[p].tx = t
  BY <1>1
<1>8. \A p \in DOMAIN mem : mem[p].tx = t => p \in P
  OBVIOUS
<1>9. found = Sorted(F, ByNumber(F)) /\ MemByTx(t) = EventsAt(Sorted(P, Upward(P)))
  BY DEF GetByTx, MemByTx
<1> HIDE DEF F, P
<1>10. F \in SUBSET Range(stored)
  BY <1>6 DEF Range
<1>11. IsFiniteSet(F) /\ F \in SUBSET Events /\ \A d, e \in F : Key(d) = Key(e) => d = e
  BY <1>10, StoredSome
<1>12. g \in [F -> Nat] /\ \A e \in F : g[e] = e.index
  BY <1>2, <1>11
<1>13. \A x, y \in F : <<x, y>> \in ByNumber(F) <=> g[x] < g[y]
  BY <1>12 DEF ByNumber
<1>14. \A x, y \in F : g[x] = g[y] => x = y
  BY <1>6, <1>12
<1> HIDE DEF g
<1>15. ASSUME NEW k \in DOMAIN stored, k[2] = t
       PROVE  \E e \in F : g[e] = k[3]
  <2>1. FirstEvent(t, k[3]) \in F
    BY <1>4, <1>15
  <2>2. PICK l \in DOMAIN stored : l[3] = k[3] /\ FirstEvent(t, k[3]) = stored[l]
    BY <1>5, <1>15
  <2> QED BY <1>3, <1>12, <2>1, <2>2
<1>16. ASSUME NEW p \in P
       PROVE  /\ mem[p] \in Events /\ Key(mem[p]) \in DOMAIN stored /\ Key(mem[p])[2] = t
              /\ Key(mem[p])[3] = mem[p].index /\ mem[p].index \in Nat
              /\ \E e \in F : g[e] = mem[p].index
  <2>1. mem[p] \in Events /\ Key(mem[p]) \in DOMAIN stored /\ mem[p].tx = t
    BY <1>1, <1>7
  <2>2. Key(mem[p])[2] = t /\ Key(mem[p])[3] = mem[p].index /\ mem[p].index \in Nat
    BY <1>2, <2>1
  <2> QED BY <1>15, <2>1, <2>2
<1>17. ASSUME NEW e \in F PROVE \E p \in P : mem[p] = e
  <2>1. PICK k \in DOMAIN stored : e = stored[k] /\ e.tx = t
    BY <1>6
  <2>2. PICK p \in DOMAIN mem : mem[p] = stored[k]
    BY <1>1
  <2> QED BY <1>8, <2>1, <2>2
<1>18. ASSUME NEW p \in P, NEW z \in 0 .. mem[p].index - 1
       PROVE  \E q \in P : mem[q].index = z /\ mem[q].block = mem[p].block
  <2>1. p \in DOMAIN mem /\ mem[p].tx = t
    BY <1>7
  <2>2. PICK q \in DOMAIN mem : Key(mem[q]) = <<mem[p].block, t, z>>
    BY <2>1 DEF LogInv, Numbered
  <2>3. mem[q].block = mem[p].block /\ mem[q].tx = t /\ mem[q].index = z
    BY <2>2 DEF Key
  <2> QED BY <1>8, <2>3
<1>19. \A x \in F : \A z \in 0 .. g[x] - 1 : \E y \in F : g[y] = z
  <2> TAKE x \in F
  <2> TAKE z \in 0 .. g[x] - 1
  <2>1. PICK p \in P : mem[p] = x
    BY <1>17
  <2>2. z \in 0 .. mem[p].index - 1
    BY <1>12, <2>1
  <2>3. PICK q \in P : mem[q].index = z
    BY <1>18, <2>2
  <2> QED BY <1>16, <2>3
<1>20. /\ IsOrder(ByNumber(F), F)
       /\ \A i \in 1 .. n : Sorted(F, ByNumber(F))[i] \in F /\ g[Sorted(F, ByNumber(F))[i]] = i - 1
  <2> HIDE DEF n
  <2> QED BY <1>11, <1>12, <1>13, <1>14, <1>19, RankIsNumber DEF n
<1>21. /\ n \in Nat /\ found \in [1 .. n -> F] /\ \A e \in F : \E i \in 1 .. n : found[i] = e
  BY <1>9, <1>11, <1>20, SortedProps
<1>22. DOMAIN found = 1 .. n /\ \A i \in 1 .. n : found[i] \in F /\ g[found[i]] = i - 1
  BY <1>9, <1>20, <1>21
<1>23. Range(found) = F
  BY <1>21 DEF Range
<1>24. /\ IsOrder(Upward(P), P) /\ IsFiniteSet(P)
       /\ \A p, q \in P : <<p, q>> \in Upward(P) <=> p < q
  BY <1>1, <1>7, PlaceOrders
<1> DEFINE s == MemByTx(t)
<1>25. /\ m \in Nat /\ s \in Seq(Events) /\ Len(s) = m
       /\ \A i \in 1 .. m : Sorted(P, Upward(P))[i] \in P /\ s[i] = mem[Sorted(P, Upward(P))[i]]
       /\ Range(s) = {mem[i] : i \in P}
  BY <1>1, <1>7, <1>9, <1>24, PlacesListed
<1> HIDE DEF s
<1>26. {e.index : e \in Range(found)} = {e.index : e \in Range(s)}
  <2>1. \A e \in F : \E d \in Range(s) : e.index = d.index
    BY <1>17, <1>25
  <2>2. \A d \in Range(s) : \E e \in F : e.index = d.index
    BY <1>12, <1>16, <1>25
  <2> QED BY <1>23, <2>1, <2>2
<1>27. \A i \in DOMAIN found : found[i].index = i - 1
  BY <1>12, <1>22
<1>28. ASSUME NoRepeat, \A d, e \in Range(s) : d.block = e.block
       PROVE  found = s
  <2> DEFINE h == [p \in P |-> mem[p].index]
             f == Sorted(P, Upward(P))
  <2>1. \A p, q \in P : mem[p].block = mem[q].block /\ mem[p].tx = mem[q].tx
    BY <1>7, <1>25, <1>28
  <2>2. h \in [P -> Nat] /\ \A p \in P : h[p] = mem[p].index
    BY <1>16
  <2> HIDE DEF h
  <2>3. \A p, q \in P : p < q => h[p] < h[q]
    BY <1>7, <1>28, <2>1, <2>2 DEF LogInv, OneRun
  <2>4. \A p, q \in P : h[p] = h[q] => p = q
    <3> TAKE p, q \in P
    <3>1. h[p] \in Int /\ h[q] \in Int /\ p \in Int /\ q \in Int
      BY <1>7, <2>2
    <3> QED BY <2>3, <3>1
  <2>5. \A p, q \in P : <<p, q>> \in Upward(P) <=> h[p] < h[q]
    <3> TAKE p, q \in P
    <3>1. h[p] \in Int /\ h[q] \in Int /\ p \in Int /\ q \in Int
      BY <1>7, <2>2
    <3>2. p < q <=> h[p] < h[q]
      BY <2>3, <3>1
    <3> QED BY <1>24, <3>2
  <2>6. \A p \in P : \A z \in 0 .. h[p] - 1 : \E q \in P : h[q] = z
    BY <1>18, <2>2
  <2>7. \A i \in 1 .. m : f[i] \in P /\ h[f[i]] = i - 1
    <3> HIDE DEF m
    <3> QED BY <1>24, <2>2, <2>4, <2>5, <2>6, RankIsNumber DEF m
  <2>8. ASSUME NEW p \in P PROVE mem[p] \in F
    <3>1. PICK e \in F : g[e] = mem[p].index
      BY <1>16
    <3>2. PICK q \in P : mem[q] = e
      BY <1>17
    <3>3. h[p] = h[q]
      BY <1>12, <2>2, <3>1, <3>2
    <3> QED BY <2>4, <3>2, <3>3
  <2>9. F = {mem[p] : p \in P}
    BY <1>17, <2>8
  <2>10. n = m
    BY <1>1, <1>7, <1>28, <2>9, PlacesCount
  <2>11. ASSUME NEW i \in 1 .. n PROVE found[i] = s[i]
    <3>1. found[i] \in F /\ g[found[i]] = i - 1
      BY <1>22
    <3>2. i \in 1 .. m /\ f[i] \in P /\ h[f[i]] = i - 1 /\ s[i] = mem[f[i]]
      BY <1>25, <2>7, <2>10
    <3>3. s[i] \in F /\ g[s[i]] = i - 1
      BY <1>12, <2>2, <2>8, <3>2
    <3> QED BY <1>14, <3>1, <3>3
  <2>12. found \in Seq(Events) /\ Len(found) = n
    BY <1>11, <1>21
  <2> HIDE DEF n, m
  <2> QED BY ONLY <1>25, <2>10, <2>11, <2>12
<1> QED BY <1>26, <1>27, <1>28 DEF s

\* Truncate keeps the first elements, all of them or limit.
LEMMA TruncateKeeps ==
  ASSUME NEW s \in Seq(Events), NEW limit \in Nat
  PROVE  /\ Len(Truncate(s, limit)) = IF limit < Len(s) THEN limit ELSE Len(s)
         /\ \A i \in 1 .. Len(Truncate(s, limit)) : i \in 1 .. Len(s) /\ Truncate(s, limit)[i] = s[i]
         /\ DOMAIN Truncate(s, limit) = 1 .. Len(Truncate(s, limit))
<1> DEFINE m == IF limit < Len(s) THEN limit ELSE Len(s)
<1>1. Len(s) \in Nat /\ m \in Nat /\ m <= Len(s)
  OBVIOUS
<1>2. Truncate(s, limit) = SubSeq(s, 1, m)
  BY DEF Truncate
<1> HIDE DEF m
<1>3. \A i \in 1 .. m : i \in 1 .. Len(s) /\ s[i] \in Events
  BY <1>1
<1>4. 1 \in Int /\ m \in Int
  BY <1>1
<1>5. /\ SubSeq(s, 1, m) \in Seq(Events)
      /\ Len(SubSeq(s, 1, m)) = IF 1 <= m THEN m - 1 + 1 ELSE 0
      /\ \A i \in 1 .. m - 1 + 1 : SubSeq(s, 1, m)[i] = s[1 + i - 1]
  BY <1>3, <1>4, SubSeqProperties
<1>6. Len(SubSeq(s, 1, m)) = m /\ DOMAIN SubSeq(s, 1, m) = 1 .. m
  BY <1>1, <1>5
<1>7. \A i \in 1 .. m : SubSeq(s, 1, m)[i] = s[i]
  <2> TAKE i \in 1 .. m
  <2>1. i \in 1 .. m - 1 + 1 /\ 1 + i - 1 = i
    BY <1>1
  <2> QED BY <1>5, <2>1
<1> QED BY <1>2, <1>3, <1>6, <1>7 DEF m

\* A query by address.
LEMMA AddressQuery ==
  ASSUME EventInv, LogInv, AllFlushed, NoRepeat, BlocksAscend,
         NEW a \in Addresses, NEW limit \in QueryLimits,
         NEW found, found = GetByAddress(a, limit),
         NEW expected, expected = MemByAddress(a, limit)
  PROVE  /\ Len(found) = Len(expected)
         /\ \A i \in DOMAIN found : found[i].block = expected[i].block
         /\ \A h \in Heights : Cardinality(Since(a, h)) <= limit =>
                \A answer \in {found, expected} :
                    {e \in Range(answer) : e.block >= h} = {mem[i] : i \in Since(a, h)}
<1> DEFINE F == {e \in Range(stored) : Involves(e, a)}
           P == {i \in DOMAIN mem : Involves(mem[i], a)}
           n == Cardinality(F)
           u == Sorted(F, NewestFirst(F))
           v == Sorted(P, Downward(P))
           s == EventsAt(v)
           b == [e \in F |-> e.block]
           c == [p \in P |-> mem[p].block]
<1>1. mem \in Seq(Events) /\ Len(mem) \in Nat /\ DOMAIN mem = 1 .. Len(mem)
  BY FlushedLog
<1>2. Range(stored) = {mem[i] : i \in DOMAIN mem}
  BY SameEvents
<1>3. P \in SUBSET DOMAIN mem /\ P \in SUBSET (1 .. Len(mem))
  BY <1>1
<1>4. F \in SUBSET Range(stored)
  OBVIOUS
<1>5. F = {mem[i] : i \in P}
  BY <1>2
<1>6. found = Truncate(u, limit) /\ expected = Truncate(s, limit)
  BY DEF GetByAddress, MemByAddress
<1>7. \A h \in Heights : Since(a, h) = {p \in P : mem[p].block >= h}
  BY DEF Since
<1> HIDE DEF F, P
<1>8. /\ IsFiniteSet(F) /\ F \in SUBSET Events
      /\ \A d, e \in F : Key(d) = Key(e) => d = e
  BY <1>4, StoredSome
<1>9. /\ IsOrder(NewestFirst(F), F)
      /\ \A d, e \in F : <<d, e>> \in NewestFirst(F) => d.block >= e.block
  BY <1>8, EventOrders
<1>10. /\ IsOrder(Downward(P), P) /\ IsFiniteSet(P)
      /\ \A p, q \in P : <<p, q>> \in Downward(P) <=> p > q
  BY <1>1, <1>3, PlaceOrders
<1>11. n = Cardinality(P)
  BY <1>1, <1>3, <1>5, PlacesCount
<1>12. /\ n \in Nat /\ u \in [1 .. n -> F]
       /\ \A e \in F : \E i \in 1 .. n : u[i] = e
       /\ \A i, j \in 1 .. n : i < j => <<u[i], u[j]>> \in NewestFirst(F)
       /\ \A i, j \in 1 .. n : i # j => u[i] # u[j]
  BY <1>8, <1>9, SortedProps
<1>13. /\ v \in [1 .. n -> P]
       /\ \A e \in P : \E i \in 1 .. n : v[i] = e
       /\ \A i, j \in 1 .. n : i < j => <<v[i], v[j]>> \in Downward(P)
       /\ \A i, j \in 1 .. n : i # j => v[i] # v[j]
  BY <1>10, <1>11, SortedProps
<1>14. s \in Seq(Events) /\ Len(s) = n /\ \A i \in 1 .. n : s[i] = mem[v[i]]
  BY <1>1, <1>3, <1>10, <1>11, PlacesListed
<1> HIDE DEF u, v, s, n
<1>15. \A e \in Events : e.block \in Nat
  BY KeyFields
<1>16. \A p \in P : mem[p] \in Events
  BY <1>1, <1>3
<1>17. /\ b \in [F -> Int] /\ \A e \in F : b[e] = e.block
       /\ c \in [P -> Int] /\ \A p \in P : c[p] = mem[p].block
  BY <1>8, <1>15, <1>16
<1> HIDE DEF b, c
<1>18. \A i, j \in 1 .. n : i < j => b[u[i]] >= b[u[j]]
  <2> SUFFICES ASSUME NEW i \in 1 .. n, NEW j \in 1 .. n, i < j PROVE b[u[i]] >= b[u[j]]
    OBVIOUS
  <2>1. u[i] \in F /\ u[j] \in F /\ <<u[i], u[j]>> \in NewestFirst(F)
    BY <1>12
  <2>2. u[i].block >= u[j].block
    BY <1>9, <2>1
  <2> QED BY <1>17, <2>1, <2>2
<1>19. \A i, j \in 1 .. n : i < j => c[v[i]] >= c[v[j]]
  <2> SUFFICES ASSUME NEW i \in 1 .. n, NEW j \in 1 .. n, i < j PROVE c[v[i]] >= c[v[j]]
    OBVIOUS
  <2>1. v[i] \in P /\ v[j] \in P /\ v[i] > v[j]
    BY <1>10, <1>13
  <2>2. v[i] \in DOMAIN mem /\ v[j] \in DOMAIN mem /\ v[j] < v[i]
    BY <1>3, <2>1
  <2>3. mem[v[j]].block <= mem[v[i]].block
    BY <2>2 DEF BlocksAscend
  <2>4. c[v[i]] = mem[v[i]].block /\ c[v[j]] = mem[v[j]].block /\ c[v[i]] \in Int /\ c[v[j]] \in Int
    BY <1>17, <2>1
  <2> QED BY <2>3, <2>4
<1>20. \A k \in Int : Cardinality(Above(F, b, k)) = Cardinality(Above(P, c, k))
  <2> TAKE k \in Int
  <2> DEFINE A == {x \in F : b[x] >= k}
             B == {p \in P : c[p] >= k}
  <2>1. B \in SUBSET DOMAIN mem
    BY <1>3
  <2>2. \A p \in P : mem[p] \in F /\ b[mem[p]] = c[p]
    BY <1>5, <1>17
  <2>3. A = {mem[p] : p \in B}
    <3>1. \A x \in A : \E p \in B : x = mem[p]
      BY <1>5, <2>2
    <3>2. \A p \in B : mem[p] \in A
      BY <2>2
    <3> HIDE DEF A, B
    <3> QED BY <3>1, <3>2
  <2> HIDE DEF A, B
  <2>4. Cardinality(A) = Cardinality(B)
    BY <1>1, <2>1, <2>3, PlacesCount
  <2> QED BY <2>4 DEF A, B, Above
<1>21. Falls(n, F, b, u) /\ Falls(n, P, c, v)
  <2>1. Falls(n, F, b, u)
    BY <1>8, <1>12, <1>17, <1>18 DEF Falls
  <2>2. Falls(n, P, c, v)
    BY <1>10, <1>12, <1>13, <1>17, <1>19 DEF Falls
  <2> QED BY <2>1, <2>2
<1>22. ASSUME NEW i \in 1 .. n PROVE u[i] \in F /\ v[i] \in P /\ b[u[i]] = c[v[i]]
  <2>1. SameLevels(F, b, P, c) /\ SameLevels(P, c, F, b)
    BY <1>20 DEF SameLevels
  <2>2. b[u[i]] <= c[v[i]] /\ c[v[i]] <= b[u[i]]
    BY ONLY <1>21, <2>1, i \in 1 .. n, LevelsFall
  <2>3. u[i] \in F /\ v[i] \in P
    BY <1>12, <1>13
  <2>4. b[u[i]] \in Int /\ c[v[i]] \in Int
    BY <1>17, <2>3
  <2> QED BY <2>2, <2>3, <2>4
<1>23. u \in Seq(Events) /\ Len(u) = n
  BY <1>8, <1>12
<1>24. limit \in Nat
  <2>1. QueryLimits \subseteq Nat
    BY EventAssumption
  <2> QED BY <2>1
<1>25. /\ Len(found) = IF limit < n THEN limit ELSE n
       /\ \A i \in 1 .. Len(found) : i \in 1 .. n /\ found[i] = u[i]
       /\ DOMAIN found = 1 .. Len(found)
  BY <1>6, <1>23, <1>24, TruncateKeeps
<1>26. /\ Len(expected) = IF limit < n THEN limit ELSE n
       /\ \A i \in 1 .. Len(expected) : expected[i] = s[i]
       /\ DOMAIN expected = 1 .. Len(expected)
  BY <1>6, <1>14, <1>24, TruncateKeeps
<1>27. Len(found) = Len(expected)
  BY <1>25, <1>26
<1>28. ASSUME NEW i \in DOMAIN found PROVE found[i].block = expected[i].block
  <2>1. i \in 1 .. n /\ found[i] = u[i] /\ expected[i] = mem[v[i]]
    BY <1>14, <1>25, <1>26, <1>27
  <2>2. u[i] \in F /\ v[i] \in P /\ b[u[i]] = c[v[i]]
    BY <1>22, <2>1
  <2> QED BY <1>17, <2>1, <2>2
<1>29. ASSUME NEW h \in Heights, Cardinality(Since(a, h)) <= limit
       PROVE  \A answer \in {found, expected} :
                  {e \in Range(answer) : e.block >= h} = {mem[i] : i \in Since(a, h)}
  <2> DEFINE W == {mem[i] : i \in Since(a, h)}
  <2>1. h \in Int
    BY EventAssumption
  <2>2. Since(a, h) = Above(P, c, h)
    BY <1>17, <1>7 DEF Above
  <2>3. Cardinality(Above(P, c, h)) <= limit /\ Cardinality(Above(F, b, h)) <= limit
    BY <1>20, <1>29, <2>1, <2>2
  <2>4. \A e \in F : e.block >= h <=> e \in W
    BY <1>5, <1>7
  <2>5. W \subseteq F
    BY <1>5, <1>7
  <2>6. \A p \in P : mem[p] \in F
    BY <1>5
  <2>7. ASSUME NEW e \in W PROVE e \in Range(found)
    <3>1. e \in F /\ b[e] >= h
      BY <1>17, <2>4, <2>5
    <3>2. PICK i \in 1 .. n : i <= limit /\ u[i] = e
      BY <1>24, <1>21, <2>1, <2>3, <3>1, FallsWithin
    <3>3. i \in DOMAIN found /\ found[i] = e
      BY <1>12, <1>24, <1>25, <3>2
    <3> QED BY <3>3 DEF Range
  <2>8. ASSUME NEW e \in W PROVE e \in Range(expected)
    <3>1. PICK p \in Since(a, h) : e = mem[p]
      OBVIOUS
    <3>2. p \in P /\ c[p] >= h
      BY <2>2 DEF Above
    <3>3. PICK i \in 1 .. n : i <= limit /\ v[i] = p
      BY <1>24, <1>21, <2>1, <2>3, <3>2, FallsWithin
    <3>4. i \in DOMAIN expected /\ expected[i] = e
      BY <1>12, <1>14, <1>24, <1>26, <3>1, <3>3
    <3> QED BY <3>4 DEF Range
  <2>9. ASSUME NEW e \in Range(found) PROVE e \in F
    BY <1>12, <1>25 DEF Range
  <2>10. ASSUME NEW e \in Range(expected) PROVE e \in F
    <3>1. PICK i \in 1 .. Len(expected) : e = expected[i]
      BY <1>26 DEF Range
    <3>2. i \in 1 .. n /\ e = mem[v[i]]
      BY <1>12, <1>14, <1>24, <1>26, <3>1
    <3> QED BY <1>13, <2>6, <3>2
  <2> HIDE DEF W
  <2>11. {e \in Range(found) : e.block >= h} = W
    BY <2>4, <2>5, <2>7, <2>9
  <2>12. {e \in Range(expected) : e.block >= h} = W
    BY <2>4, <2>5, <2>8, <2>10
  <2> QED BY <2>11, <2>12 DEF W
<1> QED BY <1>27, <1>28, <1>29

\* A log that keeps its invariants answers every query.
LEMMA LogAnswers ==
  ASSUME EventInv, LogInv
  PROVE  QueriesAgree
<1>1. ASSUME AllFlushed, NEW from \in Heights, NEW to \in Heights
      PROVE  LET found == GetByBlockRange(from, to)
             IN /\ \A e \in Range(found) : e.block \in from .. to
                /\ \A h \in Heights \cap from .. to :
                       {e \in Range(found) : e.block = h} = LastVersions(MemByBlock(h))
                /\ \A i, j \in DOMAIN found : i < j => found[i].block <= found[j].block
                /\ NoRepeat =>
                       Len(found) = Cardinality({i \in DOMAIN mem : mem[i].block \in from .. to})
  BY ONLY EventInv, LogInv, <1>1, from \in Heights, to \in Heights, BlockQuery
<1>2. BlockQueriesAgree
  BY ONLY <1>1, Zenon DEF BlockQueriesAgree
<1>3. ASSUME AllFlushed, NEW t \in Hashes
      PROVE  LET found == GetByTx(t)
             IN /\ {e.index : e \in Range(found)} = {e.index : e \in Range(MemByTx(t))}
                /\ \A i \in DOMAIN found : found[i].index = i - 1
                /\ (NoRepeat /\ \A d, e \in Range(MemByTx(t)) : d.block = e.block)
                       => found = MemByTx(t)
  BY ONLY EventInv, LogInv, <1>3, t \in Hashes, TxQuery
<1>4. ASSUME AllFlushed, NoRepeat, BlocksAscend, NEW a \in Addresses, NEW limit \in QueryLimits
      PROVE  LET found == GetByAddress(a, limit)
                 expected == MemByAddress(a, limit)
             IN /\ Len(found) = Len(expected)
                /\ \A i \in DOMAIN found : found[i].block = expected[i].block
                /\ \A h \in Heights : Cardinality(Since(a, h)) <= limit =>
                       \A answer \in {found, expected} :
                           {e \in Range(answer) : e.block >= h} = {mem[i] : i \in Since(a, h)}
  BY ONLY EventInv, LogInv, <1>4, a \in Addresses, limit \in QueryLimits, AddressQuery
<1>5. TxQueriesAgree
  BY ONLY <1>3, Zenon DEF TxQueriesAgree
<1>6. AddressQueriesAgree
  BY ONLY <1>4, Zenon DEF AddressQueriesAgree
<1> QED BY <1>2, <1>5, <1>6 DEF QueriesAgree

\* Once everything is flushed, the two stores agree as far as QueriesAgree says: of
\* every block of a range the persistent store returns the last version of exactly
\* the events the in-memory one returns; a transaction has the same events, in the
\* same order, when it ran in one block; an address has equally many events of each
\* block, and all those of the blocks the limit leaves whole, when blocks came in
\* order and nothing was repeated.  For any heights, limits and faults.
THEOREM QueriesMatch == EventSpec => []QueriesAgree
<1>1. EventInit => EventInv /\ LogInv
  <2> SUFFICES ASSUME EventInit PROVE EventInv /\ LogInv
    OBVIOUS
  <2>1. mem = <<>> /\ buffer = <<>> /\ stored = <<>> /\ count = 0
    BY DEF EventInit
  <2>2. DOMAIN mem = {} /\ DOMAIN stored = {} /\ 1 .. Len(buffer) = {} /\ 1 .. count = {}
    BY <2>1
  <2>3. Named /\ Numbered /\ OneRun
    BY <2>2 DEF Named, Numbered, OneRun
  <2>4. FlushedPrefix
    BY <2>2 DEF FlushedPrefix
  <2> QED BY <2>3, <2>4, EventStart DEF LogInv
<1>2. EventInv /\ LogInv /\ [EventNext]_eventVars => EventInv' /\ LogInv'
  <2> SUFFICES ASSUME EventInv, LogInv, [EventNext]_eventVars PROVE LogInv'
    BY EventStep
  <2>1. ASSUME Flush PROVE LogInv'
    <3>1. mem' = mem /\ FlushBatch(buffer)
      BY <2>1 DEF Flush
    <3>2. buffer \in Seq(Events) /\ mem' \in Seq(Events) /\ Len(mem) <= Len(mem')
          /\ \A i \in 1 .. Len(mem) : mem'[i] = mem[i]
      BY <3>1 DEF EventInv, EventTypes
    <3>3. lost = 0 => \A i \in 1 .. Len(buffer) : buffer[i] = mem'[count + i]
      BY <3>1 DEF LogInv, FlushedPrefix
    <3>4. Named' /\ (lost' = 0 => FlushedPrefix')
      BY ONLY EventInv, LogInv, <3>1, <3>2, <3>3, FlushKeepsLog
    <3>5. Numbered' /\ OneRun'
      BY <3>1 DEF LogInv, Numbered, OneRun, NoRepeat, Key
    <3> QED BY <3>4, <3>5 DEF LogInv
  <2>2. CASE UNCHANGED eventVars
    BY <2>2 DEF eventVars, LogInv, Named, FlushedPrefix, Numbered, OneRun, NoRepeat, Key
  <2> QED BY <2>1, <2>2, AppendKeepsLog, LoseKeepsLog DEF EventNext
<1>3. EventInv /\ LogInv => QueriesAgree
  BY LogAnswers
<1> QED BY <1>1, <1>2, <1>3, PTL DEF EventSpec

=============================================================================
