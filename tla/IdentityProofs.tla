--------------------------- MODULE IdentityProofs ---------------------------
(***************************************************************************)
(* For any number of principals, requests, wallets, nonces and keys: every *)
(* API key was earned by the registration of its principal or by a nonce   *)
(* that had granted none, and no principal has another one's wallet.       *)
(***************************************************************************)
EXTENDS Identity, TLAPS

IdentitySpec == IdentityInit /\ [][IdentityNext]_identityVars

-----------------------------------------------------------------------------
(* The inductive invariant, in parts.                                      *)

\* Keys are stored in order, each for a principal.
KeysInOrder ==
  /\ \E k \in 0..MaxKeys : \A i \in 1..MaxKeys : (keys[i] = NoKey) <=> (i > k)
  /\ \A i \in 1..MaxKeys : keys[i].via = "register" => keys[i].name \in Names

\* A nonce is stored for one address; one that has granted a key is gone.
NoncesRest ==
  /\ \A n \in Names : nonces[n] <= issued
  /\ \A n, m \in Names : nonces[n] # 0 /\ nonces[n] = nonces[m] => n = m
  /\ \A k \in 1..MaxKeys : keys[k].via = "session" =>
       /\ keys[k].nonce \in 1..issued
       /\ \A n \in Names : nonces[n] # keys[k].nonce

\* From the SELECT of a nonce to the key it grants.
Session == {"expired", "verify", "spend", "lookup", "store"}

\* What a request holds stays its own: the wallet made for it, and the nonce it
\* read, which is never stored for anyone else and not stored at all once deleted.
DoorRests(v) ==
  /\ v.pc # "idle" => v.name \in Names
  /\ v.pc = "create" => v.wallet = 0
  /\ v.pc # "idle" /\ v.wallet # 0 => circle[v.wallet] = v.name
  /\ v.pc \in Session =>
       /\ v.nonce \in 1..issued /\ ~v.spent
       /\ \A n \in Names : nonces[n] = v.nonce => n = v.name
  /\ v.pc \in {"lookup", "store"} => \A n \in Names : nonces[n] # v.nonce

\* Everything but the requests.
RowsTyped ==
  /\ account \in [Names -> [exists : BOOLEAN, wallet : 0..MaxWallets]]
  /\ circle \in [Wallets -> Names \cup {"none"}]
  /\ nonces \in [Names -> 0..MaxNonces] /\ issued \in 0..MaxNonces /\ stale \subseteq Nonces
  /\ keys \in [1..MaxKeys -> KeyRow]

RowsRest == RowsTyped /\ KeysInOrder /\ NoncesRest /\ KeysAreEarned

IdentityInv == IdentityTypeOK /\ RowsRest /\ \A d \in Doors : DoorRests(door[d])

\* Wallets stay whose they are, and nonces change to none or to a new one only.
Lasting ==
  /\ \A w \in Wallets : circle[w] # "none" => circle'[w] = circle[w]
  /\ issued' \in Nat /\ issued <= issued' /\ nonces' \in [Names -> Nat]
  /\ \A n \in Names : nonces'[n] = nonces[n] \/ nonces'[n] = 0 \/ nonces'[n] > issued

-----------------------------------------------------------------------------
(* Lemmas about parts of a step.                                           *)

\* What a request holds outlasts the steps of others.
LEMMA DoorsStay ==
  ASSUME IdentityInv, Lasting, NEW v \in Door, DoorRests(v)
  PROVE  DoorRests(v)'
<1>1. /\ issued \in Nat /\ \A n \in Names : nonces[n] \in Nat
      /\ v.wallet \in 0..MaxWallets /\ v.nonce \in Nat
  BY IdentityAssumption DEF IdentityInv, IdentityTypeOK, Door
<1>2. v.pc # "idle" /\ v.wallet # 0 => circle'[v.wallet] = v.name
  <2> SUFFICES ASSUME v.pc # "idle", v.wallet # 0
               PROVE  circle'[v.wallet] = v.name
    OBVIOUS
  <2>1. v.wallet \in Wallets /\ circle[v.wallet] = v.name /\ v.name # "none"
    BY <1>1, IdentityAssumption DEF DoorRests, Wallets
  <2> QED
    BY <2>1 DEF Lasting
<1>3. v.pc \in Session => v.nonce \in 1..issued' /\ \A n \in Names : nonces'[n] = v.nonce => n = v.name
  BY <1>1 DEF DoorRests, Lasting
<1>4. v.pc \in {"lookup", "store"} => \A n \in Names : nonces'[n] # v.nonce
  BY <1>1 DEF DoorRests, Lasting, Session
<1> QED
  BY <1>2, <1>3, <1>4 DEF DoorRests

\* A request takes a step: what it makes of itself and of the rows is enough.
LEMMA DoorSteps ==
  ASSUME IdentityInv, NEW d \in Doors, NEW v \in Door, door' = [door EXCEPT ![d] = v],
         Lasting, DoorRests(v)', RowsRest'
  PROVE  IdentityInv'
<1>1. /\ door \in [Doors -> Door] /\ \A c \in Doors : door[c] \in Door /\ DoorRests(door[c])
  BY DEF IdentityInv, IdentityTypeOK
<1>2. door'[d] = v /\ \A c \in Doors \ {d} : door'[c] = door[c]
  BY <1>1
<1>3. \A c \in Doors : DoorRests(door[c])'
  <2>1. \A w \in Door : DoorRests(w) => DoorRests(w)'
    BY DoorsStay
  <2>2. ASSUME NEW c \in Doors \ {d}
        PROVE  DoorRests(door[c])'
    <3>1. PICK w \in Door : w = door[c] /\ DoorRests(w)
      BY <1>1
    <3>2. DoorRests(w)' /\ door'[c] = w
      BY <1>2, <2>1, <3>1
    <3> QED
      BY <3>2 DEF DoorRests
  <2>3. DoorRests(door[d])'
    BY <1>2 DEF DoorRests
  <2> QED
    BY <2>2, <2>3
<1>4. IdentityTypeOK'
  BY <1>1 DEF RowsRest, RowsTyped, IdentityTypeOK
<1> QED
  BY <1>3, <1>4 DEF IdentityInv

\* Rows that stay, but for nonces that go.
LEMMA RowsStay ==
  ASSUME IdentityInv, UNCHANGED <<account, circle, issued, keys>>, stale' \subseteq Nonces,
         nonces' \in [Names -> 0..MaxNonces],
         \A n \in Names : nonces'[n] = nonces[n] \/ nonces'[n] = 0
  PROVE  Lasting /\ RowsRest'
<1> USE IdentityAssumption
<1>1. Lasting
  BY DEF Lasting, IdentityInv, IdentityTypeOK
<1>2. RowsTyped' /\ KeysInOrder' /\ KeysAreEarned'
  BY DEF IdentityInv, RowsRest, RowsTyped, KeysInOrder, KeysAreEarned
<1>3. NoncesRest'
  <2>1. issued \in Nat /\ \A n \in Names : nonces[n] \in Nat
    BY DEF IdentityInv, IdentityTypeOK
  <2>2. \A k \in 1..MaxKeys : keys[k].via = "session" => 0 # keys[k].nonce
    BY <2>1 DEF IdentityInv, RowsRest, NoncesRest
  <2> QED
    BY <2>1, <2>2 DEF IdentityInv, RowsRest, NoncesRest
<1> QED
  BY <1>1, <1>2, <1>3 DEF RowsRest

\* A key goes to the first unused place.
LEMMA FirstUnused ==
  ASSUME IdentityInv, UnusedKeys # {}
  PROVE  LET k == Lowest(UnusedKeys)
         IN  /\ k \in 1..MaxKeys /\ keys[k] = NoKey
             /\ \A i \in 1..MaxKeys : (keys[i] = NoKey) <=> (i > k - 1)
<1>1. DOMAIN keys = 1..MaxKeys
  BY DEF IdentityInv, IdentityTypeOK
<1>2. PICK k \in 0..MaxKeys : \A i \in 1..MaxKeys : (keys[i] = NoKey) <=> (i > k)
  BY DEF IdentityInv, RowsRest, KeysInOrder
<1>3. UnusedKeys = {i \in 1..MaxKeys : i > k}
  BY <1>1, <1>2 DEF UnusedKeys
<1>4. k + 1 \in UnusedKeys /\ \A i \in UnusedKeys : k + 1 <= i
  BY <1>3, IdentityAssumption
<1>5. \A x \in UnusedKeys : (\A y \in UnusedKeys : x <= y) => x = k + 1
  BY <1>3, <1>4, IdentityAssumption
<1>6. Lowest(UnusedKeys) = k + 1
  BY <1>4, <1>5 DEF Lowest
<1>7. k + 1 - 1 = k /\ k + 1 \in 1..MaxKeys /\ keys[k + 1] = NoKey
  BY <1>2, <1>3, <1>4
<1> QED
  BY <1>2, <1>6, <1>7

\* The names of a new key's properties: a session's is of a nonce that is gone and
\* was not spent, a registration's of a principal that has none.
LEMMA KeyStored ==
  ASSUME IdentityInv, NEW key \in KeyRow, StoreKey(key), UNCHANGED <<circle, nonces, issued, stale>>,
         account' \in [Names -> [exists : BOOLEAN, wallet : 0..MaxWallets]],
         \A n \in Names : account[n].exists => account'[n].exists,
         \A n \in Names : account'[n].wallet # 0 => circle[account'[n].wallet] = n,
         key.via \in {"register", "session"},
         key.via = "register" => /\ key.name \in Names /\ account'[key.name].exists
                                 /\ \A i \in 1..MaxKeys :
                                      ~(keys[i].via = "register" /\ keys[i].name = key.name),
         key.via = "session" => /\ key.nonce \in 1..issued /\ ~key.spent
                                /\ \A n \in Names : nonces[n] # key.nonce
  PROVE  Lasting /\ RowsRest'
<1> USE IdentityAssumption
<1> DEFINE at == Lowest(UnusedKeys)
<1>1. /\ at \in 1..MaxKeys /\ keys[at] = NoKey /\ keys' = [keys EXCEPT ![at] = key]
      /\ \A i \in 1..MaxKeys : (keys[i] = NoKey) <=> (i > at - 1)
  BY FirstUnused DEF StoreKey
<1>2. keys \in [1..MaxKeys -> KeyRow] /\ key # NoKey
  BY DEF IdentityInv, IdentityTypeOK, NoKey
<1> HIDE DEF at
<1>3. keys'[at] = key /\ \A i \in 1..MaxKeys : i # at => keys'[i] = keys[i]
  BY <1>1, <1>2
<1>4. Lasting
  BY DEF Lasting, IdentityInv, IdentityTypeOK
<1>5. RowsTyped'
  BY <1>1, <1>2 DEF IdentityInv, IdentityTypeOK, RowsTyped
<1>6. KeysInOrder'
  <2>1. at \in 0..MaxKeys /\ \A i \in 1..MaxKeys : (keys'[i] = NoKey) <=> (i > at)
    BY <1>1, <1>2, <1>3
  <2>2. \A i \in 1..MaxKeys : keys'[i].via = "register" => keys'[i].name \in Names
    BY <1>3 DEF IdentityInv, RowsRest, KeysInOrder
  <2> QED
    BY <2>1, <2>2 DEF KeysInOrder
<1>7. NoncesRest'
  BY <1>3 DEF IdentityInv, RowsRest, NoncesRest
<1>8. KeysAreEarned'
  <2>1. DOMAIN keys' = 1..MaxKeys /\ DOMAIN keys = 1..MaxKeys
    BY <1>1, <1>2
  <2>2. KeysAreEarned
    BY DEF IdentityInv, RowsRest
  <2>3. \A k \in 1..MaxKeys : keys[k].via = "register" => keys[k].name \in Names
    BY DEF IdentityInv, RowsRest, KeysInOrder
  <2>4. \A k \in 1..MaxKeys : keys'[k].via = "session" => ~keys'[k].spent
    BY <1>3, <2>1, <2>2 DEF KeysAreEarned
  <2>5. \A k \in 1..MaxKeys : keys'[k].via = "register" => account'[keys'[k].name].exists
    BY <1>3, <2>1, <2>2, <2>3 DEF KeysAreEarned
  <2>6. ASSUME NEW k \in 1..MaxKeys, NEW l \in 1..MaxKeys,
               keys'[k].via = "register", keys'[l].via = "register", keys'[l].name = keys'[k].name
        PROVE  k = l
    <3>1. CASE k = at \/ l = at
      BY <1>3, <2>6, <3>1
    <3>2. CASE k # at /\ l # at
      <4>1. keys'[k] = keys[k] /\ keys'[l] = keys[l]
        BY <1>3, <3>2
      <4>2. keys[k].via = "register" /\ keys[l].via = "register" /\ keys[l].name = keys[k].name
        BY <2>6, <4>1
      <4>3. k \in DOMAIN keys /\ l \in DOMAIN keys
        BY <2>1
      <4> QED
        BY <2>2, <4>2, <4>3, Zenon DEF KeysAreEarned
    <3> QED
      BY <3>1, <3>2
  <2> QED
    BY <2>1, <2>4, <2>5, <2>6 DEF KeysAreEarned
<1> QED
  BY <1>4, <1>5, <1>6, <1>7, <1>8 DEF RowsRest

-----------------------------------------------------------------------------
(* Initially, and at each step.                                            *)

LEMMA IdentityStarts == IdentityInit => IdentityInv
<1> SUFFICES ASSUME IdentityInit
             PROVE  IdentityInv
  OBVIOUS
<1> USE IdentityAssumption DEF IdentityInit
<1>1. \A i \in 1..MaxKeys : keys[i] = NoKey
  OBVIOUS
<1>2. IdentityTypeOK /\ RowsTyped
  BY DEF IdentityTypeOK, RowsTyped, NoKey, KeyRow, Closed, Door, Wallets, Nonces
<1>3. KeysInOrder
  <2>1. 0 \in 0..MaxKeys /\ \A i \in 1..MaxKeys : (keys[i] = NoKey) <=> (i > 0)
    BY <1>1
  <2> QED
    BY <1>1, <2>1 DEF KeysInOrder, NoKey
<1>4. NoncesRest
  BY <1>1 DEF NoncesRest, NoKey
<1>5. KeysAreEarned
  BY DEF KeysAreEarned, NoKey
<1>6. \A d \in Doors : DoorRests(door[d])
  BY DEF DoorRests, Closed, Session
<1> QED
  BY <1>2, <1>3, <1>4, <1>5, <1>6 DEF IdentityInv, RowsRest

\* The values a request may be given.
LEMMA DoorsTyped ==
  ASSUME NEW v \in Door
  PROVE  /\ Closed \in Door
         /\ \A pc \in {"bind", "insert", "event", "expired", "spend", "lookup", "store"} :
              [v EXCEPT !.pc = pc] \in Door
         /\ \A w \in 1..MaxWallets : [v EXCEPT !.wallet = w] \in Door
         /\ \A n \in Names : /\ \A pc \in {"create", "insert", "replace"} :
                                  [Closed EXCEPT !.pc = pc, !.name = n] \in Door
                             /\ [Closed EXCEPT !.pc = "create", !.name = n, !.provision = TRUE] \in Door
<1> USE IdentityAssumption DEF Door
<1>1. Closed \in Door
  BY DEF Closed
<1>2. \A pc \in {"bind", "insert", "event", "expired", "spend", "lookup", "store"} :
        [v EXCEPT !.pc = pc] \in Door
  OBVIOUS
<1>3. \A w \in 1..MaxWallets : [v EXCEPT !.wallet = w] \in Door
  OBVIOUS
<1>4. ASSUME NEW n \in Names, NEW pc \in {"create", "insert", "replace"}
      PROVE  /\ [Closed EXCEPT !.pc = pc, !.name = n] \in Door
             /\ [Closed EXCEPT !.pc = pc, !.name = n, !.provision = TRUE] \in Door
  <2>1. \A c \in Door : /\ [c EXCEPT !.pc = pc] \in Door /\ [c EXCEPT !.name = n] \in Door
                        /\ [c EXCEPT !.provision = TRUE] \in Door
    OBVIOUS
  <2> HIDE DEF Door
  <2> DEFINE begun == [Closed EXCEPT !.pc = pc]  named == [begun EXCEPT !.name = n]
             asking == [named EXCEPT !.provision = TRUE]
  <2>2. begun \in Door
    BY <1>1, <2>1
  <2>3. named \in Door
    <3> HIDE DEF begun
    <3> QED
      BY <2>1, <2>2
  <2>4. asking \in Door
    <3> HIDE DEF named
    <3> QED
      BY <2>1, <2>3
  <2> QED
    BY <2>3, <2>4, Zenon
<1> HIDE DEF Door
<1> QED
  BY <1>1, <1>2, <1>3, <1>4

\* A request that goes on keeps what it has.
LEMMA GoesOn ==
  ASSUME NEW v \in Door, NEW pc
  PROVE  LET w == [v EXCEPT !.pc = pc]
         IN  /\ w.pc = pc /\ w.name = v.name /\ w.wallet = v.wallet
             /\ w.nonce = v.nonce /\ w.spent = v.spent /\ w.provision = v.provision
BY DEF Door

LEMMA GetsWallet ==
  ASSUME NEW v \in Door, NEW id \in Wallets
  PROVE  LET w == [v EXCEPT !.wallet = id]
         IN  w \in Door /\ w.pc = v.pc /\ w.name = v.name /\ w.wallet = id
BY IdentityAssumption DEF Door, Wallets

\* A request that ends, or goes on with what it has and touches no row.
LEMMA QuietSteps ==
  ASSUME IdentityInv, NEW d \in Doors, UNCHANGED <<account, circle, nonces, issued, keys>>,
         stale' \subseteq Nonces,
         \/ UNCHANGED door
         \/ DoorShuts(d)
         \/ \E v \in Door : DoorRests(v) /\ door' = [door EXCEPT ![d] = v]
  PROVE  IdentityInv'
<1>1. Lasting /\ RowsRest'
  BY RowsStay DEF IdentityInv, IdentityTypeOK
<1>2. \A v \in Door : DoorRests(v) => DoorRests(v)'
  BY <1>1, DoorsStay
<1>3. CASE DoorShuts(d)
  <2>1. Closed \in Door /\ DoorRests(Closed)'
    BY IdentityAssumption DEF Closed, Door, DoorRests, Session
  <2> QED
    BY <1>1, <1>3, <2>1, DoorSteps DEF DoorShuts
<1>4. CASE UNCHANGED door
  <2>1. PICK v \in Door : v = door[d] /\ DoorRests(v)
    BY DEF IdentityInv, IdentityTypeOK
  <2>2. door' = [door EXCEPT ![d] = v]
    BY <1>4, <2>1 DEF IdentityInv, IdentityTypeOK
  <2> QED
    BY <1>1, <1>2, <2>1, <2>2, DoorSteps
<1>5. ASSUME NEW v \in Door, DoorRests(v), door' = [door EXCEPT ![d] = v]
      PROVE  IdentityInv'
  BY <1>1, <1>2, <1>5, DoorSteps
<1> QED
  BY <1>3, <1>4, <1>5

\* A request begins with nothing, or goes from one check to the next.
LEMMA PlainSteps ==
  ASSUME IdentityInv, NEW d \in Doors, NEW n \in Names,
         \/ Register(d, n) \/ RegisterAgent(d, n) \/ Provision(d, n) \/ RegisteredEvent(d)
         \/ CheckSignature(d) \/ FindPrincipal(d) \/ DoorFails(d)
  PROVE  IdentityInv'
<1>0. door[d] \in Door /\ DoorRests(door[d]) /\ stale \subseteq Nonces
  BY DEF IdentityInv, IdentityTypeOK
<1>1. CASE Register(d, n) \/ RegisterAgent(d, n) \/ Provision(d, n)
  <2>1. PICK pc \in {"create", "insert"}, b \in BOOLEAN :
          door' = [door EXCEPT ![d] = IF b THEN [Closed EXCEPT !.pc = "create", !.name = n, !.provision = TRUE]
                                           ELSE [Closed EXCEPT !.pc = pc, !.name = n]]
    BY <1>1 DEF Register, RegisterAgent, Provision, Opens
  <2> DEFINE v == IF b THEN [Closed EXCEPT !.pc = "create", !.name = n, !.provision = TRUE]
                       ELSE [Closed EXCEPT !.pc = pc, !.name = n]
  <2>2. v \in Door
    BY <1>0, DoorsTyped
  <2>3. DoorRests(v)
    BY DEF DoorRests, Closed, Session
  <2> HIDE DEF v
  <2> QED
    BY <1>0, <1>1, <2>1, <2>2, <2>3, QuietSteps DEF Register, RegisterAgent, Provision, v
<1>2. CASE RegisteredEvent(d) \/ DoorFails(d)
  BY <1>0, <1>2, QuietSteps DEF RegisteredEvent, DoorFails
<1>3. CASE CheckSignature(d)
  <2>1. DoorShuts(d) \/ \E pc \in {"expired", "spend"} : DoorTo(d, pc)
    BY <1>3 DEF CheckSignature
  <2>2. \A pc \in {"expired", "spend"} : LET v == [door[d] EXCEPT !.pc = pc]
                                         IN  v \in Door /\ DoorRests(v)
    <3>1. door[d].pc = "verify"
      BY <1>3 DEF CheckSignature, DoorAt
    <3> SUFFICES ASSUME NEW pc \in {"expired", "spend"}
                 PROVE  LET v == [door[d] EXCEPT !.pc = pc] IN v \in Door /\ DoorRests(v)
      OBVIOUS
    <3> DEFINE v == [door[d] EXCEPT !.pc = pc]
    <3>2. /\ v \in Door /\ v.pc = pc /\ v.name = door[d].name /\ v.wallet = door[d].wallet
          /\ v.nonce = door[d].nonce /\ v.spent = door[d].spent
      BY <1>0, DoorsTyped, GoesOn
    <3> HIDE DEF v
    <3>3. DoorRests(v)
      BY <1>0, <3>1, <3>2 DEF DoorRests, Session
    <3> QED
      BY <3>2, <3>3 DEF v
  <2>3. \A pc : DoorTo(d, pc) => door' = [door EXCEPT ![d] = [door[d] EXCEPT !.pc = pc]]
    BY DEF DoorTo, IdentityInv, IdentityTypeOK
  <2> QED
    BY <1>0, <1>3, <2>1, <2>2, <2>3, QuietSteps DEF CheckSignature
<1>4. CASE FindPrincipal(d)
  <2>1. DoorShuts(d) \/ DoorTo(d, "store")
    BY <1>4 DEF FindPrincipal
  <2>2. [door[d] EXCEPT !.pc = "store"] \in Door /\ DoorRests([door[d] EXCEPT !.pc = "store"])
    <3>1. door[d].pc = "lookup"
      BY <1>4 DEF FindPrincipal, DoorAt
    <3> DEFINE v == [door[d] EXCEPT !.pc = "store"]
    <3>2. /\ v \in Door /\ v.pc = "store" /\ v.name = door[d].name /\ v.wallet = door[d].wallet
          /\ v.nonce = door[d].nonce /\ v.spent = door[d].spent
      BY <1>0, DoorsTyped, GoesOn
    <3> HIDE DEF v
    <3>3. DoorRests(v)
      BY <1>0, <3>1, <3>2 DEF DoorRests, Session
    <3> QED
      BY <3>2, <3>3 DEF v
  <2>3. DoorTo(d, "store") => door' = [door EXCEPT ![d] = [door[d] EXCEPT !.pc = "store"]]
    BY DEF DoorTo, IdentityInv, IdentityTypeOK
  <2> QED
    BY <1>0, <1>4, <2>1, <2>2, <2>3, QuietSteps DEF FindPrincipal
<1> QED
  BY <1>1, <1>2, <1>3, <1>4

\* Circle makes a wallet for one request, and nobody else's is touched.
LEMMA WalletSteps ==
  ASSUME IdentityInv, NEW d \in Doors, CreateWallet(d) \/ BindWallet(d)
  PROVE  IdentityInv'
<1> USE IdentityAssumption
<1>0. PICK v \in Door : v = door[d] /\ DoorRests(v)
  BY DEF IdentityInv, IdentityTypeOK
<1>1. CASE CreateWallet(d) /\ UNCHANGED circle
  <2>1. stale' \subseteq Nonces /\ UNCHANGED <<account, circle, nonces, issued, keys>>
    BY <1>1 DEF CreateWallet, IdentityInv, IdentityTypeOK
  <2>2. DoorShuts(d) \/ door' = [door EXCEPT ![d] = [v EXCEPT !.pc = "insert"]]
    <3>1. v.name # "none"
      BY <1>0, <1>1 DEF CreateWallet, DoorAt, DoorRests
    <3>2. ~ \E w \in Wallets : circle[w] = "none" /\ circle' = [circle EXCEPT ![w] = v.name]
      BY <1>1, <3>1 DEF IdentityInv, IdentityTypeOK
    <3>3. DoorShuts(d) \/ DoorTo(d, "insert")
      BY <1>0, <1>1, <3>2 DEF CreateWallet
    <3> QED
      BY <1>0, <3>3 DEF DoorTo, IdentityInv, IdentityTypeOK
  <2> DEFINE w == [v EXCEPT !.pc = "insert"]
  <2>3. /\ w \in Door /\ w.pc = "insert" /\ w.name = v.name /\ w.wallet = v.wallet
        /\ v.pc = "create"
    BY <1>0, <1>1, DoorsTyped, GoesOn DEF CreateWallet, DoorAt
  <2> HIDE DEF w
  <2>4. DoorRests(w)
    BY <1>0, <2>3 DEF DoorRests, Session
  <2> QED
    BY <2>1, <2>2, <2>3, <2>4, QuietSteps DEF w
<1>2. ASSUME NEW w \in Wallets, circle[w] = "none", circle' = [circle EXCEPT ![w] = v.name],
             v.pc = "create", NEW pc \in {"bind", "insert"},
             door' = [door EXCEPT ![d].pc = pc, ![d].wallet = w],
             UNCHANGED <<account, nonces, issued, stale, keys>>
      PROVE  IdentityInv'
  <2>1. /\ circle'[w] = v.name /\ \A x \in Wallets \ {w} : circle'[x] = circle[x]
        /\ v.name \in Names /\ circle' \in [Wallets -> Names \cup {"none"}]
    BY <1>0, <1>2 DEF IdentityInv, IdentityTypeOK, DoorRests
  <2>2. Lasting
    BY <1>2, <2>1 DEF Lasting, IdentityInv, IdentityTypeOK
  <2>3. KeysAreEarned'
    <3>1. \A n \in Names : account[n].wallet # 0 => account[n].wallet \in Wallets /\ account[n].wallet # w
      BY <1>2 DEF IdentityInv, RowsRest, RowsTyped, KeysAreEarned, Wallets
    <3>2. \A n \in Names : account'[n].wallet # 0 => circle'[account'[n].wallet] = n
      BY <1>2, <2>1, <3>1 DEF IdentityInv, RowsRest, KeysAreEarned
    <3> QED
      BY <1>2, <3>2 DEF IdentityInv, RowsRest, KeysAreEarned
  <2>4. RowsRest'
    <3>1. RowsTyped' /\ KeysInOrder'
      BY <1>2, <2>1 DEF IdentityInv, RowsRest, RowsTyped, KeysInOrder
    <3>2. NoncesRest'
      BY <1>2 DEF IdentityInv, RowsRest, NoncesRest
    <3> QED
      BY <2>3, <3>1, <3>2 DEF RowsRest
  <2> DEFINE going == [v EXCEPT !.pc = pc]  u == [going EXCEPT !.wallet = w]
  <2>5. going \in Door /\ going.pc = pc /\ going.name = v.name
    BY DoorsTyped, GoesOn
  <2>6. door' = [door EXCEPT ![d] = u]
    BY <1>0, <1>2 DEF IdentityInv, IdentityTypeOK
  <2>7. u \in Door /\ u.pc = pc /\ u.name = v.name /\ u.wallet = w
    <3> HIDE DEF going
    <3> QED
      BY <2>5, GetsWallet
  <2> HIDE DEF u
  <2>8. DoorRests(u)'
    BY <2>1, <2>7 DEF DoorRests, Session
  <2> QED
    BY <2>2, <2>4, <2>6, <2>7, <2>8, DoorSteps
<1>3. CASE BindWallet(d)
  <2>1. /\ v.pc = "bind" /\ v.name \in Names /\ v.wallet \in 0..MaxWallets
        /\ v.wallet # 0 => circle[v.wallet] = v.name
    BY <1>0, <1>3 DEF BindWallet, DoorAt, DoorRests, Door
  <2>2. account' = [account EXCEPT ![v.name].wallet = v.wallet] /\ account \in [Names -> [exists : BOOLEAN, wallet : 0..MaxWallets]]
    BY <1>0, <1>3 DEF BindWallet, IdentityInv, IdentityTypeOK
  <2>3. /\ account' \in [Names -> [exists : BOOLEAN, wallet : 0..MaxWallets]]
        /\ \A n \in Names : account'[n].exists = account[n].exists
        /\ \A n \in Names : account'[n].wallet = IF n = v.name THEN v.wallet ELSE account[n].wallet
    BY <2>1, <2>2
  <2>4. UNCHANGED <<circle, nonces, issued, stale, keys>> /\ DoorShuts(d)
    BY <1>3 DEF BindWallet
  <2>5. KeysAreEarned'
    <3>1. \A k \in DOMAIN keys : keys[k].via = "register" => keys[k].name \in Names
      BY DEF IdentityInv, RowsRest, RowsTyped, KeysInOrder
    <3> QED
      BY <2>1, <2>3, <2>4, <3>1 DEF IdentityInv, RowsRest, KeysAreEarned
  <2>6. RowsRest'
    <3>1. RowsTyped' /\ KeysInOrder'
      BY <2>3, <2>4 DEF IdentityInv, RowsRest, RowsTyped, KeysInOrder
    <3>2. NoncesRest'
      BY <2>4 DEF IdentityInv, RowsRest, NoncesRest
    <3> QED
      BY <2>5, <3>1, <3>2 DEF RowsRest
  <2>7. Lasting
    BY <2>4 DEF Lasting, IdentityInv, IdentityTypeOK
  <2>8. Closed \in Door /\ DoorRests(Closed)'
    BY DEF Closed, Door, DoorRests, Session
  <2> QED
    BY <2>4, <2>6, <2>7, <2>8, DoorSteps DEF DoorShuts
<1>4. CASE CreateWallet(d) /\ ~UNCHANGED circle
  <2>1. PICK w \in Wallets :
          /\ circle[w] = "none" /\ circle' = [circle EXCEPT ![w] = door[d].name]
          /\ door' = [door EXCEPT ![d].pc = IF door[d].provision THEN "bind" ELSE "insert",
                                  ![d].wallet = w]
    BY <1>4 DEF CreateWallet
  <2>2. v.pc = "create" /\ UNCHANGED <<account, nonces, issued, stale, keys>>
    BY <1>0, <1>4 DEF CreateWallet, DoorAt
  <2>3. PICK pc \in {"bind", "insert"} : pc = IF v.provision THEN "bind" ELSE "insert"
    OBVIOUS
  <2> QED
    BY <1>0, <1>2, <2>1, <2>2, <2>3
<1> QED
  BY <1>1, <1>3, <1>4

\* The principal's row and its first key, in one transaction.
LEMMA RegisterStep ==
  ASSUME IdentityInv, NEW d \in Doors, InsertAccount(d)
  PROVE  IdentityInv'
<1> USE IdentityAssumption
<1>0. PICK v \in Door : v = door[d] /\ DoorRests(v) /\ v.pc = "insert"
  BY DEF IdentityInv, IdentityTypeOK, InsertAccount, DoorAt
<1>1. CASE account[v.name].exists
  BY <1>0, <1>1, QuietSteps DEF InsertAccount, IdentityInv, IdentityTypeOK
<1>2. CASE ~account[v.name].exists
  <2> DEFINE key == [via |-> "register", name |-> v.name, nonce |-> 0, spent |-> FALSE]
  <2>1. /\ account' = [account EXCEPT ![v.name] = [exists |-> TRUE, wallet |-> v.wallet]]
        /\ StoreKey(key) /\ UNCHANGED <<circle, nonces, issued, stale>>
        /\ DoorTo(d, "event") \/ DoorShuts(d)
    BY <1>0, <1>2 DEF InsertAccount
  <2>2. /\ v.name \in Names /\ v.wallet \in 0..MaxWallets
        /\ v.wallet # 0 => circle[v.wallet] = v.name
    BY <1>0 DEF DoorRests, Door
  <2>3. /\ account' \in [Names -> [exists : BOOLEAN, wallet : 0..MaxWallets]]
        /\ \A n \in Names : account[n].exists => account'[n].exists
        /\ \A n \in Names : account'[n].wallet # 0 => circle[account'[n].wallet] = n
        /\ account'[v.name].exists
    BY <2>1, <2>2 DEF IdentityInv, IdentityTypeOK, RowsRest, KeysAreEarned
  <2>4. key \in KeyRow /\ key.via = "register" /\ key.name = v.name
    BY <2>2 DEF KeyRow
  <2>5. \A i \in 1..MaxKeys : ~(keys[i].via = "register" /\ keys[i].name = v.name)
    BY <1>2 DEF IdentityInv, IdentityTypeOK, RowsRest, KeysAreEarned
  <2> HIDE DEF key
  <2>6. Lasting /\ RowsRest'
    BY <2>1, <2>2, <2>3, <2>4, <2>5, KeyStored
  <2>7. Closed \in Door /\ DoorRests(Closed)'
    BY DEF Closed, Door, DoorRests, Session
  <2> DEFINE w == [v EXCEPT !.pc = "event"]
  <2>8. w \in Door /\ w.pc = "event" /\ w.name = v.name /\ w.wallet = v.wallet
    BY DoorsTyped, GoesOn
  <2>9. DoorTo(d, "event") => door' = [door EXCEPT ![d] = w]
    BY <1>0 DEF DoorTo, IdentityInv, IdentityTypeOK
  <2> HIDE DEF w
  <2>10. DoorRests(w)'
    BY <2>1, <2>2, <2>8 DEF DoorRests, Session
  <2> QED
    BY <2>1, <2>6, <2>7, <2>8, <2>9, <2>10, DoorSteps DEF DoorShuts
<1> QED
  BY <1>1, <1>2

\* A new nonce, which nobody has seen.
LEMMA NonceStep ==
  ASSUME IdentityInv, NEW d \in Doors, InsertNonce(d)
  PROVE  IdentityInv'
<1> USE IdentityAssumption
<1>1. /\ issued \in Nat /\ issued' = issued + 1 /\ issued < MaxNonces
      /\ nonces \in [Names -> 0..MaxNonces] /\ door[d].name \in Names
      /\ UNCHANGED <<account, circle, stale, keys>> /\ door' = [door EXCEPT ![d] = Closed]
  BY DEF InsertNonce, DoorShuts, IdentityInv, IdentityTypeOK, DoorRests, DoorAt
<1>2. \/ UNCHANGED nonces
      \/ nonces[door[d].name] = 0 /\ nonces' = [nonces EXCEPT ![door[d].name] = issued + 1]
  BY DEF InsertNonce
<1>3. PICK m \in Names : \A n \in Names \ {m} : nonces'[n] = nonces[n]
  BY <1>1, <1>2
<1>4. /\ nonces'[m] = nonces[m] \/ nonces'[m] = issued + 1
      /\ nonces' \in [Names -> 0..MaxNonces] /\ \A n \in Names : nonces[n] <= issued
  BY <1>1, <1>2, <1>3 DEF IdentityInv, RowsRest, NoncesRest
<1>5. Lasting
  BY <1>1, <1>3, <1>4 DEF Lasting
<1>6. NoncesRest'
  <2>1. \A k \in 1..MaxKeys : keys[k].via = "session" => keys[k].nonce \in 1..issued
    BY DEF IdentityInv, RowsRest, NoncesRest
  <2>2. \A n \in Names : nonces'[n] <= issued'
    BY <1>1, <1>3, <1>4
  <2>3. \A n, x \in Names : nonces'[n] # 0 /\ nonces'[n] = nonces'[x] => n = x
    BY <1>1, <1>3, <1>4 DEF IdentityInv, RowsRest, NoncesRest
  <2>4. \A k \in 1..MaxKeys : keys'[k].via = "session" =>
          keys'[k].nonce \in 1..issued' /\ \A n \in Names : nonces'[n] # keys'[k].nonce
    BY <1>1, <1>3, <1>4, <2>1 DEF IdentityInv, RowsRest, NoncesRest
  <2> QED
    BY <2>2, <2>3, <2>4 DEF NoncesRest
<1>7. RowsRest'
  <2>1. RowsTyped'
    BY <1>1, <1>4 DEF IdentityInv, RowsRest, RowsTyped
  <2>2. KeysInOrder'
    BY <1>1 DEF IdentityInv, RowsRest, KeysInOrder
  <2>3. KeysAreEarned'
    BY <1>1 DEF IdentityInv, RowsRest, KeysAreEarned
  <2> QED
    BY <1>6, <2>1, <2>2, <2>3 DEF RowsRest
<1>8. Closed \in Door /\ DoorRests(Closed)'
  BY DEF Closed, Door, DoorRests, Session
<1> QED
  BY <1>1, <1>5, <1>7, <1>8, DoorSteps DEF DoorShuts

\* A wallet session: the nonce is asked for, read, and deleted by address.
LEMMA SessionSteps ==
  ASSUME IdentityInv, NEW d \in Doors,
         \/ \E n \in Names : AskNonce(d, n) \/ \E m \in Nonces : Verify(d, n, m)
         \/ SpendNonce(d)
  PROVE  IdentityInv'
<1> USE IdentityAssumption
<1>0. /\ nonces \in [Names -> 0..MaxNonces] /\ stale \subseteq Nonces
      /\ issued \in 0..MaxNonces /\ door \in [Doors -> Door]
  BY DEF IdentityInv, IdentityTypeOK
<1>1. Closed \in Door /\ DoorRests(Closed)'
  BY DEF Closed, Door, DoorRests, Session
<1>2. ASSUME NEW n \in Names, AskNonce(d, n)
      PROVE  IdentityInv'
  <2>1. Lasting /\ RowsRest'
    BY <1>0, <1>2, RowsStay DEF AskNonce, Purged
  <2> DEFINE v == [Closed EXCEPT !.pc = "replace", !.name = n]
  <2>2. door' = [door EXCEPT ![d] = v] /\ v \in Door /\ DoorRests(v)'
    <3>1. v \in Door
      BY <1>1, DoorsTyped
    <3>2. DoorRests(v)'
      BY DEF DoorRests, Closed, Session
    <3> QED
      BY <1>2, <3>1, <3>2 DEF AskNonce, Opens
  <2> HIDE DEF v
  <2> QED
    BY <2>1, <2>2, DoorSteps
<1>3. ASSUME NEW n \in Names, NEW m \in Nonces, Verify(d, n, m)
      PROVE  IdentityInv'
  <2>1. /\ UNCHANGED <<account, circle, issued, stale, keys>> /\ m \in 1..issued
        /\ nonces' \in [Names -> 0..MaxNonces]
        /\ \A x \in Names : nonces'[x] = nonces[x] \/ nonces'[x] = 0
    <3>1. UNCHANGED <<account, circle, issued, stale, keys>> /\ m <= issued /\ nonces' = Purged
      BY <1>3 DEF Verify
    <3> QED
      BY <1>0, <3>1 DEF Purged, Nonces
  <2>2. Lasting /\ RowsRest'
    BY <1>0, <2>1, RowsStay
  <2>3. CASE UNCHANGED door
    <3>1. PICK v \in Door : v = door[d] /\ DoorRests(v)
      BY <1>0 DEF IdentityInv
    <3>2. DoorRests(v)' /\ door' = [door EXCEPT ![d] = v]
      BY <1>0, <2>2, <2>3, <3>1, DoorsStay
    <3> QED
      BY <2>2, <3>2, DoorSteps
  <2>4. CASE Purged[n] = m
    <3>1. m \notin Granted /\ nonces[n] = m
      <4>1. nonces[n] = m
        BY <1>0, <2>4 DEF Purged, Nonces
      <4>2. \A k \in DOMAIN keys : keys[k].via = "session" => m # keys[k].nonce
        BY <4>1 DEF IdentityInv, IdentityTypeOK, RowsRest, NoncesRest
      <4> QED
        BY <4>1, <4>2 DEF Granted
    <3> DEFINE v == [Closed EXCEPT !.pc = "verify", !.name = n, !.nonce = m, !.spent = FALSE]
    <3>2. door' = [door EXCEPT ![d] = v]
      <4>1. (m \in Granted) = FALSE
        BY <3>1
      <4> QED
        BY <1>3, <2>4, <4>1 DEF Verify
    <3>3. /\ v.pc = "verify" /\ v.name = n /\ v.wallet = 0 /\ v.nonce = m
          /\ v.spent = FALSE /\ v.provision = FALSE
      BY DEF Closed
    <3>4. v \in Door
      <4>1. \A c \in Door : [c EXCEPT !.pc = "verify"] \in Door
        BY DEF Door
      <4>2. \A c \in Door : [c EXCEPT !.name = n] \in Door
        BY DEF Door
      <4>3. \A c \in Door : [c EXCEPT !.nonce = m] \in Door
        BY DEF Door, Nonces
      <4>4. \A c \in Door : [c EXCEPT !.spent = FALSE] \in Door
        BY DEF Door
      <4> DEFINE begun == [Closed EXCEPT !.pc = "verify"]  named == [begun EXCEPT !.name = n]
                 told == [named EXCEPT !.nonce = m]  held == [told EXCEPT !.spent = FALSE]
      <4>5. begun \in Door
        BY <1>1, <4>1
      <4>6. named \in Door
        <5> HIDE DEF begun
        <5> QED
          BY <4>2, <4>5
      <4>7. told \in Door
        <5> HIDE DEF named
        <5> QED
          BY <4>3, <4>6
      <4>8. held \in Door
        <5> HIDE DEF told
        <5> QED
          BY <4>4, <4>7
      <4> QED
        BY <4>8, Zenon
    <3>5. \A x \in Names : nonces'[x] = m => x = n
      BY <2>1, <3>1 DEF IdentityInv, RowsRest, NoncesRest
    <3> HIDE DEF v
    <3>6. DoorRests(v)'
      BY <2>1, <3>3, <3>5 DEF DoorRests, Session
    <3> QED
      BY <2>2, <3>2, <3>4, <3>6, DoorSteps
  <2> QED
    BY <1>3, <2>3, <2>4 DEF Verify
<1>4. CASE SpendNonce(d)
  <2>1. PICK v \in Door : v = door[d] /\ DoorRests(v)
    BY <1>0 DEF IdentityInv
  <2>2. v.pc \in {"spend", "expired"} /\ v.name \in Names
    BY <1>4, <2>1 DEF SpendNonce, DoorAt, DoorRests
  <2>3. /\ nonces' = [nonces EXCEPT ![v.name] = 0]
        /\ UNCHANGED <<account, circle, issued, stale, keys>>
    BY <1>4, <2>1 DEF SpendNonce, Deleted
  <2>4. Lasting /\ RowsRest'
    <3>1. /\ nonces' \in [Names -> 0..MaxNonces]
          /\ \A x \in Names : nonces'[x] = nonces[x] \/ nonces'[x] = 0
      BY <1>0, <2>2, <2>3
    <3> QED
      BY <1>0, <2>3, <3>1, RowsStay
  <2> DEFINE w == [v EXCEPT !.pc = "lookup"]
  <2>5. /\ w \in Door /\ w.pc = "lookup" /\ w.name = v.name /\ w.wallet = v.wallet
        /\ w.nonce = v.nonce /\ w.spent = v.spent
    BY DoorsTyped, GoesOn
  <2>6. DoorShuts(d) \/ door' = [door EXCEPT ![d] = w]
    BY <1>0, <1>4, <2>1 DEF SpendNonce, DoorTo
  <2> HIDE DEF w
  <2>7. DoorRests(w)'
    <3>1. v.nonce \in 1..issued /\ \A x \in Names : nonces[x] = v.nonce => x = v.name
      BY <2>1, <2>2 DEF DoorRests, Session
    <3>2. \A x \in Names : nonces'[x] # v.nonce
      BY <1>0, <2>2, <2>3, <3>1
    <3> QED
      BY <2>1, <2>2, <2>3, <2>5, <3>2 DEF DoorRests, Session
  <2> QED
    BY <1>1, <2>4, <2>5, <2>6, <2>7, DoorSteps DEF DoorShuts
<1> QED
  BY <1>2, <1>3, <1>4

\* The key of a session.
LEMMA GrantStep ==
  ASSUME IdentityInv, NEW d \in Doors, GrantKey(d)
  PROVE  IdentityInv'
<1> USE IdentityAssumption
<1>1. PICK v \in Door : v = door[d] /\ DoorRests(v) /\ v.pc = "store"
  BY DEF IdentityInv, IdentityTypeOK, GrantKey, DoorAt
<1> DEFINE key == [via |-> "session", name |-> v.name, nonce |-> v.nonce, spent |-> v.spent]
<1>2. StoreKey(key) /\ UNCHANGED <<account, circle, nonces, issued, stale>>
  BY <1>1 DEF GrantKey
<1>3. /\ v.nonce \in 1..issued /\ ~v.spent /\ v.name \in Names
      /\ \A n \in Names : nonces[n] # v.nonce
  BY <1>1 DEF DoorRests, Session
<1>4. key \in KeyRow /\ key.via = "session" /\ key.nonce = v.nonce /\ key.spent = v.spent
  BY <1>3 DEF KeyRow, IdentityInv, IdentityTypeOK, Door
<1> HIDE DEF key
<1>5. /\ account' \in [Names -> [exists : BOOLEAN, wallet : 0..MaxWallets]]
      /\ \A n \in Names : account[n].exists => account'[n].exists
      /\ \A n \in Names : account'[n].wallet # 0 => circle[account'[n].wallet] = n
  BY <1>2 DEF IdentityInv, IdentityTypeOK, RowsRest, KeysAreEarned
<1>6. Lasting /\ RowsRest'
  BY <1>2, <1>3, <1>4, <1>5, KeyStored
<1>7. Closed \in Door /\ DoorRests(Closed)' /\ door' = [door EXCEPT ![d] = Closed]
  BY DEF Closed, Door, DoorRests, Session, GrantKey, DoorShuts
<1> QED
  BY <1>6, <1>7, DoorSteps

LEMMA IdentityStep == IdentityInv /\ [IdentityNext]_identityVars => IdentityInv'
<1> SUFFICES ASSUME IdentityInv, [IdentityNext]_identityVars
             PROVE  IdentityInv'
  OBVIOUS
<1>1. ASSUME UNCHANGED <<account, circle, nonces, issued, keys, door>>, stale' \subseteq Nonces
      PROVE  IdentityInv'
  <2>1. Lasting /\ RowsRest'
    BY <1>1, RowsStay DEF IdentityInv, IdentityTypeOK
  <2>2. \A d \in Doors : DoorRests(door[d])'
    <3>1. ASSUME NEW d \in Doors
          PROVE  DoorRests(door[d])'
      <4>1. PICK v \in Door : v = door[d] /\ DoorRests(v)
        BY DEF IdentityInv, IdentityTypeOK
      <4> QED
        BY <1>1, <2>1, <4>1, DoorsStay DEF DoorRests
    <3> QED
      BY <3>1
  <2> QED
    BY <1>1, <2>1, <2>2 DEF IdentityInv, IdentityTypeOK
<1>2. CASE UNCHANGED identityVars
  BY <1>1, <1>2 DEF identityVars, IdentityInv, IdentityTypeOK
<1>3. ASSUME NEW n \in Names, NonceExpires(n)
      PROVE  IdentityInv'
  <2>1. nonces[n] \in Nonces /\ stale' = stale \cup {nonces[n]}
    BY <1>3, IdentityAssumption DEF NonceExpires, IdentityInv, IdentityTypeOK, Nonces
  <2> QED
    BY <1>1, <1>3, <2>1 DEF NonceExpires, IdentityInv, IdentityTypeOK
<1>4. ASSUME NEW d \in Doors,
             \/ CreateWallet(d) \/ InsertAccount(d) \/ BindWallet(d) \/ InsertNonce(d)
             \/ SpendNonce(d) \/ GrantKey(d)
      PROVE  IdentityInv'
  BY <1>4, WalletSteps, RegisterStep, NonceStep, SessionSteps, GrantStep
<1>5. ASSUME NEW d \in Doors,
             RegisteredEvent(d) \/ CheckSignature(d) \/ FindPrincipal(d) \/ DoorFails(d)
      PROVE  IdentityInv'
  <2>1. door[d].pc # "idle"
    BY <1>5 DEF RegisteredEvent, CheckSignature, FindPrincipal, DoorFails, DoorAt
  <2>2. door[d].name \in Names
    BY <2>1 DEF IdentityInv, DoorRests
  <2> QED
    BY <1>5, <2>2, PlainSteps
<1>6. ASSUME NEW d \in Doors, NEW n \in Names,
             \/ Register(d, n) \/ RegisterAgent(d, n) \/ Provision(d, n)
             \/ AskNonce(d, n) \/ \E m \in Nonces : Verify(d, n, m)
      PROVE  IdentityInv'
  BY <1>6, PlainSteps, SessionSteps
<1> QED
  BY <1>2, <1>3, <1>4, <1>5, <1>6 DEF IdentityNext

\* However many requests race for a nonce or an id, a key of a principal comes from its own
\* registration or from a nonce that had granted none, and a wallet from Circle goes
\* to nobody but the principal it was made for.
THEOREM KeysComeFromTheirOwner == IdentitySpec => []KeysAreEarned
<1>1. IdentityInv => KeysAreEarned
  BY DEF IdentityInv, RowsRest
<1> QED
  BY <1>1, IdentityStarts, IdentityStep, PTL DEF IdentitySpec

=============================================================================
