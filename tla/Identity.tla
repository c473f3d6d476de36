------------------------------ MODULE Identity ------------------------------
(***************************************************************************)
(* Who may speak for an issuer or an agent: registration, the custodial    *)
(* Circle wallet that comes with it, and API keys restored by signing a    *)
(* nonce with the wallet the principal is bound to.  Every await is a step,*)
(* also the calls to Circle and the signature check.                       *)
(***************************************************************************)
EXTENDS Integers, FiniteSets

CONSTANTS
  Names,       \* ids of principals; each is bound to one address, named like it
  IsAgent,     \* which of them register as agents
  Doors,       \* requests to the API at a time
  MaxNonces, MaxWallets, MaxKeys   \* bounds

ASSUME IdentityAssumption ==
  /\ IsAgent \in [Names -> BOOLEAN] /\ "none" \notin Names
  /\ MaxNonces \in Nat /\ MaxWallets \in Nat /\ MaxKeys \in Nat

VARIABLES
  account,   \* issuers and agents: is there a row, and its circle_wallet_id
  circle,    \* wallets Circle has created: id -> the principals it was asked for
  nonces,    \* wallet_auth_nonces: the nonce of each address, 0 for none
  issued,    \* nonces handed out so far
  stale,     \* nonces past expires_at
  keys,      \* api_keys: id -> what it was given for
  door       \* the requests in progress

identityVars == <<account, circle, nonces, issued, stale, keys, door>>

Nonces  == 1..MaxNonces
Wallets == 1..MaxWallets
NoKey   == [via |-> "none", name |-> "none", nonce |-> 0, spent |-> FALSE]
KeyRow  == [via : {"none", "register", "session"}, name : Names \cup {"none"},
            nonce : 0..MaxNonces, spent : BOOLEAN]
Door    == [pc : {"idle", "create", "insert", "event", "bind", "replace", "expired", "verify", "spend",
                  "lookup", "store"},
            name : Names \cup {"none"}, wallet : 0..MaxWallets, nonce : 0..MaxNonces,
            spent : BOOLEAN, provision : BOOLEAN]
Closed  == [pc |-> "idle", name |-> "none", wallet |-> 0, nonce |-> 0, spent |-> FALSE,
            provision |-> FALSE]

IdentityInit ==
  /\ account \in [Names -> [exists : BOOLEAN, wallet : {0}]]
  /\ circle = [w \in Wallets |-> "none"]
  /\ nonces = [n \in Names |-> 0] /\ issued = 0 /\ stale = {}
  /\ keys = [k \in 1..MaxKeys |-> NoKey]
  /\ door = [d \in Doors |-> Closed]

-----------------------------------------------------------------------------
(* Slips: single definitions below, changed the way a bug would.           *)

NonceKept(n) == nonces

-----------------------------------------------------------------------------

Lowest(S) == CHOOSE x \in S : \A y \in S : x <= y

Opens(d, n, pc) == /\ door[d].pc = "idle"
                   /\ door' = [door EXCEPT ![d] = [Closed EXCEPT !.pc = pc, !.name = n]]
DoorAt(d, pc)   == door[d].pc = pc
DoorTo(d, pc) == door' = [door EXCEPT ![d].pc = pc]
DoorShuts(d)    == door' = [door EXCEPT ![d] = Closed]

UnusedKeys == {k \in DOMAIN keys : keys[k] = NoKey}

\* storeApiKey
StoreKey(key) == /\ UnusedKeys # {} /\ keys' = [keys EXCEPT ![Lowest(UnusedKeys)] = key]

-----------------------------------------------------------------------------
(* Registration.  An issuer's wallet comes first, whatever the id; an agent*)
(* registers with a wallet of its own or with one from Circle.             *)

Register(d, n) ==
  /\ Opens(d, n, "create") /\ UNCHANGED <<account, circle, nonces, issued, stale, keys>>

RegisterAgent(d, n) ==
  /\ IsAgent[n] /\ Opens(d, n, "insert")
  /\ UNCHANGED <<account, circle, nonces, issued, stale, keys>>

\* GET and POST wallet, POST faucet: a key holder without a wallet asks for one.
Provision(d, n) ==
  /\ door[d].pc = "idle" /\ account[n].exists /\ account[n].wallet = 0 /\ ~IsAgent[n]
  /\ door' = [door EXCEPT ![d] = [Closed EXCEPT !.pc = "create", !.name = n, !.provision = TRUE]]
  /\ UNCHANGED <<account, circle, nonces, issued, stale, keys>>

\* createAgentWallet and createIssuerWallet, in Circle's hands; it may fail.
CreateWallet(d) ==
  /\ DoorAt(d, "create")
  /\ \/ \E w \in Wallets :
          /\ circle[w] = "none" /\ circle' = [circle EXCEPT ![w] = door[d].name]
          /\ door' = [door EXCEPT ![d].pc = IF door[d].provision THEN "bind" ELSE "insert",
                                  ![d].wallet = w]
     \/ /\ IF door[d].provision THEN DoorShuts(d) ELSE DoorTo(d, "insert")
        /\ UNCHANGED circle
  /\ UNCHANGED <<account, nonces, issued, stale, keys>>

\* createIssuer or createAgent and the first key, in one transaction; 409 if the
\* id is taken, with the wallet left to nobody.
InsertAccount(d) ==
  /\ DoorAt(d, "insert")
  /\ LET n == door[d].name
     IN  IF account[n].exists THEN DoorShuts(d) /\ UNCHANGED <<account, keys>>
         ELSE /\ account' = [account EXCEPT ![n] = [exists |-> TRUE, wallet |-> door[d].wallet]]
              /\ StoreKey([via |-> "register", name |-> n, nonce |-> 0, spent |-> FALSE])
              /\ IF IsAgent[n] THEN DoorTo(d, "event") ELSE DoorShuts(d)
  /\ UNCHANGED <<circle, nonces, issued, stale>>

\* The agent_registered event; if it fails the key is stored and never told.
RegisteredEvent(d) ==
  /\ DoorAt(d, "event") /\ DoorShuts(d)
  /\ UNCHANGED <<account, circle, nonces, issued, stale, keys>>

BindWallet(d) ==
  /\ DoorAt(d, "bind") /\ DoorShuts(d)
  /\ account' = [account EXCEPT ![door[d].name].wallet = door[d].wallet]
  /\ UNCHANGED <<circle, nonces, issued, stale, keys>>

-----------------------------------------------------------------------------
(* Wallet sessions.                                                        *)

\* purgeExpiredNonces
Purged == [n \in Names |-> IF nonces[n] \in stale THEN 0 ELSE nonces[n]]

\* The DELETE of every use: by address, whatever nonce is there by now.
Deleted(n) == [nonces EXCEPT ![n] = 0]

\* createWalletNonce: DELETE, then INSERT
AskNonce(d, n) ==
  /\ Opens(d, n, "replace") /\ nonces' = [Purged EXCEPT ![n] = 0]
  /\ UNCHANGED <<account, circle, issued, stale, keys>>

\* The address is the PRIMARY KEY: of two requests one may fail.
InsertNonce(d) ==
  /\ DoorAt(d, "replace") /\ issued < MaxNonces /\ DoorShuts(d)
  /\ issued' = issued + 1
  /\ nonces' = IF nonces[door[d].name] = 0 THEN [nonces EXCEPT ![door[d].name] = issued + 1]
                                           ELSE nonces
  /\ UNCHANGED <<account, circle, stale, keys>>

NonceExpires(n) ==
  /\ nonces[n] \notin stale \cup {0} /\ stale' = stale \cup {nonces[n]}
  /\ UNCHANGED <<account, circle, nonces, issued, keys, door>>

Granted == {keys[k].nonce : k \in {k \in DOMAIN keys : keys[k].via = "session"}}

\* verifyWalletSession up to its SELECT: the nonce of the message is the stored one.
Verify(d, n, m) ==
  /\ door[d].pc = "idle" /\ m <= issued
  /\ nonces' = Purged
  /\ IF Purged[n] = m
     THEN door' = [door EXCEPT ![d] = [Closed EXCEPT !.pc = "verify", !.name = n, !.nonce = m,
                                                     !.spent = m \in Granted]]
     ELSE UNCHANGED door
  /\ UNCHANGED <<account, circle, issued, stale, keys>>

\* The expiry check, with the DELETE of an expired nonce, then verifyMessage.
CheckSignature(d) ==
  /\ DoorAt(d, "verify")
  /\ \/ door[d].nonce \in stale /\ DoorTo(d, "expired")
     \/ door[d].nonce \notin stale /\ (DoorTo(d, "spend") \/ DoorShuts(d))
  /\ UNCHANGED <<account, circle, nonces, issued, stale, keys>>

SpendNonce(d) ==
  /\ DoorAt(d, "spend") \/ DoorAt(d, "expired")
  /\ nonces' = Deleted(door[d].name)
  /\ IF DoorAt(d, "spend") THEN DoorTo(d, "lookup") ELSE DoorShuts(d)
  /\ UNCHANGED <<account, circle, issued, stale, keys>>

\* The principal bound to the address; 404 if there is none.
FindPrincipal(d) ==
  /\ DoorAt(d, "lookup")
  /\ IF account[door[d].name].exists THEN DoorTo(d, "store") ELSE DoorShuts(d)
  /\ UNCHANGED <<account, circle, nonces, issued, stale, keys>>

GrantKey(d) ==
  /\ DoorAt(d, "store") /\ DoorShuts(d)
  /\ StoreKey([via |-> "session", name |-> door[d].name, nonce |-> door[d].nonce,
               spent |-> door[d].spent])
  /\ UNCHANGED <<account, circle, nonces, issued, stale>>

\* The API dies with the request.
DoorFails(d) ==
  /\ door[d].pc # "idle" /\ DoorShuts(d)
  /\ UNCHANGED <<account, circle, nonces, issued, stale, keys>>

IdentityNext ==
  \/ \E d \in Doors :
       \/ CreateWallet(d) \/ InsertAccount(d) \/ RegisteredEvent(d) \/ BindWallet(d)
       \/ InsertNonce(d) \/ CheckSignature(d) \/ SpendNonce(d) \/ FindPrincipal(d)
       \/ GrantKey(d) \/ DoorFails(d)
       \/ \E n \in Names : \/ Register(d, n) \/ RegisterAgent(d, n) \/ Provision(d, n)
                           \/ AskNonce(d, n) \/ \E m \in Nonces : Verify(d, n, m)
  \/ \E n \in Names : NonceExpires(n)

-----------------------------------------------------------------------------
(* Properties.                                                             *)

IdentityTypeOK ==
  /\ account \in [Names -> [exists : BOOLEAN, wallet : 0..MaxWallets]]
  /\ circle \in [Wallets -> Names \cup {"none"}]
  /\ nonces \in [Names -> 0..MaxNonces] /\ issued \in 0..MaxNonces /\ stale \subseteq Nonces
  /\ keys \in [1..MaxKeys -> KeyRow]
  /\ door \in [Doors -> Door]

\* Every key was earned: the one registration that created its principal got it, or
\* a session whose nonce had granted none when the request read it.  (Requests that
\* read the nonce together may each be granted one: verifyWalletSession deletes it
\* after its await.)  And a principal is never bound to a wallet made for another.
KeysAreEarned ==
  /\ \A k, l \in DOMAIN keys :
       keys[k].via = "register" =>
         /\ account[keys[k].name].exists
         /\ keys[l].via = "register" /\ keys[l].name = keys[k].name => k = l
  /\ \A k \in DOMAIN keys : keys[k].via = "session" => ~keys[k].spent
  /\ \A n \in Names : account[n].wallet # 0 => circle[account[n].wallet] = n

=============================================================================
