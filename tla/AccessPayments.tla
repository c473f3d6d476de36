--------------------------- MODULE AccessPayments ---------------------------
(***************************************************************************)
(* The fee an agent pays before it may claim a job: through the Circle     *)
(* Gateway, whose middleware settles a payment before the handler runs, or *)
(* as a plain USDC transfer that the API looks for on chain.  Two requests *)
(* interleave between any two awaited calls.                               *)
(***************************************************************************)
EXTENDS Integers, Sequences, FiniteSets

CONSTANTS
  Postings,     \* jobs whose access is for sale
  Payers, AddressOf,   \* agents, and the payout address of each (two may share one)
  Visits,       \* requests to the two endpoints at a time
  MaxFees       \* bound: fees paid altogether

ASSUME AccessAssumption == MaxFees \in Nat /\ DOMAIN AddressOf = Payers

VARIABLES
  chain,     \* transfers of each payout address to the treasury, oldest first
  window,    \* how many of them are older than the last 500 blocks
  settled,   \* payments the Gateway has settled: id -> payer
  paidRow,   \* job_access_payments: tx_hash, gateway_transaction_id and the payment
             \* of the metadata, 0 for none
  visit      \* the requests in progress

accessVars == <<chain, window, settled, paidRow, visit>>

Addresses == {AddressOf[a] : a \in Payers}
Fees   == 1..MaxFees
Row    == [paid : BOOLEAN, tx : 0..MaxFees, gateway : 0..MaxFees, payment : 0..MaxFees]
NoRow  == [paid |-> FALSE, tx |-> 0, gateway |-> 0, payment |-> 0]
\* named: the handler knows the transaction by its id
Visit  == [pc : {"idle", "scan", "look", "record"}, job : Postings \cup {0},
           agent : Payers \cup {0}, rail : {"gateway", "scan"},
           fee : 0..MaxFees, named : BOOLEAN]
NoVisit == [pc |-> "idle", job |-> 0, agent |-> 0, rail |-> "scan", fee |-> 0, named |-> TRUE]

SentFrom(x) == {chain[x][i] : i \in DOMAIN chain[x]}
Spent == (UNION {SentFrom(x) : x \in Addresses}) \cup {f \in Fees : settled[f] # {}}

AccessInit ==
  /\ chain = [x \in Addresses |-> <<>>]
  /\ window = [x \in Addresses |-> 0]
  /\ settled = [f \in Fees |-> {}]
  /\ paidRow = [k \in Postings \X Payers |-> NoRow]
  /\ visit = [r \in Visits |-> NoVisit]

-----------------------------------------------------------------------------
(* Slips: single definitions below, changed the way a bug would.           *)

CheckedBefore(k, v) == FALSE

-----------------------------------------------------------------------------
(* The chain and the Gateway.                                              *)

NextFee == CHOOSE f \in Fees : f \notin Spent /\ \A g \in Fees \ Spent : f <= g

Transfer(x) ==
  /\ Fees \ Spent # {}
  /\ chain' = [chain EXCEPT ![x] = Append(@, NextFee)]
  /\ UNCHANGED <<window, settled, paidRow, visit>>

BlocksPass(x) ==
  /\ window[x] < Len(chain[x])
  /\ window' = [window EXCEPT ![x] = @ + 1]
  /\ UNCHANGED <<chain, settled, paidRow, visit>>

\* verifyNanopayment: the first transfer found, 0 if there is none.
FirstTransfer(x) == IF window[x] < Len(chain[x]) THEN chain[x][window[x] + 1] ELSE 0

-----------------------------------------------------------------------------
(* The rows.                                                               *)

Column(k, rail) == IF rail = "scan" THEN paidRow[k].tx ELSE paidRow[k].gateway

\* findByTxHash, findByGatewayTransactionId: another row has the id already
UsedElsewhere(k, v) == v.named /\ \E l \in DOMAIN paidRow \ {k} : Column(l, v.rail) = v.fee

\* The unique indexes on tx_hash and gateway_transaction_id; a NULL violates none.
Violates(k, v) == v.named /\ \E l \in DOMAIN paidRow \ {k} : Column(l, v.rail) = v.fee

\* recordPaidAccess: COALESCE keeps the id of the other rail, and of an earlier
\* payment if this one has none; the metadata is replaced.
Recorded(k, v) ==
  [paidRow EXCEPT ![k] =
     [paid    |-> TRUE,
      tx      |-> IF v.rail = "scan" THEN v.fee ELSE @.tx,
      gateway |-> IF v.rail = "gateway" /\ v.named THEN v.fee ELSE @.gateway,
      payment |-> IF v.rail = "gateway" THEN v.fee ELSE 0]]

-----------------------------------------------------------------------------
(* The endpoints.                                                          *)

Key(r) == <<visit[r].job, visit[r].agent>>

VisitEnds(r) == visit' = [visit EXCEPT ![r] = NoVisit]

\* POST access-fee/verify, up to the scan
AskScan(r) ==
  /\ visit[r].pc = "idle"
  /\ \E j \in Postings, a \in Payers :
       visit' = [visit EXCEPT ![r] = [pc |-> "scan", job |-> j, agent |-> a,
                                      rail |-> "scan", fee |-> 0, named |-> TRUE]]
  /\ UNCHANGED <<chain, window, settled, paidRow>>

\* The scan finds a transfer, or none, or fails.
Scan(r) ==
  /\ visit[r].pc = "scan"
  /\ \/ LET found == FirstTransfer(AddressOf[visit[r].agent])
        IN  found # 0 /\ visit' = [visit EXCEPT ![r].pc = "look", ![r].fee = found]
     \/ VisitEnds(r)
  /\ UNCHANGED <<chain, window, settled, paidRow>>

\* GET gateway-access: the middleware has settled the fee when the handler starts,
\* and may name no transaction.  Of another payer than the agent the fee is lost (403).
PayGateway(r) ==
  /\ visit[r].pc = "idle" /\ Fees \ Spent # {}
  /\ \E j \in Postings, a \in Payers, payer \in Addresses, named \in BOOLEAN :
       /\ settled' = [settled EXCEPT ![NextFee] = {payer}]
       /\ IF payer # AddressOf[a] THEN VisitEnds(r)
          ELSE visit' = [visit EXCEPT ![r] = [pc |-> "look", job |-> j, agent |-> a,
                                              rail |-> "gateway", fee |-> NextFee,
                                              named |-> named]]
  /\ UNCHANGED <<chain, window, paidRow>>

LookUp(r) ==
  /\ visit[r].pc = "look"
  /\ IF UsedElsewhere(Key(r), visit[r]) THEN VisitEnds(r)
     ELSE visit' = [visit EXCEPT ![r].pc = "record"]
  /\ UNCHANGED <<chain, window, settled, paidRow>>

RecordAccess(r) ==
  /\ visit[r].pc = "record"
  /\ paidRow' = IF Violates(Key(r), visit[r]) THEN paidRow ELSE Recorded(Key(r), visit[r])
  /\ VisitEnds(r)
  /\ UNCHANGED <<chain, window, settled>>

\* The API dies: a settled fee that is not recorded yet buys nothing.
VisitLost(r) ==
  /\ visit[r].pc # "idle" /\ VisitEnds(r)
  /\ UNCHANGED <<chain, window, settled, paidRow>>

AccessNext ==
  \/ \E x \in Addresses : Transfer(x) \/ BlocksPass(x)
  \/ \E r \in Visits : \/ AskScan(r) \/ Scan(r) \/ PayGateway(r)
                       \/ LookUp(r) \/ RecordAccess(r) \/ VisitLost(r)

-----------------------------------------------------------------------------
(* Properties.                                                             *)

AccessTypeOK ==
  /\ chain \in [Addresses -> Seq(Fees)]
  /\ window \in [Addresses -> 0..MaxFees]
  /\ settled \in [Fees -> SUBSET Addresses]
  /\ paidRow \in [Postings \X Payers -> Row]
  /\ visit \in [Visits -> Visit]

\* Every access rests on a fee from that agent's address, and no two rows carry one
\* transaction, though look-ups and records of both endpoints interleave, some of them
\* without an id to look up (api.mjs:1140-1145, 1177-1180).
EachAccessHasItsFee ==
  \A j \in Postings, a \in Payers :
    LET row  == paidRow[<<j, a>>]
        From == {f \in Fees : settled[f] = {AddressOf[a]}}
    IN  row.paid =>
          /\ \/ row.tx \in SentFrom(AddressOf[a])
             \/ row.gateway \in From \/ row.payment \in From
          /\ \A k \in DOMAIN paidRow \ {<<j, a>>} :
               /\ row.tx # 0 => paidRow[k].tx # row.tx
               /\ row.gateway # 0 => paidRow[k].gateway # row.gateway

=============================================================================
