---------------------------- MODULE AgentsProofs ----------------------------
(***************************************************************************)
(* What agents meet before the ledger, for any number of whatever it is.   *)
(*                                                                         *)
(* Access fees: no fee buys two accesses, and every access has one of its  *)
(* own.  AccessInv says that fees are numbered as they are paid and that   *)
(* what a request found of one is still so when it records it.             *)
(*                                                                         *)
(* Workers: CrewInv says that nobody has more leases than it may.          *)
(*                                                                         *)
(* Connections: PoolInv says who stands in line and what is checked out.   *)
(***************************************************************************)
EXTENDS MCAgents, SequenceTheorems, FiniteSetTheorems, TLAPS

-----------------------------------------------------------------------------
(* The access fees.                                                        *)

AccessSpec == AccessInit /\ [][AccessNext]_accessVars

Keys == Postings \X Payers

\* Fees are numbered in the order they are paid.
FeesInOrder ==
  \E k \in 0..MaxFees : /\ Spent = 1..k
                        /\ \A x \in Addresses : Len(chain[x]) <= k

\* Where the fee of a row came from.
RowRests(key) ==
  LET row == paidRow[key]
  IN  /\ row.tx # 0 => row.tx \in SentFrom(AddressOf[key[2]])
      /\ row.gateway # 0 => settled[row.gateway] = {AddressOf[key[2]]}
      /\ row.payment # 0 => settled[row.payment] = {AddressOf[key[2]]}
      /\ row.paid => row.tx # 0 \/ row.gateway # 0 \/ row.payment # 0

\* What a request found is still so when it records it.
VisitRests(v) ==
  v.pc \in {"look", "record"} =>
    /\ v.fee \in Fees
    /\ v.rail = "scan" => v.fee \in SentFrom(AddressOf[v.agent])
    /\ v.rail = "gateway" => settled[v.fee] = {AddressOf[v.agent]}

\* The unique indexes hold.
NoFeeTwice ==
  \A k, l \in Keys : k # l =>
    /\ paidRow[k].tx # 0 => paidRow[l].tx # paidRow[k].tx
    /\ paidRow[k].gateway # 0 => paidRow[l].gateway # paidRow[k].gateway

\* A request is about a job and an agent that exist.
VisitIsFor(v) == /\ v.pc # "idle" => v.job \in Postings /\ v.agent \in Payers
                 /\ v.pc = "scan" => v.rail = "scan"
                 /\ v.rail = "scan" => v.named

AccessInv ==
  /\ AccessTypeOK /\ FeesInOrder /\ NoFeeTwice
  /\ \A k \in Keys : RowRests(k)
  /\ \A r \in Visits : VisitIsFor(visit[r]) /\ VisitRests(visit[r])

-----------------------------------------------------------------------------
(* Fees.                                                                   *)

\* The next fee is the one after those spent.
LEMMA FreshFee ==
  ASSUME FeesInOrder, Fees \ Spent # {}
  PROVE  /\ NextFee \in Fees /\ NextFee \notin Spent
         /\ Spent = 1..(NextFee - 1) /\ \A x \in Addresses : Len(chain[x]) <= NextFee - 1
<1>1. PICK k \in 0..MaxFees : Spent = 1..k /\ \A x \in Addresses : Len(chain[x]) <= k
  BY DEF FeesInOrder
<1>2. k + 1 \in Fees /\ k + 1 \notin Spent /\ \A g \in Fees \ Spent : k + 1 <= g
  BY <1>1, AccessAssumption DEF Fees
<1>3. \A f \in Fees : f \notin Spent /\ (\A g \in Fees \ Spent : f <= g) => f = k + 1
  BY <1>1, <1>2, AccessAssumption DEF Fees
<1>4. NextFee = k + 1
  BY <1>2, <1>3 DEF NextFee
<1>5. k + 1 - 1 = k
  BY <1>1
<1> QED
  BY <1>1, <1>2, <1>4, <1>5

\* A step that pays at most one fee, from address x or through the Gateway.
Keeps == /\ \A x \in Addresses : SentFrom(x) \subseteq {chain'[x][i] : i \in DOMAIN chain'[x]}
         /\ \A f \in Fees : settled[f] # {} => settled'[f] = settled[f]

\* Nothing a row or a request rests on goes away.
LEMMA RestsStay ==
  ASSUME AccessInv, Keeps
  PROVE  /\ \A k \in Keys : paidRow'[k] = paidRow[k] => RowRests(k)'
         /\ \A r \in Visits : visit'[r] = visit[r] => VisitIsFor(visit[r])' /\ VisitRests(visit[r])'
<1>1. \A k \in Keys : AddressOf[k[2]] \in Addresses
  BY AccessAssumption DEF Keys, Addresses
<1>2. \A k \in Keys : /\ paidRow[k].gateway # 0 => paidRow[k].gateway \in Fees
                      /\ paidRow[k].payment # 0 => paidRow[k].payment \in Fees
  BY AccessAssumption DEF AccessInv, AccessTypeOK, Row, Keys, Fees
<1>3. ASSUME NEW k \in Keys, paidRow'[k] = paidRow[k]
      PROVE  RowRests(k)'
  BY <1>1, <1>2, <1>3 DEF AccessInv, Keeps, RowRests, SentFrom
<1>4. ASSUME NEW r \in Visits, visit'[r] = visit[r]
      PROVE  VisitIsFor(visit[r])' /\ VisitRests(visit[r])'
  <2>1. visit[r].pc \in {"look", "record"} => AddressOf[visit[r].agent] \in Addresses
    BY AccessAssumption DEF AccessInv, VisitIsFor, Addresses
  <2>2. VisitIsFor(visit[r]) /\ VisitRests(visit[r])
    BY DEF AccessInv
  <2>3. VisitIsFor(visit[r])'
    BY <1>4, <2>2 DEF VisitIsFor
  <2>4. VisitRests(visit[r])'
    <3>1. ASSUME visit[r].pc \in {"look", "record"}
          PROVE  /\ visit[r].fee \in Fees
                 /\ visit[r].rail = "scan" =>
                      LET x == AddressOf[visit[r].agent]
                      IN  visit[r].fee \in {chain'[x][i] : i \in DOMAIN chain'[x]}
                 /\ visit[r].rail = "gateway" => settled'[visit[r].fee] = {AddressOf[visit[r].agent]}
      <4> DEFINE x == AddressOf[visit[r].agent]
      <4>1. SentFrom(x) \subseteq {chain'[x][i] : i \in DOMAIN chain'[x]}
        BY <2>1, <3>1 DEF Keeps
      <4>2. settled[visit[r].fee] # {} => settled'[visit[r].fee] = settled[visit[r].fee]
        BY <2>2, <3>1 DEF Keeps, VisitRests
      <4> QED
        BY <2>2, <3>1, <4>1, <4>2 DEF VisitRests, SentFrom
    <3> QED
      BY <1>4, <3>1 DEF VisitRests, SentFrom
  <2> QED
    BY <2>3, <2>4
<1> QED
  BY <1>3, <1>4

-----------------------------------------------------------------------------
(* Initially, and at each step.                                            *)

LEMMA AccessStarts == AccessInit => AccessInv
<1> SUFFICES ASSUME AccessInit
             PROVE  AccessInv
  OBVIOUS
<1> USE AccessAssumption DEF AccessInit
<1>1. AccessTypeOK
  BY DEF AccessTypeOK, Row, NoRow, NoVisit, Visit
<1>2. FeesInOrder
  <2>1. Spent = {}
    BY DEF Spent, SentFrom
  <2>2. Spent = 1..0 /\ \A x \in Addresses : Len(chain[x]) <= 0
    BY <2>1
  <2> QED
    BY <2>2, 0 \in 0..MaxFees DEF FeesInOrder
<1>3. \A k \in Keys : /\ paidRow[k].tx = 0 /\ paidRow[k].gateway = 0
                      /\ paidRow[k].payment = 0 /\ ~paidRow[k].paid
  BY DEF Keys, NoRow
<1>4. NoFeeTwice /\ \A k \in Keys : RowRests(k)
  <2>1. NoFeeTwice
    BY <1>3 DEF NoFeeTwice
  <2>2. \A k \in Keys : RowRests(k)
    BY <1>3 DEF RowRests
  <2> QED
    BY <2>1, <2>2
<1>5. \A r \in Visits : VisitIsFor(visit[r]) /\ VisitRests(visit[r])
  BY DEF VisitIsFor, VisitRests, NoVisit
<1> QED
  BY <1>1, <1>2, <1>4, <1>5 DEF AccessInv

\* The chain: a transfer, and time.
LEMMA ChainSteps ==
  ASSUME AccessInv, NEW x \in Addresses, Transfer(x) \/ BlocksPass(x)
  PROVE  AccessInv'
<1> USE DEF AccessInv
<1>1. CASE Transfer(x)
  <2> USE <1>1 DEF Transfer
  <2>1. /\ NextFee \in Fees /\ NextFee \notin Spent
        /\ Spent = 1..(NextFee - 1) /\ \A y \in Addresses : Len(chain[y]) <= NextFee - 1
    BY FreshFee
  <2>2. chain'[x] = Append(chain[x], NextFee) /\ \A y \in Addresses \ {x} : chain'[y] = chain[y]
    BY DEF AccessTypeOK
  <2>3. chain' \in [Addresses -> Seq(Fees)]
    BY <2>1 DEF AccessTypeOK
  <2>4. \A y \in Addresses : SentFrom(y)' = IF y = x THEN SentFrom(y) \cup {NextFee} ELSE SentFrom(y)
    <3>1. chain[x] \in Seq(Fees)
      BY DEF AccessTypeOK
    <3>2. SentFrom(x)' = SentFrom(x) \cup {NextFee}
      <4>1. /\ Len(chain'[x]) = Len(chain[x]) + 1 /\ chain'[x][Len(chain[x]) + 1] = NextFee
            /\ \A i \in 1..Len(chain[x]) : chain'[x][i] = chain[x][i]
            /\ DOMAIN chain'[x] = 1..(Len(chain[x]) + 1) /\ DOMAIN chain[x] = 1..Len(chain[x])
            /\ Len(chain[x]) \in Nat
        BY <2>2, <3>1
      <4> QED
        BY <4>1 DEF SentFrom
    <3> QED
      BY <2>2, <3>2 DEF SentFrom
  <2>5. FeesInOrder'
    <3>1. Spent' = Spent \cup {NextFee}
      BY <2>4 DEF Spent
    <3>2. Spent' = 1..NextFee /\ NextFee \in 0..MaxFees
      BY <2>1, <3>1, AccessAssumption DEF Fees
    <3>3. \A y \in Addresses : Len(chain'[y]) <= NextFee
      BY <2>1, <2>2, AccessAssumption DEF Fees, AccessTypeOK
    <3> DEFINE last == NextFee
    <3> HIDE DEF last
    <3> QED
      BY <3>2, <3>3 DEF FeesInOrder
  <2>6. Keeps
    BY <2>4 DEF Keeps, SentFrom
  <2>7. AccessTypeOK'
    BY <2>3 DEF AccessTypeOK
  <2> QED
    BY <2>5, <2>6, <2>7, RestsStay DEF NoFeeTwice
<1>2. CASE BlocksPass(x)
  <2> USE <1>2 DEF BlocksPass
  <2>1. AccessTypeOK'
    BY AccessAssumption DEF AccessTypeOK, FeesInOrder
  <2>2. Spent' = Spent /\ \A y \in Addresses : SentFrom(y)' = SentFrom(y)
    BY DEF Spent, SentFrom
  <2>3. Keeps
    BY DEF Keeps, SentFrom
  <2>4. FeesInOrder'
    BY <2>2 DEF FeesInOrder
  <2> QED
    BY <2>1, <2>3, <2>4, RestsStay DEF NoFeeTwice
<1> QED
  BY <1>1, <1>2

\* A request that records nothing: what it changes is its own row, and perhaps
\* the fee it pays.
LEMMA VisitSteps ==
  ASSUME AccessInv, NEW r \in Visits, UNCHANGED <<chain, window, paidRow>>,
         Keeps, FeesInOrder', settled' \in [Fees -> SUBSET Addresses],
         NEW v \in Visit, visit' = [visit EXCEPT ![r] = v],
         VisitIsFor(v), VisitRests(v)'
  PROVE  AccessInv'
<1> USE DEF AccessInv
<1>1. AccessTypeOK'
  BY DEF AccessTypeOK
<1>2. visit'[r] = v /\ \A q \in Visits \ {r} : visit'[q] = visit[q]
  BY DEF AccessTypeOK
<1>3. \A q \in Visits : VisitIsFor(visit[q])' /\ VisitRests(visit[q])'
  BY <1>2, RestsStay DEF VisitIsFor, VisitRests
<1> QED
  BY <1>1, <1>3, RestsStay DEF NoFeeTwice

\* The steps of a request up to the one that records, with what it pays.
LEMMA RequestSteps ==
  ASSUME AccessInv, NEW r \in Visits,
         \/ AskScan(r) \/ Scan(r) \/ PayGateway(r) \/ LookUp(r) \/ VisitLost(r)
  PROVE  AccessInv'
<1> USE AccessAssumption DEF AccessInv
<1>1. visit[r] \in Visit /\ VisitIsFor(visit[r]) /\ VisitRests(visit[r])
  BY DEF AccessTypeOK
<1>2. NoVisit \in Visit /\ VisitIsFor(NoVisit) /\ VisitRests(NoVisit)'
  BY DEF NoVisit, Visit, VisitIsFor, VisitRests
<1>3. ASSUME UNCHANGED <<chain, settled>>
      PROVE  /\ Keeps /\ FeesInOrder' /\ settled' \in [Fees -> SUBSET Addresses]
             /\ \A v \in Visit : VisitRests(v) => VisitRests(v)'
  <2>1. Spent' = Spent /\ \A y : SentFrom(y)' = SentFrom(y)
    BY <1>3 DEF Spent, SentFrom
  <2> QED
    BY <1>3, <2>1 DEF Keeps, SentFrom, FeesInOrder, AccessTypeOK, VisitRests
<1>4. CASE VisitEnds(r) /\ UNCHANGED <<chain, window, settled, paidRow>>
  BY <1>2, <1>3, <1>4, VisitSteps DEF VisitEnds
<1>5. CASE AskScan(r)
  <2>1. PICK j \in Postings, a \in Payers :
          visit' = [visit EXCEPT ![r] = [pc |-> "scan", job |-> j, agent |-> a,
                                         rail |-> "scan", fee |-> 0, named |-> TRUE]]
    BY <1>5 DEF AskScan
  <2> DEFINE v == [pc |-> "scan", job |-> j, agent |-> a, rail |-> "scan", fee |-> 0, named |-> TRUE]
  <2>2. v \in Visit /\ VisitIsFor(v) /\ VisitRests(v)'
    BY DEF Visit, VisitIsFor, VisitRests
  <2> HIDE DEF v
  <2> QED
    BY <1>3, <1>5, <2>1, <2>2, VisitSteps DEF AskScan, v
<1>6. ASSUME visit[r].pc = "scan", FirstTransfer(AddressOf[visit[r].agent]) # 0,
             NEW found, found = FirstTransfer(AddressOf[visit[r].agent]),
             visit' = [visit EXCEPT ![r].pc = "look", ![r].fee = found],
             UNCHANGED <<chain, window, settled, paidRow>>
      PROVE  AccessInv'
  <2> DEFINE x == AddressOf[visit[r].agent]  seen == [visit[r] EXCEPT !.pc = "look"]
             v == [seen EXCEPT !.fee = found]
  <2>1. x \in Addresses /\ chain[x] \in Seq(Fees) /\ window[x] \in Nat
    BY <1>1, <1>6 DEF VisitIsFor, Addresses, AccessTypeOK
  <2>2. found \in SentFrom(x) /\ found \in Fees
    <3> HIDE DEF x
    <3>1. window[x] + 1 \in 1..Len(chain[x]) /\ found = chain[x][window[x] + 1]
      <4>1. found = FirstTransfer(x) /\ found # 0
        BY <1>6 DEF x
      <4> QED
        BY <2>1, <4>1 DEF FirstTransfer
    <3>2. window[x] + 1 \in DOMAIN chain[x] /\ found \in Fees
      BY <2>1, <3>1
    <3> QED
      BY <3>1, <3>2 DEF SentFrom
  <2>3. seen \in Visit /\ visit[r].rail \in {"gateway", "scan"}
    BY <1>1 DEF Visit
  <2>4. v \in Visit
    <3> HIDE DEF seen
    <3> QED
      BY <2>2, <2>3 DEF Visit, Fees
  <2>5. visit[r].rail = "scan"
    BY <1>1, <1>6 DEF VisitIsFor
  <2>6. VisitIsFor(v) /\ VisitRests(v)
    BY <1>1, <1>6, <2>2, <2>5 DEF VisitIsFor, VisitRests, Visit
  <2>7. visit' = [visit EXCEPT ![r] = v]
    BY <1>6
  <2> HIDE DEF v
  <2> QED
    BY <1>3, <1>6, <2>4, <2>6, <2>7, VisitSteps
<1>7. CASE Scan(r)
  <2> DEFINE found == FirstTransfer(AddressOf[visit[r].agent])
  <2>1. \/ found # 0 /\ visit' = [visit EXCEPT ![r].pc = "look", ![r].fee = found]
        \/ VisitEnds(r)
    BY <1>7 DEF Scan
  <2>2. visit[r].pc = "scan" /\ UNCHANGED <<chain, window, settled, paidRow>>
    BY <1>7 DEF Scan
  <2> HIDE DEF found
  <2> QED
    BY <1>4, <1>6, <2>1, <2>2 DEF found
<1>8. CASE PayGateway(r)
  <2>1. PICK j \in Postings, a \in Payers, payer \in Addresses, named \in BOOLEAN :
          /\ settled' = [settled EXCEPT ![NextFee] = {payer}]
          /\ IF payer # AddressOf[a] THEN VisitEnds(r)
             ELSE visit' = [visit EXCEPT ![r] = [pc |-> "look", job |-> j, agent |-> a,
                                                 rail |-> "gateway", fee |-> NextFee,
                                                 named |-> named]]
    BY <1>8 DEF PayGateway
  <2>2. /\ NextFee \in Fees /\ NextFee \notin Spent
        /\ Spent = 1..(NextFee - 1) /\ \A y \in Addresses : Len(chain[y]) <= NextFee - 1
    BY <1>8, FreshFee DEF PayGateway
  <2>3. PICK f \in Fees : f = NextFee
    BY <2>2
  <2> DEFINE v == [pc |-> "look", job |-> j, agent |-> a, rail |-> "gateway", fee |-> f,
                   named |-> named]
  <2>4. v \in Visit /\ VisitIsFor(v)
    BY DEF Visit, VisitIsFor, Fees
  <2>5. /\ settled' = [settled EXCEPT ![f] = {payer}]
        /\ settled' \in [Fees -> SUBSET Addresses] /\ settled'[f] = {payer}
        /\ \A g \in Fees : g # f => settled'[g] = settled[g]
    BY <2>1, <2>3 DEF AccessTypeOK, Addresses
  <2>6. settled[f] = {}
    BY <2>2, <2>3 DEF Spent
  <2>7. Keeps
    BY <1>8, <2>5, <2>6 DEF Keeps, PayGateway, SentFrom
  <2>8. FeesInOrder'
    <3>1. Spent' = Spent \cup {f}
      BY <1>8, <2>5, <2>6 DEF Spent, SentFrom, PayGateway
    <3>2. Spent' = 1..f /\ f \in 0..MaxFees /\ \A y \in Addresses : Len(chain'[y]) <= f
      BY <1>8, <2>2, <2>3, <3>1 DEF Fees, PayGateway, AccessTypeOK
    <3> QED
      BY <3>2 DEF FeesInOrder
  <2>9. CASE payer # AddressOf[a]
    <3>1. visit' = [visit EXCEPT ![r] = NoVisit]
      BY <2>1, <2>9 DEF VisitEnds
    <3> QED
      BY <1>2, <1>8, <2>5, <2>7, <2>8, <3>1, VisitSteps DEF PayGateway
  <2>10. CASE payer = AddressOf[a]
    <3>1. VisitRests(v)'
      BY <2>5, <2>10 DEF VisitRests
    <3>2. visit' = [visit EXCEPT ![r] = v]
      BY <2>1, <2>3, <2>10
    <3> HIDE DEF v
    <3> QED
      BY <1>8, <2>4, <2>5, <2>7, <2>8, <3>1, <3>2, VisitSteps DEF PayGateway
  <2> QED
    BY <2>9, <2>10
<1>9. CASE LookUp(r)
  <2> DEFINE v == [visit[r] EXCEPT !.pc = "record"]
  <2>1. VisitEnds(r) \/ visit' = [visit EXCEPT ![r] = v]
    BY <1>9 DEF LookUp
  <2>2. UNCHANGED <<chain, window, settled, paidRow>> /\ visit[r].pc = "look"
    BY <1>9 DEF LookUp
  <2>3. v \in Visit /\ VisitIsFor(v) /\ VisitRests(v)
    BY <1>1, <2>2 DEF Visit, VisitIsFor, VisitRests
  <2> HIDE DEF v
  <2> QED
    BY <1>3, <1>4, <2>1, <2>2, <2>3, VisitSteps
<1>10. CASE VisitLost(r)
  BY <1>4, <1>10 DEF VisitLost
<1> QED
  BY <1>5, <1>7, <1>8, <1>9, <1>10

\* The row of an access: the index refuses a fee that another row has.
LEMMA RecordStep ==
  ASSUME AccessInv, NEW r \in Visits, RecordAccess(r)
  PROVE  AccessInv'
<1> USE AccessAssumption DEF AccessInv
<1>0. PICK v \in Visit : v = visit[r]
  BY DEF AccessTypeOK
<1>1. VisitIsFor(v) /\ VisitRests(v) /\ v.pc = "record"
  BY <1>0 DEF RecordAccess
<1>2. PICK k \in Keys : k = Key(r) /\ k[2] = v.agent
  <2>1. visit[r].job \in Postings /\ visit[r].agent \in Payers /\ visit[r].agent = v.agent
    BY <1>0, <1>1 DEF VisitIsFor
  <2>2. Key(r) \in Keys /\ Key(r)[2] = v.agent
    BY <2>1 DEF Keys, Key
  <2> QED
    BY <2>2
<1>3. /\ v.fee \in Fees /\ v.rail \in {"gateway", "scan"}
      /\ v.rail = "scan" => v.named
      /\ v.rail = "scan" => v.fee \in SentFrom(AddressOf[k[2]])
      /\ v.rail = "gateway" => settled[v.fee] = {AddressOf[k[2]]}
  BY <1>1, <1>2 DEF VisitIsFor, VisitRests, Visit
<1>4. DOMAIN paidRow = Keys /\ \A l \in Keys :
        /\ paidRow[l] \in Row
        /\ RowRests(l)
  BY DEF AccessTypeOK, Keys
<1>5. Keeps
  BY DEF RecordAccess, Keeps, SentFrom
<1>6. FeesInOrder' /\ \A y : SentFrom(y)' = SentFrom(y)
  <2>1. Spent' = Spent /\ \A y : SentFrom(y)' = SentFrom(y)
    BY DEF Spent, SentFrom, RecordAccess
  <2> QED
    BY <2>1 DEF FeesInOrder, RecordAccess
<1>7. visit' \in [Visits -> Visit]
      /\ \A q \in Visits : VisitIsFor(visit[q])' /\ VisitRests(visit[q])'
  <2>1. visit' = [visit EXCEPT ![r] = NoVisit]
    BY DEF RecordAccess, VisitEnds
  <2>2. NoVisit \in Visit /\ VisitIsFor(NoVisit) /\ VisitRests(NoVisit)'
    BY DEF NoVisit, Visit, VisitIsFor, VisitRests
  <2>3. visit'[r] = NoVisit /\ \A q \in Visits \ {r} : visit'[q] = visit[q]
    BY <2>1 DEF AccessTypeOK
  <2> QED
    BY <1>5, <2>1, <2>2, <2>3, RestsStay DEF AccessTypeOK, VisitIsFor, VisitRests
<1>8. CASE UNCHANGED paidRow
  <2>1. AccessTypeOK'
    BY <1>7, <1>8 DEF AccessTypeOK, RecordAccess
  <2> QED
    BY <1>5, <1>6, <1>7, <1>8, <2>1, RestsStay DEF NoFeeTwice
<1>9. ASSUME ~Violates(k, v), paidRow' = Recorded(k, v)
      PROVE  AccessInv'
  <2>1. \A l \in Keys : l # k => paidRow'[l] = paidRow[l]
    BY <1>4, <1>9 DEF Recorded
  <2>2. /\ paidRow'[k].paid
        /\ paidRow'[k].tx = IF v.rail = "scan" THEN v.fee ELSE paidRow[k].tx
        /\ paidRow'[k].gateway
             = IF v.rail = "gateway" /\ v.named THEN v.fee ELSE paidRow[k].gateway
        /\ paidRow'[k].payment = IF v.rail = "gateway" THEN v.fee ELSE 0
    BY <1>2, <1>4, <1>9 DEF Recorded
  <2>3. paidRow' \in [Postings \X Payers -> Row]
    <3>1. [paid    |-> TRUE,
           tx      |-> IF v.rail = "scan" THEN v.fee ELSE paidRow[k].tx,
           gateway |-> IF v.rail = "gateway" /\ v.named THEN v.fee ELSE paidRow[k].gateway,
           payment |-> IF v.rail = "gateway" THEN v.fee ELSE 0] \in Row
      BY <1>2, <1>3, <1>4 DEF Fees, Row
    <3> QED
      BY <1>2, <1>9, <3>1 DEF Recorded, AccessTypeOK, Keys
  <2>4. AccessTypeOK'
    BY <1>7, <2>3 DEF AccessTypeOK, RecordAccess
  <2>5. RowRests(k)'
    <3>1. RowRests(k) /\ UNCHANGED settled /\ v.fee # 0
      BY <1>2, <1>3, <1>4 DEF RecordAccess, Fees
    <3> QED
      BY <1>3, <1>6, <2>2, <3>1 DEF RowRests
  <2>6. \A l \in Keys : RowRests(l)'
    BY <1>5, <2>1, <2>5, RestsStay
  <2>7. NoFeeTwice'
    <3>1. \A l \in Keys : l # k =>
            /\ paidRow'[k].tx # 0 => paidRow[l].tx # paidRow'[k].tx
            /\ paidRow'[k].gateway # 0 => paidRow[l].gateway # paidRow'[k].gateway
      <4>1. CASE v.named
        <5>1. \A l \in Keys : l # k => Column(l, v.rail) # v.fee
          BY <1>4, <1>9, <4>1 DEF Violates
        <5> QED
          BY <1>2, <1>3, <2>2, <4>1, <5>1 DEF NoFeeTwice, Column
      <4>2. CASE ~v.named
        <5>1. paidRow'[k].tx = paidRow[k].tx /\ paidRow'[k].gateway = paidRow[k].gateway
          BY <1>3, <2>2, <4>2
        <5> QED
          BY <1>2, <5>1 DEF NoFeeTwice
      <4> QED
        BY <4>1, <4>2
    <3> QED
      BY <1>2, <2>1, <3>1 DEF NoFeeTwice
  <2> QED
    BY <1>6, <1>7, <2>4, <2>6, <2>7
<1> QED
  BY <1>0, <1>2, <1>8, <1>9 DEF RecordAccess

LEMMA AccessStep == AccessInv /\ [AccessNext]_accessVars => AccessInv'
<1> SUFFICES ASSUME AccessInv, [AccessNext]_accessVars
             PROVE  AccessInv'
  OBVIOUS
<1>1. CASE UNCHANGED accessVars
  <2>1. UNCHANGED <<chain, window, settled, paidRow, visit>>
    BY <1>1 DEF accessVars
  <2>2. Spent' = Spent /\ \A y : SentFrom(y)' = SentFrom(y)
    BY <2>1 DEF Spent, SentFrom
  <2>3. Keeps /\ FeesInOrder' /\ AccessTypeOK'
    BY <2>1, <2>2 DEF Keeps, SentFrom, FeesInOrder, AccessInv, AccessTypeOK
  <2> QED
    BY <2>1, <2>3, RestsStay DEF AccessInv, NoFeeTwice
<1> QED
  BY <1>1, ChainSteps, RequestSteps, RecordStep DEF AccessNext

\* However many requests race for the fees of however many agents, at either endpoint,
\* no two accesses rest on one fee, and each on one from its agent's address.
THEOREM FeesBuyOnce == AccessSpec => []EachAccessHasItsFee
<1>1. AccessInv => EachAccessHasItsFee
  <2> SUFFICES ASSUME AccessInv, NEW j \in Postings, NEW a \in Payers, paidRow[<<j, a>>].paid
               PROVE  LET row  == paidRow[<<j, a>>]
                          From == {f \in Fees : settled[f] = {AddressOf[a]}}
                      IN  /\ \/ row.tx \in SentFrom(AddressOf[a])
                             \/ row.gateway \in From \/ row.payment \in From
                          /\ \A k \in DOMAIN paidRow \ {<<j, a>>} :
                               /\ row.tx # 0 => paidRow[k].tx # row.tx
                               /\ row.gateway # 0 => paidRow[k].gateway # row.gateway
    BY DEF EachAccessHasItsFee
  <2>1. <<j, a>> \in Keys /\ <<j, a>>[2] = a /\ DOMAIN paidRow = Keys
    BY DEF AccessInv, AccessTypeOK, Keys
  <2>2. RowRests(<<j, a>>) /\ paidRow[<<j, a>>] \in Row
    BY <2>1 DEF AccessInv, AccessTypeOK, Keys
  <2>3. /\ paidRow[<<j, a>>].gateway # 0 => paidRow[<<j, a>>].gateway \in Fees
        /\ paidRow[<<j, a>>].payment # 0 => paidRow[<<j, a>>].payment \in Fees
    BY <2>2, AccessAssumption DEF Fees, Row
  <2> QED
    BY <2>1, <2>2, <2>3 DEF AccessInv, RowRests, NoFeeTwice
<1> QED
  BY <1>1, AccessStarts, AccessStep, PTL DEF AccessSpec


-----------------------------------------------------------------------------
(* The workers.                                                            *)

CrewSpec == CrewInit /\ [][CrewNext]_crewVars

\* The jobs a worker holds a running lease on.
HeldBy(w) == {o \in Offers : board[o] = "claimed" /\ holder[o] = w}

\* The leases that level n allows, and no worker whose record never rises above that
\* level has more, however many claims are granted without the worker hearing of it.
LeasesKept ==
  \A w \in Crew, n \in 1..3 : Ratings[w] \subseteq 0..n =>
    IsFiniteSet(HeldBy(w)) /\ Cardinality(HeldBy(w)) <= LeasesOf[n]

CrewInv == CrewTypeOK /\ LeasesKept

Statuses == {"unposted", "unfunded", "open", "claimed", "lapsed", "proved"}

\* The limits of the levels are numbers, and a higher level has the higher one.
LEMMA HigherHasMore ==
  \A n \in 1..3 : LeasesOf[n] \in Nat /\ \A m \in 1..n : LeasesOf[m] <= LeasesOf[n]
BY DEF LeasesOf

LEMMA CrewStarts == CrewInit => CrewInv
<1> SUFFICES ASSUME CrewInit PROVE CrewInv
  OBVIOUS
<1> USE CrewAssumption DEF CrewInit
<1>1. \A w \in Crew : loop[w] \in {Fresh, Stopped} /\ HeldBy(w) = {}
  BY DEF HeldBy
<1>2. Fresh \in Loop /\ Stopped \in Loop
  BY DEF Fresh, Stopped, Loop
<1>3. CrewTypeOK
  <2>1. loop \in [Crew -> Loop]
    BY <1>2
  <2>2. \A w \in Crew : /\ LoopAt(w, "claim") <=> loop[w].queue # {}
                        /\ loop[w].pc \in {"perform", "prove"} <=> loop[w].job # Nobody
    BY <1>1 DEF Fresh, Stopped, LoopAt
  <2> QED BY <2>1, <2>2 DEF CrewTypeOK
<1>4. LeasesKept
  <2>1. IsFiniteSet({}) /\ Cardinality({}) = 0
    BY FS_EmptySet
  <2>2. \A n \in 1..3 : 0 <= LeasesOf[n]
    BY HigherHasMore
  <2> QED BY <1>1, <2>1, <2>2 DEF LeasesKept
<1> QED BY <1>3, <1>4 DEF CrewInv

\* A sweep reopens lapsed leases and leaves the running ones alone.
LEMMA SweepKeeps ==
  ASSUME CrewTypeOK
  PROVE  /\ Swept \in [Offers -> Statuses]
         /\ \A o \in Offers : Swept[o] = "claimed" <=> board[o] = "claimed"
  BY DEF CrewTypeOK, Swept, Statuses

\* The shape of a worker's loop.
LoopShape(l) == /\ l \in Loop
                /\ l.pc = "claim" <=> l.queue # {}
                /\ l.pc \in {"perform", "prove"} <=> l.job # Nobody

LEMMA ShapesAreType ==
  CrewTypeOK <=>
    /\ board \in [Offers -> Statuses]
    /\ holder \in [Offers -> Crew \cup {Nobody}]
    /\ access \subseteq Crew \X Offers
    /\ level \in [Crew -> 0..3] /\ \A w \in Crew : level[w] \in Ratings[w]
    /\ loop \in [Crew -> Loop] /\ \A w \in Crew : LoopShape(loop[w])
  BY DEF CrewTypeOK, Statuses, LoopShape, LoopAt

\* What ends a cycle is a loop without a job.
LEMMA EndsShape ==
  /\ LoopShape(Fresh) /\ LoopShape(Stopped)
  /\ ~(Fresh.pc \in {"perform", "prove"}) /\ ~(Stopped.pc \in {"perform", "prove"})
  BY DEF LoopShape, Fresh, Stopped, Loop

\* Without a new claim nobody has more leases.
LEMMA NoNewLease ==
  ASSUME LeasesKept, holder' = holder,
         \A o \in Offers : board'[o] = "claimed" => board[o] = "claimed"
  PROVE  LeasesKept'
<1> SUFFICES ASSUME NEW w \in Crew, NEW n \in 1..3, Ratings[w] \subseteq 0..n
             PROVE  IsFiniteSet(HeldBy(w)') /\ Cardinality(HeldBy(w)') <= LeasesOf[n]
  BY DEF LeasesKept
<1>1. HeldBy(w)' \in SUBSET HeldBy(w)
  BY DEF HeldBy
<1>2. IsFiniteSet(HeldBy(w)) /\ Cardinality(HeldBy(w)) <= LeasesOf[n]
  BY DEF LeasesKept
<1>3. /\ IsFiniteSet(HeldBy(w)') /\ Cardinality(HeldBy(w)') <= Cardinality(HeldBy(w))
  BY <1>1, <1>2, FS_Subset
<1>4. Cardinality(HeldBy(w)) \in Nat /\ Cardinality(HeldBy(w)') \in Nat /\ LeasesOf[n] \in Nat
  BY <1>2, <1>3, FS_CardinalityType, HigherHasMore
<1> QED BY <1>2, <1>3, <1>4

\* A step in which one worker's loop moves and no job is claimed.
LEMMA LoopMoves ==
  ASSUME CrewInv, NEW w \in Crew, NEW l, LoopShape(l), loop' = [loop EXCEPT ![w] = l],
         UNCHANGED <<holder, access, level>>, board' \in [Offers -> Statuses],
         \A o \in Offers : board'[o] = "claimed" => board[o] = "claimed"
  PROVE  CrewInv'
<1>1. /\ loop \in [Crew -> Loop] /\ \A x \in Crew : LoopShape(loop[x])
      /\ holder \in [Offers -> Crew \cup {Nobody}] /\ access \subseteq Crew \X Offers
      /\ level \in [Crew -> 0..3] /\ \A x \in Crew : level[x] \in Ratings[x]
  BY ShapesAreType DEF CrewInv
<1>2. /\ loop' \in [Crew -> Loop] /\ loop'[w] = l
      /\ \A x \in Crew \ {w} : loop'[x] = loop[x]
  BY <1>1 DEF LoopShape
<1>3. \A x \in Crew : LoopShape(loop'[x])
  BY <1>1, <1>2
<1>4. CrewTypeOK'
  BY <1>1, <1>2, <1>3 DEF CrewTypeOK, Statuses, LoopShape, LoopAt
<1> QED BY <1>4, NoNewLease DEF CrewInv

LEMMA ListKeeps == ASSUME CrewInv, NEW w \in Crew, List(w) PROVE CrewInv'
<1> DEFINE found == {o \in Offers : Listed(o) /\ Wanted(w, o)}
           asks  == [pc |-> "claim", queue |-> found, job |-> Nobody]
<1> USE DEF List
<1>1. CrewTypeOK /\ access \subseteq Crew \X Offers
  BY DEF CrewInv, CrewTypeOK
<1>2. PICK l \in {Fresh, Stopped, asks} : /\ loop' = [loop EXCEPT ![w] = l]
                                          /\ l = asks => found # {}
  <2>1. CASE found = {}
    <3>1. \E l \in {Fresh, Stopped} : loop' = [loop EXCEPT ![w] = l]
      BY <2>1 DEF EndCycle
    <3>2. Fresh # asks /\ Stopped # asks
      BY DEF Fresh, Stopped
    <3> HIDE DEF asks
    <3> QED BY <3>1, <3>2
  <2>2. CASE found # {}
    BY <2>2
  <2> QED BY <2>1, <2>2
<1>3. LoopShape(l)
  <2>1. found # {} => LoopShape(asks)
    BY DEF LoopShape, Loop
  <2> QED BY <1>2, <2>1, EndsShape
<1>4. board' = Swept /\ UNCHANGED <<holder, access, level>>
  OBVIOUS
<1> HIDE DEF List
<1> QED BY <1>1, <1>2, <1>3, <1>4, SweepKeeps, LoopMoves

\* A request that is lost or refused, work that fails: the worker lets go, or tries the
\* next candidate, and no running lease is touched.
LEMMA LetGoKeeps ==
  ASSUME CrewInv, NEW w \in Crew,
         RequestLost(w) \/ \E o \in Offers : ClaimRefused(w, o)
  PROVE  CrewInv'
<1>1. CrewTypeOK /\ access \subseteq Crew \X Offers /\ board \in [Offers -> Statuses]
  BY DEF CrewInv, CrewTypeOK, Statuses
<1>2. board' \in {board, Swept} /\ UNCHANGED <<holder, access, level>>
  BY DEF RequestLost, ClaimRefused
<1>3. board' \in [Offers -> Statuses] /\ \A o \in Offers : board'[o] = "claimed" <=> board[o] = "claimed"
  BY <1>1, <1>2, SweepKeeps
<1>4. \E l : LoopShape(l) /\ loop' = [loop EXCEPT ![w] = l]
  <2>1. CASE EndCycle(w)
    BY <2>1, EndsShape DEF EndCycle
  <2>2. CASE ~EndCycle(w)
    <3>1. PICK o \in Offers : ClaimRefused(w, o)
      BY <2>2 DEF RequestLost
    <3> DEFINE rest == loop[w].queue \ {o}
    <3>2. LoopAt(w, "claim") /\ rest # {} /\ loop' = [loop EXCEPT ![w].queue = rest]
      BY <2>2, <3>1 DEF ClaimRefused, Attempts
    <3>3. loop \in [Crew -> Loop] /\ LoopShape(loop[w])
      BY <1>1, ShapesAreType
    <3>4. loop' = [loop EXCEPT ![w] = [loop[w] EXCEPT !.queue = rest]]
      BY <3>2, <3>3
    <3>5. LoopShape([loop[w] EXCEPT !.queue = rest])
      BY <3>2, <3>3 DEF LoopShape, Loop, LoopAt
    <3> QED BY <3>4, <3>5
  <2> QED BY <2>1, <2>2
<1>5. PICK l : LoopShape(l) /\ loop' = [loop EXCEPT ![w] = l]
  BY <1>4
<1> QED BY <1>2, <1>3, <1>5, LoopMoves

LEMMA PerformKeeps == ASSUME CrewInv, NEW w \in Crew, Perform(w) PROVE CrewInv'
<1>1. CrewTypeOK /\ access \subseteq Crew \X Offers /\ board \in [Offers -> Statuses]
  BY DEF CrewInv, CrewTypeOK, Statuses
<1>2. loop \in [Crew -> Loop] /\ LoopShape(loop[w]) /\ loop[w].pc = "perform"
  BY <1>1, ShapesAreType DEF Perform, LoopAt
<1>3. board' = board /\ UNCHANGED <<holder, access, level>>
  BY DEF Perform
<1>4. PICK l \in {Fresh, Stopped, [loop[w] EXCEPT !.pc = "prove"]} : loop' = [loop EXCEPT ![w] = l]
  BY <1>2 DEF Perform, EndCycle
<1>5. LoopShape(l)
  <2>1. LoopShape([loop[w] EXCEPT !.pc = "prove"])
    BY <1>2 DEF LoopShape, Loop
  <2> QED BY <1>4, <2>1, EndsShape
<1>6. board' \in [Offers -> Statuses]
  BY <1>1, <1>3
<1> QED BY <1>3, <1>4, <1>5, <1>6, LoopMoves

\* A proof closes the prover's own job.
LEMMA SubmitKeeps == ASSUME CrewInv, NEW w \in Crew, SubmitProof(w) PROVE CrewInv'
<1>1. CrewTypeOK /\ access \subseteq Crew \X Offers
  BY DEF CrewInv, CrewTypeOK
<1>2. board' = Proved(w, loop[w].job) /\ UNCHANGED <<holder, access, level>>
  BY DEF SubmitProof
<1>3. PICK l \in {Fresh, Stopped} : loop' = [loop EXCEPT ![w] = l]
  BY DEF SubmitProof, EndCycle
<1>4. LoopShape(l)
  BY <1>3, EndsShape
<1>5. /\ board' \in [Offers -> Statuses]
      /\ \A o \in Offers : board'[o] = "claimed" => board[o] = "claimed"
  <2>1. /\ Swept \in [Offers -> Statuses]
        /\ \A o \in Offers : Swept[o] = "claimed" <=> board[o] = "claimed"
    BY <1>1, SweepKeeps
  <2>2. "proved" \in Statuses
    BY DEF Statuses
  <2> QED BY <1>2, <2>1, <2>2 DEF Proved
<1> QED BY <1>2, <1>3, <1>4, <1>5, LoopMoves

\* A claim is granted of an open job to a worker with a lease to spare at the level its
\* record has now, which is not above the levels it ever has.
LEMMA ClaimKeeps ==
  ASSUME CrewInv, NEW w \in Crew, NEW o \in Offers, NEW answered \in BOOLEAN,
         Claim(w, o, answered)
  PROVE  CrewInv'
<1>1. CrewTypeOK /\ board \in [Offers -> Statuses] /\ holder \in [Offers -> Crew \cup {Nobody}]
      /\ loop \in [Crew -> Loop] /\ UNCHANGED <<access, level>>
      /\ access \subseteq Crew \X Offers
      /\ level \in [Crew -> 0..3] /\ (\A v \in Crew : level[v] \in Ratings[v])
      /\ \A x \in Crew : LoopShape(loop[x])
  BY ShapesAreType DEF CrewInv, Claim
<1>2. /\ Swept \in [Offers -> Statuses]
      /\ \A p \in Offers : Swept[p] = "claimed" <=> board[p] = "claimed"
  BY <1>1, SweepKeeps
<1>3. Swept[o] = "open" /\ MayTake(w, o) /\ ~(Cardinality(Leases(w)) >= LeasesOf[level[w]])
  BY DEF Claim, Answer, Refused
<1>4. board' = [Swept EXCEPT ![o] = "claimed"] /\ holder' = [holder EXCEPT ![o] = w]
  BY DEF Claim, Granted
<1>5. board' \in [Offers -> Statuses] /\ holder' \in [Offers -> Crew \cup {Nobody}]
  BY <1>1, <1>2, <1>4 DEF Statuses
<1>6. PICK l \in {Fresh, Stopped, [pc |-> "perform", queue |-> {}, job |-> o]} :
        loop' = [loop EXCEPT ![w] = l]
  BY DEF Claim, EndCycle
<1>7. LoopShape(l)
  <2>1. LoopShape([pc |-> "perform", queue |-> {}, job |-> o])
    BY CrewAssumption DEF LoopShape, Loop
  <2> QED BY <1>6, <2>1, EndsShape
<1>8. loop' \in [Crew -> Loop] /\ loop'[w] = l /\ \A x \in Crew \ {w} : loop'[x] = loop[x]
  BY <1>1, <1>6, <1>7 DEF LoopShape
<1>9. CrewTypeOK'
  <2>1. \A x \in Crew : LoopShape(loop'[x])
    BY <1>1, <1>7, <1>8
  <2> QED BY <1>1, <1>5, <1>8, <2>1 DEF CrewTypeOK, Statuses, LoopShape, LoopAt
<1>10. LeasesKept'
  <2> SUFFICES ASSUME NEW x \in Crew, NEW n \in 1..3, Ratings[x] \subseteq 0..n
               PROVE  IsFiniteSet(HeldBy(x)') /\ Cardinality(HeldBy(x)') <= LeasesOf[n]
    BY DEF LeasesKept
  <2>1. IsFiniteSet(HeldBy(x)) /\ Cardinality(HeldBy(x)) <= LeasesOf[n] /\ LeasesOf[n] \in Nat
    BY HigherHasMore DEF CrewInv, LeasesKept
  <2>2. Cardinality(HeldBy(x)) \in Nat
    BY <2>1, FS_CardinalityType
  <2>3. CASE x = w
    <3>1. Leases(w) = HeldBy(w)
      BY <1>2 DEF Leases, HeldBy
    <3>2. HeldBy(w)' = HeldBy(w) \cup {o}
      BY <1>1, <1>2, <1>4 DEF HeldBy
    <3>3. /\ IsFiniteSet(HeldBy(x) \cup {o})
          /\ Cardinality(HeldBy(x) \cup {o}) <= Cardinality(HeldBy(x)) + 1
      <4>1. IsFiniteSet(HeldBy(x))
        BY <2>1
      <4>2. /\ IsFiniteSet(HeldBy(x) \cup {o})
            /\ Cardinality(HeldBy(x) \cup {o})
                 = IF o \in HeldBy(x) THEN Cardinality(HeldBy(x)) ELSE Cardinality(HeldBy(x)) + 1
        BY <4>1, FS_AddElement
      <4> QED BY <2>2, <4>2
    <3>4. Cardinality(HeldBy(x)) < LeasesOf[n]
      <4>1. level[x] \in 1..n
        <5>1. level[x] \in 0..n /\ Grade[o] <= level[x] /\ Grade[o] \in 1..4
          BY <1>1, <1>3, <2>3, CrewAssumption DEF MayTake
        <5> QED BY <5>1
      <4>2. level[x] \in 1..3 /\ LeasesOf[level[x]] <= LeasesOf[n] /\ LeasesOf[level[x]] \in Nat
        BY <4>1, HigherHasMore
      <4> QED BY <1>3, <2>1, <2>2, <2>3, <3>1, <4>2
    <3>5. Cardinality(HeldBy(x) \cup {o}) \in Nat
      BY <3>3, FS_CardinalityType
    <3> QED BY <2>1, <2>2, <2>3, <3>2, <3>3, <3>4, <3>5
  <2>4. CASE x # w
    <3>1. HeldBy(x)' \in SUBSET HeldBy(x)
      BY <1>1, <1>2, <1>4, <2>4 DEF HeldBy
    <3>2. IsFiniteSet(HeldBy(x)') /\ Cardinality(HeldBy(x)') <= Cardinality(HeldBy(x))
      BY <2>1, <3>1, FS_Subset
    <3>3. Cardinality(HeldBy(x)') \in Nat
      BY <3>2, FS_CardinalityType
    <3> QED BY <2>1, <2>2, <3>2, <3>3
  <2> QED BY <2>3, <2>4
<1> QED BY <1>9, <1>10 DEF CrewInv

\* Payments, postings, ratings and the clock.
LEMMA OutsideKeeps ==
  ASSUME CrewInv,
         \/ \E w \in Crew : Rerated(w) \/ \E o \in Offers : PayBefore(w, o) \/ PayAccess(w, o)
         \/ \E o \in Offers : Post(o) \/ Fund(o) \/ LeaseRunsOut(o)
  PROVE  CrewInv'
<1>1. /\ CrewTypeOK /\ board \in [Offers -> Statuses] /\ access \subseteq Crew \X Offers
      /\ level \in [Crew -> 0..3] /\ \A w \in Crew : level[w] \in Ratings[w]
  BY DEF CrewInv, CrewTypeOK, Statuses
<1>2. /\ loop' = loop /\ holder' = holder /\ access' \subseteq Crew \X Offers
      /\ board' \in [Offers -> Statuses]
      /\ \A o \in Offers : board'[o] = "claimed" => board[o] = "claimed"
      /\ level' \in [Crew -> 0..3] /\ \A w \in Crew : level'[w] \in Ratings[w]
  <2>1. ASSUME NEW w \in Crew, NEW o \in Offers, PayBefore(w, o) \/ PayAccess(w, o)
        PROVE  /\ UNCHANGED <<board, holder, level, loop>>
               /\ access' \subseteq Crew \X Offers
    BY <1>1, <2>1 DEF PayBefore, PayAccess
  <2>2. ASSUME NEW o \in Offers, Post(o) \/ Fund(o) \/ LeaseRunsOut(o)
        PROVE  /\ \E b \in Statuses \ {"claimed"} : board' = [board EXCEPT ![o] = b]
               /\ UNCHANGED <<holder, access, level, loop>>
    BY <2>2 DEF Post, Fund, LeaseRunsOut, Statuses
  <2>3. ASSUME NEW w \in Crew, Rerated(w)
        PROVE  /\ \E n \in Ratings[w] : level' = [level EXCEPT ![w] = n]
               /\ UNCHANGED <<board, holder, access, loop>>
    BY <2>3 DEF Rerated
  <2>4. CASE \E w \in Crew, o \in Offers : PayBefore(w, o) \/ PayAccess(w, o)
    BY <1>1, <2>1, <2>4
  <2>5. CASE \E o \in Offers : Post(o) \/ Fund(o) \/ LeaseRunsOut(o)
    BY <1>1, <2>2, <2>5
  <2>6. CASE \E w \in Crew : Rerated(w)
    <3>0. PICK w \in Crew : Rerated(w)
      BY <2>6
    <3>1. PICK n \in Ratings[w] : level' = [level EXCEPT ![w] = n]
      BY <2>3, <3>0
    <3>2. n \in 0..3
      BY CrewAssumption
    <3> QED BY <1>1, <2>3, <3>0, <3>1, <3>2
  <2> QED BY <2>4, <2>5, <2>6
<1>3. CrewTypeOK'
  BY <1>1, <1>2 DEF CrewTypeOK, Statuses, LoopAt
<1> QED BY <1>2, <1>3, NoNewLease DEF CrewInv

LEMMA CrewStep == CrewInv /\ [CrewNext]_crewVars => CrewInv'
<1> SUFFICES ASSUME CrewInv, [CrewNext]_crewVars PROVE CrewInv'
  OBVIOUS
<1>1. CASE UNCHANGED crewVars
  BY <1>1 DEF crewVars, CrewInv, CrewTypeOK, LoopAt, LeasesKept, HeldBy
<1>2. ASSUME NEW w \in Crew, WorkerStep(w) PROVE CrewInv'
  BY <1>2, ListKeeps, LetGoKeeps, PerformKeeps, SubmitKeeps, ClaimKeeps, OutsideKeeps
     DEF WorkerStep
<1> QED BY <1>1, <1>2, OutsideKeeps DEF CrewNext

\* Whatever is lost, refused or slow, and however its record goes up and down, a worker
\* holds no more leases than the highest level its record reaches allows (access-policy.mjs).
THEOREM CrewKeepsItsLeases == CrewSpec => []LeasesKept
<1>1. CrewInv => LeasesKept
  BY DEF CrewInv
<1> QED BY <1>1, CrewStarts, CrewStep, PTL DEF CrewSpec

-----------------------------------------------------------------------------
(* The connections.                                                        *)

PoolSpec == PoolInit /\ [][PoolNext]_poolVars

\* Who waits stands in line, once; who does not is not in it.
InLine == Waiting \cup {"queued"}

LineInOrder ==
  /\ \A i, k \in DOMAIN line : line[i] = line[k] => i = k
  /\ \A c \in Callers : stage[c] \in InLine <=> \E i \in DOMAIN line : line[i] = c

\* On SQLite there is no connection to wait for, on Postgres no queue of transactions.
StagesOfDialect ==
  \A c \in Callers : IF dialect = "sqlite" THEN stage[c] \in {"idle", "queued", "done"}
                                           ELSE stage[c] # "queued"

\* The pool hands out no more connections than it has, whoever has given up.
PoolLimit == Holding({"tx", "read", "query", "failed"}) + 2 * Holding({"reading"}) <= PoolMax

PoolTypes == /\ dialect \in {"postgres", "sqlite"} /\ store \in {"open", "closing", "closed"}
             /\ stage \in [Callers -> Stages] /\ reads \in [Callers -> 0..MaxReads]
             /\ line \in Seq(Callers)

PoolInv == PoolTypes /\ LineInOrder /\ StagesOfDialect /\ PoolLimit

\* A line without repetition is no longer than there are callers.
LEMMA LineIsShort ==
  ASSUME PoolTypes, LineInOrder
  PROVE  Len(line) <= Cardinality(Callers)
<1>1. line \in [1..Len(line) -> Callers] /\ Len(line) \in Nat /\ DOMAIN line = 1..Len(line)
  BY DEF PoolTypes
<1>2. line \in Injection(1..Len(line), Callers)
  BY <1>1 DEF LineInOrder, Injection, IsInjective
<1> DEFINE places == 1..Len(line)
<1>3. Cardinality(places) <= Cardinality(Callers)
  <2>1. line \in Injection(places, Callers) /\ IsFiniteSet(Callers)
    BY <1>2, PoolAssumption
  <2> HIDE DEF places
  <2> QED BY <2>1, FS_Injection
<1>4. Cardinality(1..Len(line)) = Len(line)
  <2>1. \A m \in Nat : Cardinality(1..m) = IF 1 > m THEN 0 ELSE m - 1 + 1
    BY FS_Interval
  <2> QED BY <1>1, <2>1
<1> QED BY <1>3, <1>4

\* When one caller changes its stage, its connections change and nobody else's.
Single == {"tx", "read", "query", "failed"}

LEMMA HoldingIsNat ==
  ASSUME NEW S PROVE Holding(S) \in Nat
<1>1. {c \in Callers : stage[c] \in S} \in SUBSET Callers
  OBVIOUS
<1>2. IsFiniteSet({c \in Callers : stage[c] \in S})
  BY <1>1, FS_Subset, PoolAssumption
<1> QED BY <1>2, FS_CardinalityType DEF Holding

LEMMA HoldingMoves ==
  ASSUME NEW S, NEW c \in Callers, NEW s, stage \in [Callers -> Stages],
         stage' = [stage EXCEPT ![c] = s]
  PROVE  Holding(S)' = Holding(S) - (IF stage[c] \in S THEN 1 ELSE 0)
                                  + (IF s \in S THEN 1 ELSE 0)
<1> DEFINE H == {d \in Callers : stage[d] \in S}
           K == {d \in Callers : stage'[d] \in S}
           R == H \ {c}
<1>1. IsFiniteSet(H) /\ IsFiniteSet(R)
  <2>1. H \in SUBSET Callers
    OBVIOUS
  <2>2. IsFiniteSet(H)
    BY <2>1, FS_Subset, PoolAssumption
  <2> HIDE DEF H
  <2> QED BY <2>2, FS_RemoveElement
<1>2. Cardinality(R) = IF stage[c] \in S THEN Cardinality(H) - 1 ELSE Cardinality(H)
  <2>1. c \in H <=> stage[c] \in S
    OBVIOUS
  <2> HIDE DEF H
  <2> QED BY <1>1, <2>1, FS_RemoveElement
<1>3. K = IF s \in S THEN R \cup {c} ELSE R
  OBVIOUS
<1>4. Cardinality(K) = IF s \in S THEN Cardinality(R) + 1 ELSE Cardinality(R)
  <2>1. c \notin R
    OBVIOUS
  <2> HIDE DEF R, K
  <2> QED BY <1>1, <1>3, <2>1, FS_AddElement
<1>5. Holding(S) = Cardinality(H) /\ Holding(S)' = Cardinality(K)
  BY DEF Holding
<1>6. Cardinality(H) \in Nat /\ Cardinality(R) \in Nat
  BY <1>1, FS_CardinalityType
<1> HIDE DEF H, K, R
<1> QED BY <1>2, <1>4, <1>5, <1>6

\* What a stage costs the pool.
Price(s) == IF s = "reading" THEN 2 ELSE IF s \in Single THEN 1 ELSE 0

InUse == Holding(Single) + 2 * Holding({"reading"})

LEMMA InUseMoves ==
  ASSUME NEW c \in Callers, NEW s, stage \in [Callers -> Stages],
         stage' = [stage EXCEPT ![c] = s]
  PROVE  InUse \in Nat /\ InUse' = InUse - Price(stage[c]) + Price(s)
<1>1. Holding(Single) \in Nat /\ Holding({"reading"}) \in Nat
  BY HoldingIsNat
<1>2. Holding(Single)' = Holding(Single) - (IF stage[c] \in Single THEN 1 ELSE 0)
                                         + (IF s \in Single THEN 1 ELSE 0)
  BY HoldingMoves
<1>3. Holding({"reading"})' = Holding({"reading"}) - (IF stage[c] \in {"reading"} THEN 1 ELSE 0)
                                                   + (IF s \in {"reading"} THEN 1 ELSE 0)
  BY HoldingMoves
<1>4. "reading" \notin Single
  BY DEF Single
<1> QED BY <1>1, <1>2, <1>3, <1>4 DEF InUse, Price

\* Steps that leave the line alone: the caller was not in it and is not now.
LEMMA StepOutsideLine ==
  ASSUME PoolInv, NEW c \in Callers, NEW s \in Stages, stage' = [stage EXCEPT ![c] = s],
         line' = line, dialect' = dialect, store' \in {"open", "closing", "closed"},
         reads' \in [Callers -> 0..MaxReads],
         stage[c] \notin InLine, s \notin InLine, Price(s) <= Price(stage[c]),
         dialect = "sqlite" => s \in {"idle", "done"}
  PROVE  PoolInv'
<1>1. stage \in [Callers -> Stages] /\ PoolTypes'
  BY DEF PoolInv, PoolTypes
<1>2. LineInOrder'
  BY <1>1 DEF PoolInv, LineInOrder, InLine, Waiting
<1>3. StagesOfDialect'
  BY <1>1 DEF PoolInv, StagesOfDialect, InLine
<1>4. PoolLimit'
  <2>1. InUse \in Nat /\ InUse' = InUse - Price(stage[c]) + Price(s) /\ InUse <= PoolMax
    BY <1>1, InUseMoves DEF PoolInv, PoolLimit, InUse, Single
  <2>2. Price(s) \in Nat /\ Price(stage[c]) \in Nat
    BY DEF Price
  <2>3. InUse' <= PoolMax
    BY <2>1, <2>2, PoolAssumption
  <2> QED BY <2>3 DEF PoolLimit, InUse, Single
<1> QED BY <1>1, <1>2, <1>3, <1>4 DEF PoolInv

\* Steps that put a caller at the end of the line.
LEMMA StepIntoLine ==
  ASSUME PoolInv, NEW c \in Callers, NEW s \in InLine, Ask(c, s),
         UNCHANGED <<dialect, store>>, reads' \in [Callers -> 0..MaxReads],
         stage[c] \notin InLine, Price(s) <= Price(stage[c]),
         IF dialect = "sqlite" THEN s = "queued" ELSE s # "queued"
  PROVE  PoolInv'
<1>1. /\ stage \in [Callers -> Stages] /\ stage' = [stage EXCEPT ![c] = s]
      /\ line \in Seq(Callers) /\ line' = Append(line, c) /\ s \in Stages
  BY DEF PoolInv, PoolTypes, Ask, InLine, Waiting, Stages
<1>2. PoolTypes'
  BY <1>1 DEF PoolInv, PoolTypes
<1>3. /\ Len(line) \in Nat /\ DOMAIN line = 1..Len(line) /\ DOMAIN line' = 1..(Len(line) + 1)
      /\ line'[Len(line) + 1] = c /\ \A i \in DOMAIN line : line'[i] = line[i]
  BY <1>1
<1>4. LineInOrder'
  <2>1. \A i \in DOMAIN line : line[i] # c
    BY DEF PoolInv, LineInOrder
  <2>2. \A i, k \in DOMAIN line' : line'[i] = line'[k] => i = k
    BY <1>3, <2>1 DEF PoolInv, LineInOrder
  <2>3. ASSUME NEW d \in Callers
        PROVE  stage'[d] \in InLine <=> \E i \in DOMAIN line' : line'[i] = d
    <3>1. CASE d = c
      BY <1>1, <1>3, <3>1
    <3>2. CASE d # c
      <4>1. stage'[d] = stage[d]
        BY <1>1, <3>2
      <4>2. (\E i \in DOMAIN line' : line'[i] = d) <=> \E i \in DOMAIN line : line[i] = d
        BY <1>3, <3>2
      <4> QED BY <4>1, <4>2 DEF PoolInv, LineInOrder
    <3> QED BY <3>1, <3>2
  <2> QED BY <2>2, <2>3 DEF LineInOrder, InLine, Waiting
<1>5. StagesOfDialect'
  BY <1>1 DEF PoolInv, StagesOfDialect
<1>6. PoolLimit'
  <2>1. InUse \in Nat /\ InUse' = InUse - Price(stage[c]) + Price(s) /\ InUse <= PoolMax
    BY <1>1, InUseMoves DEF PoolInv, PoolLimit, InUse, Single
  <2>2. Price(s) \in Nat /\ Price(stage[c]) \in Nat
    BY DEF Price
  <2>3. InUse' <= PoolMax
    BY <2>1, <2>2, PoolAssumption
  <2> QED BY <2>3 DEF PoolLimit, InUse, Single
<1> QED BY <1>2, <1>4, <1>5, <1>6 DEF PoolInv

\* The line without its i-th element.
LEMMA WithoutValues ==
  ASSUME line \in Seq(Callers), NEW i \in DOMAIN line
  PROVE  /\ Without(i) \in Seq(Callers) /\ DOMAIN Without(i) = 1..(Len(line) - 1)
         /\ \A k \in DOMAIN Without(i) : Without(i)[k] = line[IF k < i THEN k ELSE k + 1]
<1> DEFINE front == SubSeq(line, 1, i - 1)
           back  == SubSeq(line, i + 1, Len(line))
<1>1. Len(line) \in Nat /\ i \in 1..Len(line)
  OBVIOUS
<1>2. /\ front \in Seq(Callers) /\ Len(front) = i - 1
      /\ \A k \in 1..(i - 1) : front[k] = line[k]
  BY <1>1
<1>3. /\ back \in Seq(Callers) /\ Len(back) = Len(line) - i
      /\ \A k \in 1..(Len(line) - i) : back[k] = line[i + k]
  BY <1>1
<1> HIDE DEF front, back
<1>4. /\ front \o back \in Seq(Callers) /\ Len(front \o back) = Len(line) - 1
      /\ \A k \in 1..(Len(line) - 1) :
           (front \o back)[k] = IF k <= i - 1 THEN front[k] ELSE back[k - (i - 1)]
  BY <1>1, <1>2, <1>3
<1>5. \A k \in 1..(Len(line) - 1) : (front \o back)[k] = line[IF k < i THEN k ELSE k + 1]
  BY <1>1, <1>2, <1>3, <1>4
<1>6. Without(i) = front \o back
  BY DEF Without, front, back
<1>7. DOMAIN (front \o back) = 1..(Len(line) - 1)
  BY <1>4
<1> QED BY <1>4, <1>5, <1>6, <1>7

\* Steps that take the i-th caller out of the line.
LEMMA StepOutOfLine ==
  ASSUME PoolInv, NEW i \in DOMAIN line, line' = Without(i),
         NEW s \in Stages \ InLine, stage' = [stage EXCEPT ![line[i]] = s],
         UNCHANGED <<dialect, store, reads>>,
         InUse - Price(stage[line[i]]) + Price(s) <= PoolMax,
         dialect = "sqlite" => s \in {"idle", "done"}
  PROVE  PoolInv'
<1> DEFINE c == line[i]
           n == Len(line)
<1>1. /\ stage \in [Callers -> Stages] /\ line \in Seq(Callers)
      /\ n \in Nat /\ DOMAIN line = 1..n /\ c \in Callers
  BY DEF PoolInv, PoolTypes
<1>2. /\ line' \in Seq(Callers) /\ DOMAIN line' = 1..(n - 1)
      /\ \A k \in 1..(n - 1) : line'[k] = line[IF k < i THEN k ELSE k + 1]
  BY <1>1, WithoutValues
<1>3. PoolTypes'
  BY <1>1, <1>2 DEF PoolInv, PoolTypes
<1>4. LineInOrder'
  <2>1. \A k, l \in DOMAIN line : line[k] = line[l] => k = l
    BY DEF PoolInv, LineInOrder
  <2>2. \A k, l \in DOMAIN line' : line'[k] = line'[l] => k = l
    <3> SUFFICES ASSUME NEW k \in 1..(n - 1), NEW l \in 1..(n - 1), line'[k] = line'[l]
                 PROVE  k = l
      BY <1>2
    <3>1. (IF k < i THEN k ELSE k + 1) \in 1..n /\ (IF l < i THEN l ELSE l + 1) \in 1..n
      BY <1>1
    <3>2. (IF k < i THEN k ELSE k + 1) = (IF l < i THEN l ELSE l + 1)
      BY <1>1, <1>2, <2>1, <3>1
    <3> QED BY <1>1, <3>2
  <2>3. ASSUME NEW d \in Callers
        PROVE  stage'[d] \in InLine <=> \E k \in DOMAIN line' : line'[k] = d
    <3>1. CASE d = c
      <4>1. stage'[d] = s
        BY <1>1, <3>1
      <4>2. ASSUME NEW k \in 1..(n - 1) PROVE line'[k] # c
        <5>1. (IF k < i THEN k ELSE k + 1) \in 1..n /\ (IF k < i THEN k ELSE k + 1) # i
          BY <1>1
        <5> QED BY <1>1, <1>2, <2>1, <5>1
      <4> QED BY <1>2, <3>1, <4>1, <4>2
    <3>2. CASE d # c
      <4>1. stage'[d] = stage[d]
        BY <1>1, <3>2
      <4>2. ASSUME NEW k \in DOMAIN line, line[k] = d
            PROVE  \E l \in DOMAIN line' : line'[l] = d
        <5>1. k # i /\ k \in 1..n
          BY <1>1, <3>2, <4>2
        <5>2. CASE k < i
          BY <1>1, <1>2, <4>2, <5>1, <5>2
        <5>3. CASE k > i
          <6>1. k - 1 \in 1..(n - 1) /\ ~(k - 1 < i) /\ (k - 1) + 1 = k
            BY <1>1, <5>1, <5>3
          <6> QED BY <1>2, <4>2, <6>1
        <5> QED BY <1>1, <5>1, <5>2, <5>3
      <4>3. ASSUME NEW l \in DOMAIN line', line'[l] = d
            PROVE  \E k \in DOMAIN line : line[k] = d
        <5>1. (IF l < i THEN l ELSE l + 1) \in 1..n
          BY <1>1, <1>2
        <5> QED BY <1>1, <1>2, <4>3, <5>1
      <4> QED BY <4>1, <4>2, <4>3 DEF PoolInv, LineInOrder
    <3> QED BY <3>1, <3>2
  <2> QED BY <2>2, <2>3 DEF LineInOrder, InLine, Waiting
<1>5. StagesOfDialect'
  <2> SUFFICES ASSUME NEW d \in Callers
               PROVE  IF dialect = "sqlite" THEN stage'[d] \in {"idle", "queued", "done"}
                                            ELSE stage'[d] # "queued"
    BY DEF StagesOfDialect
  <2>1. s # "queued"
    BY DEF InLine
  <2>2. stage'[d] = IF d = c THEN s ELSE stage[d]
    BY <1>1
  <2> QED BY <2>1, <2>2 DEF PoolInv, StagesOfDialect
<1>6. PoolLimit'
  <2>1. InUse' = InUse - Price(stage[c]) + Price(s)
    BY <1>1, InUseMoves
  <2> QED BY <2>1 DEF PoolLimit, InUse, Single
<1> QED BY <1>3, <1>4, <1>5, <1>6 DEF PoolInv

\* The head of the line is its first element.
LEMMA HeadLeaves ==
  ASSUME PoolTypes, line # <<>>
  PROVE  1 \in DOMAIN line /\ Head(line) = line[1] /\ Tail(line) = Without(1)
<1>1. line \in Seq(Callers) /\ Len(line) \in Nat /\ Len(line) # 0
  BY DEF PoolTypes
<1>2. /\ SubSeq(line, 1, 1 - 1) = <<>>
      /\ SubSeq(line, 1 + 1, Len(line)) = Tail(line)
      /\ Tail(line) \in Seq(Callers)
  BY <1>1
<1>3. <<>> \o Tail(line) = Tail(line)
  BY <1>2
<1> QED BY <1>1, <1>2, <1>3 DEF Without

LEMMA PoolStarts == PoolInit => PoolInv
<1> SUFFICES ASSUME PoolInit PROVE PoolInv
  OBVIOUS
<1>1. \A S : "idle" \notin S => Holding(S) = 0
  <2> SUFFICES ASSUME NEW S, "idle" \notin S PROVE Holding(S) = 0
    OBVIOUS
  <2>1. {c \in Callers : stage[c] \in S} = {}
    BY DEF PoolInit
  <2> QED BY <2>1, FS_EmptySet DEF Holding
<1>2. PoolLimit
  BY <1>1, PoolAssumption DEF PoolLimit
<1>3. PoolTypes
  BY PoolAssumption DEF PoolInit, PoolTypes, Stages
<1>4. LineInOrder /\ StagesOfDialect
  BY DEF PoolInit, LineInOrder, StagesOfDialect, InLine, Waiting
<1> QED BY <1>2, <1>3, <1>4 DEF PoolInv

\* The pool gives the head of the line what it waits for, if it can.
LEMMA ConnectKeeps == ASSUME PoolInv, Connect PROVE PoolInv'
<1>1. PoolTypes /\ line # <<>> /\ dialect = "postgres" /\ Available
  BY DEF Connect, PoolInv
<1>2. 1 \in DOMAIN line /\ Head(line) = line[1] /\ Tail(line) = Without(1)
  BY <1>1, HeadLeaves
<1> DEFINE c == line[1]
<1>3. c \in Callers /\ stage[c] \in Waiting
  <2>1. c \in Callers
    BY <1>1, <1>2 DEF PoolTypes
  <2>2. stage[c] \in InLine
    BY <1>2, <2>1 DEF PoolInv, LineInOrder
  <2>3. stage[c] # "queued"
    BY <1>1, <2>1 DEF PoolInv, StagesOfDialect
  <2> QED BY <2>1, <2>2, <2>3 DEF InLine
<1>4. /\ Served(c) \in Stages \ InLine
      /\ Price(Served(c)) = Price(stage[c]) + 1 /\ Price(stage[c]) \in Nat
  <2>1. CASE stage[c] = "begin"
    BY <2>1 DEF Served, Price, Single, Stages, InLine, Waiting
  <2>2. CASE stage[c] = "read"
    BY <2>2 DEF Served, Price, Single, Stages, InLine, Waiting
  <2>3. CASE stage[c] = "plain"
    BY <2>3 DEF Served, Price, Single, Stages, InLine, Waiting
  <2> QED BY <1>3, <2>1, <2>2, <2>3 DEF Waiting
<1>5. InUse \in Nat /\ InUse < PoolMax
  <2>1. Holding(Single) \in Nat /\ Holding({"reading"}) \in Nat
    BY HoldingIsNat
  <2> QED BY <1>1, <2>1 DEF Available, InUse, Single
<1>6. InUse - Price(stage[c]) + Price(Served(c)) <= PoolMax
  BY <1>4, <1>5, PoolAssumption
<1>7. /\ line' = Without(1) /\ stage' = [stage EXCEPT ![line[1]] = Served(c)]
      /\ UNCHANGED <<dialect, store, reads>>
  BY <1>2 DEF Connect
<1> QED BY <1>1, <1>2, <1>4, <1>6, <1>7, StepOutOfLine

\* Whoever gives up leaves the line; a read that gives up keeps its claim's connection.
LEMMA GiveUpKeeps == ASSUME PoolInv, NEW c \in Callers, ConnectTimesOut(c) PROVE PoolInv'
<1>1. /\ dialect = "postgres" /\ stage[c] \in Waiting
      /\ stage \in [Callers -> Stages]
  BY DEF ConnectTimesOut, GivesUp, PoolInv, PoolTypes
<1>2. PICK i \in DOMAIN line : line[i] = c /\ line' = Without(i)
  BY DEF ConnectTimesOut
<1> DEFINE s == IF stage[c] = "read" THEN "failed" ELSE "done"
<1>3. /\ stage' = [stage EXCEPT ![line[i]] = s]
      /\ UNCHANGED <<dialect, store, reads>>
  BY <1>1, <1>2 DEF ConnectTimesOut
<1>4. /\ s \in Stages \ InLine
      /\ Price(s) = Price(stage[c]) /\ Price(s) \in Nat
  BY <1>1 DEF Stages, InLine, Waiting, Price, Single
<1>5. InUse \in Nat /\ InUse <= PoolMax
  <2>1. Holding(Single) \in Nat /\ Holding({"reading"}) \in Nat
    BY HoldingIsNat
  <2> QED BY <2>1 DEF PoolInv, PoolLimit, InUse, Single
<1>6. InUse - Price(stage[line[i]]) + Price(s) <= PoolMax
  BY <1>2, <1>4, <1>5, PoolAssumption
<1> HIDE DEF s
<1> QED BY <1>1, <1>2, <1>3, <1>4, <1>6, StepOutOfLine

LEMMA RunNextKeeps == ASSUME PoolInv, RunNext PROVE PoolInv'
<1>1. PoolTypes /\ line # <<>> /\ dialect = "sqlite"
  BY DEF RunNext, PoolInv
<1>2. 1 \in DOMAIN line /\ Head(line) = line[1] /\ Tail(line) = Without(1)
  BY <1>1, HeadLeaves
<1>3. line[1] \in Callers
  BY <1>1, <1>2 DEF PoolTypes
<1>4. stage[line[1]] \in {"idle", "queued", "done"}
  BY <1>1, <1>3 DEF PoolInv, StagesOfDialect
<1>5. InUse \in Nat /\ InUse <= PoolMax
  <2>1. Holding(Single) \in Nat /\ Holding({"reading"}) \in Nat
    BY HoldingIsNat
  <2> QED BY <2>1 DEF PoolInv, PoolLimit, InUse, Single
<1>6. InUse - Price(stage[line[1]]) + Price("done") <= PoolMax
  BY <1>4, <1>5, PoolAssumption DEF Price, Single
<1>7. "done" \in Stages \ InLine
  BY DEF Stages, InLine, Waiting
<1>8. /\ line' = Without(1) /\ stage' = [stage EXCEPT ![line[1]] = "done"]
      /\ UNCHANGED <<dialect, store, reads>>
  BY <1>2 DEF RunNext
<1> QED BY <1>2, <1>6, <1>7, <1>8, StepOutOfLine

LEMMA ReadKeeps == ASSUME PoolInv, NEW c \in Callers, ReadInClaim(c) PROVE PoolInv'
<1>1. /\ stage[c] = "tx" /\ reads[c] < MaxReads /\ reads' = [reads EXCEPT ![c] = @ + 1]
      /\ UNCHANGED <<dialect, store>>
  BY DEF ReadInClaim
<1>2. reads' \in [Callers -> 0..MaxReads]
  BY <1>1, PoolAssumption DEF PoolInv, PoolTypes
<1>3. dialect # "sqlite"
  BY <1>1 DEF PoolInv, StagesOfDialect
<1>4. /\ stage[c] \notin InLine /\ "failed" \in Stages \ InLine /\ "read" \in InLine
      /\ Price("failed") <= Price(stage[c]) /\ Price("read") <= Price(stage[c])
  BY <1>1 DEF InLine, Waiting, Stages, Price, Single
<1>5. CASE store = "closed"
  <2>1. /\ stage' = [stage EXCEPT ![c] = "failed"] /\ line' = line
        /\ store' \in {"open", "closing", "closed"}
    BY <1>1, <1>5 DEF ReadInClaim
  <2> QED BY <1>1, <1>2, <1>3, <1>4, <2>1, StepOutsideLine
<1>6. CASE store # "closed"
  <2>1. Ask(c, "read")
    BY <1>6 DEF ReadInClaim
  <2> QED BY <1>1, <1>2, <1>3, <1>4, <2>1, StepIntoLine
<1> QED BY <1>5, <1>6

\* A new request joins the line of its dialect.
LEMMA ArrivalKeeps ==
  ASSUME PoolInv, NEW c \in Callers, Arrive(c) \/ Enqueue(c)
  PROVE  PoolInv'
<1>1. PICK s \in {"begin", "plain", "queued"} :
        Ask(c, s) /\ (IF dialect = "sqlite" THEN s = "queued" ELSE s # "queued")
  BY DEF Arrive, Enqueue
<1>2. stage[c] = "idle" /\ UNCHANGED <<dialect, store, reads>>
  BY DEF Arrive, Enqueue
<1>3. s \in InLine /\ stage[c] \notin InLine /\ Price(s) <= Price(stage[c])
  BY <1>1, <1>2 DEF InLine, Waiting, Price, Single
<1>4. reads' \in [Callers -> 0..MaxReads]
  BY <1>2 DEF PoolInv, PoolTypes
<1> QED BY <1>1, <1>2, <1>3, <1>4, StepIntoLine

LEMMA EndKeeps ==
  ASSUME PoolInv, NEW c \in Callers, QueryEnds(c) \/ TransactionEnds(c) \/ Respond(c)
  PROVE  PoolInv'
<1>1. UNCHANGED <<dialect, line, store>>
  BY DEF QueryEnds, TransactionEnds, Respond
<1>2. store' \in {"open", "closing", "closed"} /\ reads' \in [Callers -> 0..MaxReads]
  <2>1. reads' = reads \/ reads' = [reads EXCEPT ![c] = 0]
    BY DEF QueryEnds, TransactionEnds, Respond
  <2>2. reads \in [Callers -> 0..MaxReads] /\ store \in {"open", "closing", "closed"}
    BY DEF PoolInv, PoolTypes
  <2>3. 0 \in 0..MaxReads
    BY PoolAssumption
  <2> QED BY <1>1, <2>1, <2>2, <2>3
<1>3. PICK s \in {"tx", "failed", "done", "idle"} :
        /\ stage' = [stage EXCEPT ![c] = s]
        /\ \/ stage[c] = "reading" /\ s \in {"tx", "failed"}
           \/ stage[c] \in {"query", "failed", "tx"} /\ s = "done"
           \/ stage[c] = "done" /\ s = "idle"
  BY DEF QueryEnds, TransactionEnds, Respond
<1>4. /\ s \in Stages /\ s \notin InLine /\ stage[c] \notin InLine
      /\ Price(s) <= Price(stage[c])
  BY <1>3 DEF Stages, InLine, Waiting, Price, Single
<1>5. dialect = "sqlite" => s \in {"idle", "done"}
  BY <1>3 DEF PoolInv, StagesOfDialect
<1> QED BY <1>1, <1>2, <1>3, <1>4, <1>5, StepOutsideLine

LEMMA PoolStep == PoolInv /\ [PoolNext]_poolVars => PoolInv'
<1> SUFFICES ASSUME PoolInv, [PoolNext]_poolVars PROVE PoolInv'
  OBVIOUS
<1>1. ASSUME UNCHANGED <<dialect, stage, reads, line>>, store' \in {"open", "closing", "closed"}
      PROVE  PoolInv'
  <2>1. \A S : Holding(S)' = Holding(S)
    BY <1>1 DEF Holding
  <2> QED BY <1>1, <2>1
          DEF PoolInv, PoolTypes, LineInOrder, InLine, Waiting, StagesOfDialect, PoolLimit
<1>2. CASE UNCHANGED poolVars \/ CloseStore \/ HandleCloses
  BY <1>1, <1>2 DEF poolVars, CloseStore, HandleCloses, PoolInv, PoolTypes
<1>3. CASE \E c \in Callers : Arrive(c) \/ Enqueue(c) \/ CallerStep(c)
  BY <1>3, ArrivalKeeps, ReadKeeps, EndKeeps, GiveUpKeeps DEF CallerStep
<1> QED BY <1>2, <1>3, ConnectKeeps, RunNextKeeps DEF PoolNext

\* However many claims begin, read and give up at a time, the connections they hold are
\* never more than the pool has, and who waits for one stands in the line once.
THEOREM PoolIsBounded == PoolSpec => [](PoolLimit /\ LineInOrder)
<1>1. PoolInv => PoolLimit /\ LineInOrder
  BY DEF PoolInv
<1> QED BY <1>1, PoolStarts, PoolStep, PTL DEF PoolSpec

-----------------------------------------------------------------------------
(* Side by side.                                                           *)

\* The three services share no row, so what each keeps is kept beside the others.
LEMMA SideBySide ==
  AccessInv /\ CrewInv /\ PoolInv /\ [Next]_<<crewVars, accessVars, poolVars, service>>
    => AccessInv' /\ CrewInv' /\ PoolInv'
<1> SUFFICES ASSUME AccessInv, CrewInv, PoolInv,
                    [Next]_<<crewVars, accessVars, poolVars, service>>
             PROVE  AccessInv' /\ CrewInv' /\ PoolInv'
  OBVIOUS
<1>1. [AccessNext]_accessVars /\ [CrewNext]_crewVars /\ [PoolNext]_poolVars
  BY DEF Next
<1> QED BY <1>1, AccessStep, CrewStep, PoolStep

\* Every table, loop, request and line keeps the domain of its values, and no line is
\* longer than there are callers.
THEOREM TypeCorrect == Spec => []TypeOK
<1>1. Init => AccessInv /\ CrewInv /\ PoolInv
  BY AccessStarts, CrewStarts, PoolStarts DEF Init
<1>2. AccessInv /\ CrewInv /\ PoolInv => TypeOK
  BY LineIsShort DEF AccessInv, CrewInv, PoolInv, PoolTypes, PoolTypeOK, TypeOK
<1> QED BY <1>1, <1>2, SideBySide, PTL DEF Spec

=============================================================================
