---------------------------- MODULE MCBackOffice ----------------------------
(***************************************************************************)
(* The services around the ledger, for TLC: Settlement (with CompoundJobs),*)
(* Adjudication, Identity, the database files, the two browser pages and   *)
(* the first escrow contract.                                              *)
(* They share no row here, so each behaviour runs one of them and the state*)
(* counts add up instead of multiplying.                                   *)
(***************************************************************************)
EXTENDS MCSettlement, Adjudication, Identity, DatabaseFiles, Dashboard, IssuerPage, EscrowV1

CONSTANTS s1, s2

VARIABLE service

savings  == [a \in Purses |-> IF a = "i" THEN 2 ELSE 0]
workerOf == [p \in Pending |-> a1]
slotOf   == [j \in JobIds |-> IF j = "j3" THEN s2 ELSE s1]
isAgent  == [n \in Names |-> n = "n2"]

\* A service that does not run has one initial state.
Init ==
  /\ service \in {"settlement", "adjudication", "identity", "files", "dashboard", "page", "v1"}
  /\ SettlementInit /\ AdjudicationInit /\ IdentityInit /\ FilesInit /\ DashInit
  /\ PageInit /\ V1Init
  /\ service # "adjudication" => ~postgres
  /\ service # "identity" => \A n \in Names : ~account[n].exists
  /\ service # "files" => wal = "none" /\ versions = {}

Next ==
  /\ UNCHANGED service
  /\ \/ /\ service = "settlement" /\ SettlementNext
        /\ UNCHANGED <<adjudicationVars, identityVars, filesVars, dashVars, pageVars, v1Vars>>
     \/ /\ service = "adjudication" /\ AdjudicationNext
        /\ UNCHANGED <<settlementVars, identityVars, filesVars, dashVars, pageVars, v1Vars>>
     \/ /\ service = "identity" /\ IdentityNext
        /\ UNCHANGED <<settlementVars, adjudicationVars, filesVars, dashVars, pageVars, v1Vars>>
     \/ /\ service = "files" /\ FilesNext
        /\ UNCHANGED <<settlementVars, adjudicationVars, identityVars, dashVars, pageVars, v1Vars>>
     \/ /\ service = "dashboard" /\ DashNext
        /\ UNCHANGED <<settlementVars, adjudicationVars, identityVars, filesVars, pageVars, v1Vars>>
     \/ /\ service = "page" /\ PageNext
        /\ UNCHANGED <<settlementVars, adjudicationVars, identityVars, filesVars, dashVars, v1Vars>>
     \/ /\ service = "v1" /\ V1Next
        /\ UNCHANGED <<settlementVars, adjudicationVars, identityVars, filesVars, dashVars, pageVars>>

vars == <<service, settlementVars, adjudicationVars, identityVars, filesVars, dashVars, pageVars, v1Vars>>

Spec == Init /\ [][Next]_vars

\* Every variable of every service has a value of its domain.
TypeOK == /\ SettlementTypeOK /\ AdjudicationTypeOK /\ IdentityTypeOK
          /\ FilesTypeOK /\ DashTypeOK /\ PageTypeOK /\ V1TypeOK

\* The two proofs at the adjudicator are the batches' model values, its two requests the
\* local runners': no behaviour has both, and the group stays at four permutations.
Symmetry == SettlementSymmetry

=============================================================================
