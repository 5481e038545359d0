---------------------------- MODULE EvidenceChain ----------------------------
(***************************************************************************)
(* The gates that publish sealed evidence over one checkout: the readiness   *)
(* audit, the Gate 2 engine seal, the Gate 3 authorities and their readers,  *)
(* and the seals and the loader of the campaign.  Each gate names the        *)
(* artifacts of the gate before it by digests that are constants of the      *)
(* source, so that those artifacts are there from the start and the gates    *)
(* meet in the files of Repository only.                                   *)
(***************************************************************************)
EXTENDS ReadinessRun, Gate2Seal, Gate3Authority, CampaignAuthority

vars == <<repoVars, auditVars, sealVars, gateVars, campaignVars>>

Init == RepoInit /\ AuditInit /\ SealInit /\ GateInit /\ CampaignInit

AuditNext == /\ \E a \in Audits : AuditStep(a)
             /\ UNCHANGED <<repoVars, sealVars, gateVars, campaignVars>>
SealNext == /\ \E s \in Sealers : SealStep(s)
            /\ UNCHANGED <<repoVars, auditVars, gateVars, campaignVars>>
GateNext == GateStep /\ UNCHANGED <<repoVars, auditVars, sealVars, campaignVars>>
CampaignNext == /\ \E p \in CampaignProcesses : CampaignStep(p)
                /\ UNCHANGED <<repoVars, auditVars, sealVars, gateVars>>
RepoNext == RepoStep /\ UNCHANGED <<auditVars, sealVars, gateVars, campaignVars>>

Next == AuditNext \/ SealNext \/ GateNext \/ CampaignNext \/ RepoNext

Spec == Init /\ [][Next]_vars

-----------------------------------------------------------------------------
(* Properties. *)

\* A process that reports success has left its manifest in the store.
SuccessIsVisible == ReadyIsVisible /\ SealIsVisible

\* No manifest is ever visible before everything that it names, in any of the
\* stores, whichever process failed or died between two writes, and success is
\* never reported without it: the manifest is the last write of
\* run_phase4_readiness, _seal, seal_gate3_authorities,
\* seal_execution_methodology and seal_result_schema.
ChainIsClosed == /\ ReadyIsClosed /\ EngineIsClosed /\ AuthorityIsClosed /\ CampaignIsClosed
                 /\ SuccessIsVisible

\* Every sealed set of sources is that of one revision, the one it names.
SealsAreOneRevision == EngineIsOneRevision /\ CampaignIsOneRevision

\* Digests are checked on one reading and prices taken from another one; what a
\* later process relies on was computed from the pinned bars unless they were
\* replaced under every one of the loads that were compared.
ReliedOnIsGuarded == AcceptedIsGuarded /\ SchemaIsGuarded
=============================================================================
