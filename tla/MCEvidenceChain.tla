--------------------------- MODULE MCEvidenceChain ---------------------------
(* A small instance of EvidenceChain.  The gates share no file that one of    *)
(* them writes, so that the processes of one gate are explored at a time, and *)
(* a file of the repository changes only when a process present reads it.    *)
EXTENDS EvidenceChain, TLC

CONSTANTS a1, a2, s1, s2, g1, r1, c1, c2

MCAudits == {a1, a2}
MCSealers == {s1, s2}
MCContents == {0, 1}
MCSymbols == <<"x", "y">>
MCKinds == <<"bindings", "report">>
MCSourceKinds == {"bindings"}
MCMethodFiles == <<"b3">>
MCSchemaFiles == <<"b1", "b2">>

AuditsPresent == \E a \in Audits : apc[a] # "absent"
SealersPresent == \E s \in Sealers : spc[s] # At("absent", 0)
LoadersPresent == \E p \in Loaders : gpc[p] # Place("absent", 0)

CampaignPresent == \E p \in CampaignProcesses : cpc[p] # Spot("absent", 0, 0)

OneGate == \/ /\ \A a \in Audits : apc[a] = "start"
              /\ ~SealersPresent /\ ~LoadersPresent /\ ~CampaignPresent
           \/ /\ \A s \in Sealers : spc[s] = SealStart
              /\ ~AuditsPresent /\ ~LoadersPresent /\ ~CampaignPresent
           \/ /\ \A p \in Loaders : gpc[p] = GateStart
              /\ ~AuditsPresent /\ ~SealersPresent /\ ~CampaignPresent
           \/ /\ \A p \in CampaignProcesses : cpc[p] = CampaignStart
              /\ ~AuditsPresent /\ ~SealersPresent /\ ~LoadersPresent

MCInit == Init /\ OneGate
MCSpec == MCInit /\ [][Next]_vars

\* Action constraint: only files that a process present reads change.  To keep
\* the instance small, audits see the bars of one symbol and one experiment
\* file change, the bars of the other symbol are replaced once under a Gate 3
\* loader, three times only under the campaign's seals, and under a sealer one source is edited, or journals change for good.
OnlyReadFilesChange ==
    /\ worktree' # worktree =>
           \/ SealersPresent /\ \A b \in Bundles \ {"b2"} : worktree'[b] = worktree[b]
           \/ CampaignPresent
    /\ CampaignPresent => (journals' => journals) /\ bars'["y"] = bars["y"]
    /\ LoadersPresent => replaced'["y"] <= 1
    /\ ~CampaignPresent => replaced'["x"] <= 2
    /\ experiments' # experiments =>
           /\ AuditsPresent
           /\ experiments = Phase2Files
           /\ \A f \in experiments' : f.name[2] = "added" => f.candidate = "c1"
    /\ SealersPresent => /\ bars' = bars /\ (journals' => journals)
                         /\ journals' \/ \A b \in Bundles : worktree'[b] = 0
    /\ AuditsPresent => journals' = journals /\ bars'["y"] = bars["y"]

MCSymmetry == Permutations(MCAudits) \cup Permutations(MCSealers)
=============================================================================
