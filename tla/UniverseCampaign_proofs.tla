---------------------- MODULE UniverseCampaign_proofs ----------------------
(***************************************************************************)
(* Proofs about universe campaigns, for any processes, pool, versions,     *)
(* answers of the service and of the calendar, digest order, damage and    *)
(* bounds: campaigns may overlap, stop anywhere and find files damaged,    *)
(* all in one behaviour.                                                   *)
(*                                                                         *)
(* Four invariants.   KeptInv says what is on disk for whatever a campaign *)
(* has established: the raw evidence of a recorded fetch holds the pages   *)
(* that were sent, and what a manifest will bind is there.  RerunInv says  *)
(* that the verdicts of a campaign that ran alone are the first records in *)
(* digest order, and that nobody fetches for its version again, so that    *)
(* whoever looks them up later finds the same ones.  CleanInv says that a  *)
(* verdict of PASS, on disk or in a campaign, rests on raw evidence that   *)
(* is one sound row of its symbol for every session.  Files are only ever  *)
(* added, so this stays true of whatever a manifest selects.  UnspoiltInv  *)
(* says that nothing a campaign found was damaged when it started, and     *)
(* that what it has verified was still intact when it had its report,      *)
(* although it reads the files one after another.                          *)
(***************************************************************************)
EXTENDS UniverseCampaign, FiniteSetTheorems, WellFoundedInduction, TLAPS

IsSequence(s) == \E n \in Nat : s = [i \in 1..n |-> s[i]]

\* A sequence is a function on 1..n into its elements.
LEMMA SequenceTyped ==
    ASSUME NEW s, IsSequence(s)
    PROVE  s \in Seq(ToSet(s)) /\ Len(s) \in Nat /\ DOMAIN s = 1..Len(s)
<1>1. PICK n \in Nat : s = [i \in 1..n |-> s[i]]
  BY DEF IsSequence
<1>2. s \in [1..n -> ToSet(s)]
  BY <1>1 DEF ToSet
<1> QED BY <1>2

\* The empty sequence is one.
LEMMA EmptySequence == IsSequence(<<>>) /\ Len(<<>>) = 0 /\ ToSet(<<>>) = {}
BY DEF IsSequence, ToSet

\* What appending to a sequence does to its length and elements.
LEMMA AppendSequence ==
    ASSUME NEW s, NEW e, IsSequence(s)
    PROVE  /\ IsSequence(Append(s, e))
           /\ Len(s) \in Nat
           /\ Len(Append(s, e)) = Len(s) + 1
           /\ Append(s, e)[Len(s) + 1] = e
           /\ \A i \in 1..Len(s) : Append(s, e)[i] = s[i]
           /\ ToSet(Append(s, e)) = ToSet(s) \cup {e}
<1> DEFINE T == ToSet(s) \cup {e}
<1>0. Len(s) \in Nat /\ DOMAIN s = 1..Len(s) /\ s \in Seq(ToSet(s))
  BY SequenceTyped
<1>1. s \in Seq(T) /\ Len(s) \in Nat /\ DOMAIN s = 1..Len(s) /\ e \in T
  <2>1. \A i \in 1..Len(s) : s[i] \in T
    BY <1>0 DEF ToSet
  <2> HIDE DEF T
  <2>2. s \in Seq(T)
    BY <1>0, <2>1
  <2> QED BY <1>0, <2>2 DEF T
<1>2. ToSet(s) = {s[i] : i \in 1..Len(s)}
  BY <1>1 DEF ToSet
<1> HIDE DEF T
<1>3. /\ Append(s, e) \in Seq(T) /\ Len(Append(s, e)) = Len(s) + 1
      /\ Append(s, e)[Len(s) + 1] = e /\ \A i \in 1..Len(s) : Append(s, e)[i] = s[i]
      /\ DOMAIN Append(s, e) = 1..(Len(s) + 1)
  BY <1>1
<1>4. IsSequence(Append(s, e))
  <2> DEFINE a == Append(s, e)
  <2>1. a \in Seq(T) /\ Len(a) \in Nat
    BY <1>1, <1>3
  <2> HIDE DEF a
  <2>2. a = [i \in 1..Len(a) |-> a[i]]
    BY <2>1
  <2> QED BY <2>1, <2>2 DEF IsSequence, a
<1>5. ToSet(Append(s, e)) = ToSet(s) \cup {e}
  <2> DEFINE a == Append(s, e)
             n == Len(s)
  <2>1. n \in Nat /\ DOMAIN s = 1..n /\ DOMAIN a = 1..(n + 1)
        /\ a[n + 1] = e /\ \A i \in 1..n : a[i] = s[i]
    BY <1>1, <1>3
  <2> HIDE DEF a, n
  <2>2. \A x \in ToSet(a) : x \in ToSet(s) \cup {e}
    <3> SUFFICES ASSUME NEW i \in 1..(n + 1) PROVE a[i] \in ToSet(s) \cup {e}
      BY <2>1 DEF ToSet
    <3>1. CASE i \in 1..n
      BY <2>1, <3>1 DEF ToSet
    <3>2. CASE i = n + 1
      BY <2>1, <3>2
    <3> QED BY <2>1, <3>1, <3>2
  <2>3. \A x \in ToSet(s) : x \in ToSet(a)
    <3> SUFFICES ASSUME NEW i \in 1..n PROVE s[i] \in ToSet(a)
      BY <2>1 DEF ToSet
    <3>1. i \in DOMAIN a /\ a[i] = s[i]
      BY <2>1
    <3> QED BY <3>1 DEF ToSet
  <2>4. e \in ToSet(a)
    <3>1. n + 1 \in DOMAIN a
      BY <2>1
    <3> QED BY <2>1, <3>1 DEF ToSet
  <2> QED BY <2>2, <2>3, <2>4 DEF a
<1> QED BY <1>1, <1>3, <1>4, <1>5

\* A function on the indices of a sequence is a sequence of its length.
LEMMA ChangedSequence ==
    ASSUME NEW s, IsSequence(s), NEW t, DOMAIN t = DOMAIN s,
           t = [i \in DOMAIN t |-> t[i]]
    PROVE  IsSequence(t) /\ Len(t) = Len(s)
<1>1. Len(s) \in Nat /\ DOMAIN s = 1..Len(s)
  BY SequenceTyped
<1>2. IsSequence(t)
  BY <1>1 DEF IsSequence
<1>3. t \in Seq(ToSet(t)) /\ DOMAIN t = 1..Len(t) /\ Len(t) \in Nat
  BY <1>2, SequenceTyped
<1>4. 1..Len(t) = 1..Len(s)
  BY <1>1, <1>3
<1>5. Len(t) = Len(s)
  BY <1>1, <1>3, <1>4
<1> QED BY <1>2, <1>5

\* Sequences with the same length and elements are equal.
LEMMA SameSequence ==
    ASSUME NEW s, NEW t, IsSequence(s), IsSequence(t), Len(s) = Len(t),
           \A i \in DOMAIN s : s[i] = t[i]
    PROVE  s = t
<1>1. PICK m \in Nat : s = [i \in 1..m |-> s[i]]
  BY DEF IsSequence
<1>2. PICK n \in Nat : t = [i \in 1..n |-> t[i]]
  BY DEF IsSequence
<1>3. DOMAIN s = 1..Len(s) /\ DOMAIN t = 1..Len(t)
  BY SequenceTyped
<1>4. DOMAIN s = 1..m /\ DOMAIN t = 1..n
  BY <1>1, <1>2
<1>5. 1..m = 1..n
  BY <1>3, <1>4
<1> QED BY <1>1, <1>2, <1>4, <1>5

\* An accepted write adds its file and leaves every other one.
LEMMA StoreGrows ==
    ASSUME NEW id, NEW content, Writable(id, content), Stored(id, content)
    PROVE  /\ DOMAIN store' = DOMAIN store \cup {id}
           /\ store'[id] = content
           /\ \A x \in DOMAIN store : store'[x] = store[x]
BY DEF Writable, Stored

-----------------------------------------------------------------------------
(* The campaign of one process *)

Fields == {"at", "campaign", "version", "found", "moment", "fetch", "calendar", "verified", "alone",
           "before", "spoiltAtStart", "spoiltAtEnd"}
\* Where a symbol is fetched and judged, and where the pool is done.
FetchPlaces == {"fetch", "normalize", "calendar", "quarantine", "record"}
EndPlaces == {"freeze", "report", "reread", "verify", "published"}
Reported == {"reread", "verify", "published"}
FetchFields == {"symbol", "pages", "key", "end"}

\* A verdict as the campaigns pass it on.
VerdictOf(v, c) == /\ c.version = v
                   /\ c.raw # NoArtifact
                   /\ c.raw[1] = "raw"

\* The state of a campaign: as many verdicts as symbols settled, all of its version.
CampaignTyped(c) ==
    /\ DOMAIN c = Fields
    /\ c.at \in FetchPlaces \cup EndPlaces \cup {"lookup"}
    /\ c.campaign \in Nat
    /\ c.alone \in BOOLEAN
    /\ IsSequence(c.found)
    /\ c.at \in EndPlaces => Len(c.found) = Len(Pool)
    /\ c.at \notin EndPlaces => Len(c.found) < Len(Pool)
    /\ DOMAIN c.fetch = FetchFields /\ IsSequence(c.fetch.pages)
    /\ \A i \in DOMAIN c.found : VerdictOf(c.version, c.found[i])

\* What is found wrong with the bars of a campaign's fetch.
Faults(c) == LET raw == RawEvidence(c.fetch, c.moment, c.version)
             IN  Issues(raw, Frame(raw), Success(c.fetch))

\* The pages received are those the service sent; they are on disk from the
\* moment the raw evidence is, and the quarantine before the record.
EvidenceOf(c, st, sv) ==
    c.at \in FetchPlaces =>
        /\ c.moment \in 1..Len(sv)
        /\ ToSet(c.fetch.pages) = sv[c.moment]
        /\ IF c.at = "fetch" THEN <<"raw", c.moment>> \notin DOMAIN st
           ELSE /\ <<"raw", c.moment>> \in DOMAIN st
                /\ st[<<"raw", c.moment>>].pages = c.fetch.pages
        /\ c.at = "record" /\ Faults(c) # {} => <<"quarantine", c.moment>> \in DOMAIN st

\* The snapshot holds the verdicts, the report names the snapshot.
FrozenOf(c, st) ==
    /\ c.at \in {"report"} \cup Reported =>
           /\ <<"snapshot", c.campaign>> \in DOMAIN st
           /\ st[<<"snapshot", c.campaign>>].candidates = c.found
    /\ c.at \in Reported =>
           /\ <<"report", c.campaign>> \in DOMAIN st
           /\ st[<<"report", c.campaign>>].snapshot = <<"snapshot", c.campaign>>

CampaignsTyped == /\ DOMAIN run = Processes
                  /\ \A p \in Processes : run[p] = Idle \/ CampaignTyped(run[p])
EvidenceHeld == \A p \in Processes : Running(p) => EvidenceOf(run[p], store, served)
FrozenHeld == \A p \in Processes : Running(p) => FrozenOf(run[p], store)
MomentsDiffer == \A p, q \in Processes : 
    run[p].at \in FetchPlaces /\ run[q].at \in FetchPlaces /\ run[p].moment = run[q].moment => p = q

\* The records on disk.
RecordOf(r, st, sv) ==
    /\ r = <<"candidate", r[2]>>
    /\ r[2] \in 1..Len(sv)
    /\ st[r].raw = <<"raw", r[2]>>
    /\ <<"raw", r[2]>> \in DOMAIN st
    /\ ToSet(st[<<"raw", r[2]>>].pages) = sv[r[2]]
    /\ st[r].status = "FAIL" => st[r].quarantine \in DOMAIN st
RecordsHeld == /\ \A r \in Records : RecordOf(r, store, served)
               /\ \A x \in DOMAIN store : x[1] = "raw" => x[2] \in 1..Len(served)

\* No more fetches than symbols of the campaigns started.
FetchedOf(c) == Len(c.found) + (IF c.at \in FetchPlaces THEN 1 ELSE 0)
ToFetch == {x \in Processes \X DOMAIN Pool : Running(x[1]) /\ x[2] > FetchedOf(run[x[1]])}
FetchesBounded == /\ IsSequence(served)
                  /\ started \in 0..MaxCampaigns
                  /\ Len(served) + Cardinality(ToFetch) <= started * Len(Pool)

KeptInv == CampaignsTyped /\ EvidenceHeld /\ FrozenHeld /\ MomentsDiffer /\ RecordsHeld
           /\ FetchesBounded

-----------------------------------------------------------------------------
(* What a later campaign reads *)

VerdictsFor(st, v, s) == {r \in DOMAIN st : /\ r[1] = "candidate"
                                            /\ st[r].symbol = s
                                            /\ st[r].version = v}
\* The first verdict in digest order.
Recorded(st, v, s, c) ==
    \E r \in VerdictsFor(st, v, s) :
        /\ \A x \in VerdictsFor(st, v, s) : DigestRank[r[2]] <= DigestRank[x[2]]
        /\ c = st[r]

AloneOf(c, st) ==
    c.alone =>
        /\ \A i \in DOMAIN c.found : Recorded(st, c.version, Pool[i], c.found[i])
        /\ c.at \in FetchPlaces => VerdictsFor(st, c.version, Pool[Len(c.found) + 1]) = {}

OnlyOneAlone == \A p, q \in Processes : Running(p) /\ run[p].alone /\ Running(q) => p = q
AloneHeld == \A p \in Processes : Running(p) => AloneOf(run[p], store)

\* A campaign that returned alone is what the records say for good.
ReturnedOf(o, st) ==
    o.alone => \A i \in DOMAIN o.candidates : Recorded(st, o.version, Pool[i], o.candidates[i])
OutcomesHeld == \A o \in outcomes : /\ IsSequence(o.candidates) /\ Len(o.candidates) = Len(Pool)
                                    /\ ReturnedOf(o, store)
NoRefetch == \A o \in outcomes, p \in Processes :
    o.alone /\ Running(p) /\ run[p].at \in FetchPlaces => run[p].version # o.version
SameSoFar == \A o \in outcomes, p \in Processes :
    o.alone /\ Running(p) /\ run[p].version = o.version /\ o.campaign \in run[p].before =>
        \A i \in DOMAIN run[p].found : run[p].found[i] = o.candidates[i]

\* Campaigns are numbered; those before another one have returned.
Returned == {o.campaign : o \in outcomes}
CampaignsNumbered ==
    /\ \A p \in Processes : Running(p) => /\ run[p].campaign \in 1..started
                                          /\ run[p].campaign \notin Returned
                                          /\ run[p].before \subseteq Returned
    /\ \A p, q \in Processes : Running(p) /\ Running(q) /\ run[p].campaign = run[q].campaign => p = q
    /\ \A o \in outcomes : o.campaign \in 1..started /\ o.before \subseteq Returned

RerunInv == OnlyOneAlone /\ AloneHeld /\ OutcomesHeld /\ NoRefetch /\ SameSoFar
            /\ CampaignsNumbered /\ RerunReproduces

-----------------------------------------------------------------------------
(* One campaign moves *)

\* Everything of a campaign but its place, the calendar's answer and how far
\* the verification before its manifest has come.
SameButPlace(c, d) ==
    /\ DOMAIN d = DOMAIN c
    /\ d.campaign = c.campaign /\ d.version = c.version /\ d.found = c.found
    /\ d.moment = c.moment /\ d.fetch = c.fetch
    /\ d.alone = c.alone /\ d.before = c.before
    /\ d.spoiltAtStart = c.spoiltAtStart

\* Moving a campaign on changes its place only.
LEMMA GotoMoves ==
    ASSUME NEW p \in Processes, NEW at, CampaignsTyped, CampaignTyped(run[p]), Goto(p, at)
    PROVE  /\ run' = [run EXCEPT ![p] = run'[p]]
           /\ run'[p].at = at
           /\ SameButPlace(run[p], run'[p])
<1>1. DOMAIN run = Processes /\ DOMAIN run[p] = Fields
  BY DEF CampaignsTyped, CampaignTyped
<1>2. run' = [run EXCEPT ![p].at = at]
  BY DEF Goto
<1>3. run'[p] = [run[p] EXCEPT !.at = at]
  BY <1>1, <1>2
<1>4. run' = [run EXCEPT ![p] = run'[p]]
  BY <1>1, <1>2
<1> QED BY <1>1, <1>3, <1>4 DEF SameButPlace, Fields

\* The symbol is settled.
SettledWith(c, d, candidate) ==
    /\ DOMAIN d = DOMAIN c
    /\ d.campaign = c.campaign /\ d.version = c.version
    /\ d.found = Append(c.found, candidate)
    /\ d.at = IF Len(c.found) + 1 < Len(Pool) THEN "lookup" ELSE "freeze"
    /\ d.fetch = c.fetch /\ d.alone = c.alone /\ d.before = c.before
    /\ d.spoiltAtStart = c.spoiltAtStart

\* Settling a verdict appends it, and the campaign goes to the next symbol or reports.
LEMMA SettleMoves ==
    ASSUME NEW p \in Processes, NEW candidate, CampaignsTyped, CampaignTyped(run[p]),
           Settle(p, candidate)
    PROVE  /\ run' = [run EXCEPT ![p] = run'[p]]
           /\ SettledWith(run[p], run'[p], candidate)
<1> DEFINE found == Append(run[p].found, candidate)
           at == IF Len(found) < Len(Pool) THEN "lookup" ELSE "freeze"
<1>1. DOMAIN run = Processes /\ DOMAIN run[p] = Fields /\ Len(found) = Len(run[p].found) + 1
  BY AppendSequence DEF CampaignsTyped, CampaignTyped
<1>2. run' = [run EXCEPT ![p].found = found, ![p].at = at]
  BY DEF Settle
<1>3. at = IF Len(run[p].found) + 1 < Len(Pool) THEN "lookup" ELSE "freeze"
  BY <1>1
<1> HIDE DEF found, at
<1>4. run'[p] = [run[p] EXCEPT !.found = found, !.at = at]
  BY <1>1, <1>2
<1>5. run' = [run EXCEPT ![p] = run'[p]]
  BY <1>1, <1>2
<1>6. /\ DOMAIN run'[p] = DOMAIN run[p]
      /\ run'[p].found = found /\ run'[p].at = at
      /\ run'[p].campaign = run[p].campaign /\ run'[p].version = run[p].version
      /\ run'[p].fetch = run[p].fetch /\ run'[p].alone = run[p].alone
      /\ run'[p].before = run[p].before /\ run'[p].spoiltAtStart = run[p].spoiltAtStart
  BY <1>1, <1>4 DEF Fields
<1> QED BY <1>3, <1>5, <1>6 DEF SettledWith, found

\* The pool is not empty.
LEMMA PoolLength == Len(Pool) \in Nat \ {0} /\ DOMAIN Pool = 1..Len(Pool)
BY CampaignConstantsAssumption

\* A campaign is well typed after settling a verdict.
LEMMA SettleTyped ==
    ASSUME NEW c, NEW d, NEW candidate, CampaignTyped(c), c.at \notin EndPlaces,
           SettledWith(c, d, candidate), VerdictOf(c.version, candidate)
    PROVE  /\ CampaignTyped(d)
           /\ d.at \in {"lookup", "freeze"}
           /\ Len(d.found) = Len(c.found) + 1 /\ Len(c.found) \in Nat
           /\ DOMAIN d.found = 1..(Len(c.found) + 1) /\ DOMAIN c.found = 1..Len(c.found)
           /\ d.found[Len(c.found) + 1] = candidate
           /\ \A i \in DOMAIN c.found : d.found[i] = c.found[i]
<1> DEFINE n == Len(c.found)
<1>1. IsSequence(c.found) /\ n < Len(Pool)
  BY DEF CampaignTyped
<1>2. /\ n \in Nat /\ DOMAIN c.found = 1..n
      /\ IsSequence(d.found) /\ Len(d.found) = n + 1 /\ d.found[n + 1] = candidate
      /\ \A i \in 1..n : d.found[i] = c.found[i]
  BY <1>1, AppendSequence, SequenceTyped DEF SettledWith
<1>3. DOMAIN d.found = 1..(n + 1)
  <2>1. IsSequence(d.found) /\ Len(d.found) = n + 1
    BY <1>2
  <2>2. DOMAIN d.found = 1..Len(d.found)
    BY <2>1, SequenceTyped
  <2> QED BY <2>1, <2>2
<1>4. d.at \in {"lookup", "freeze"}
      /\ (d.at = "lookup" => n + 1 < Len(Pool)) /\ (d.at = "freeze" => n + 1 = Len(Pool))
  <2>1. n \in Nat /\ n < Len(Pool) /\ Len(Pool) \in Nat
    BY <1>1, <1>2, PoolLength
  <2>2. d.at = IF n + 1 < Len(Pool) THEN "lookup" ELSE "freeze"
    BY DEF SettledWith
  <2> HIDE DEF n
  <2> QED BY <2>1, <2>2
<1>5. \A i \in DOMAIN d.found : VerdictOf(d.version, d.found[i])
  <2> SUFFICES ASSUME NEW i \in 1..(n + 1) PROVE VerdictOf(c.version, d.found[i])
    BY <1>3 DEF SettledWith
  <2>1. CASE i = n + 1
    BY <1>2, <2>1
  <2>2. CASE i \in 1..n
    BY <1>2, <2>2 DEF CampaignTyped
  <2> QED BY <1>2, <2>1, <2>2
<1> HIDE DEF n
<1>6. CampaignTyped(d)
  BY <1>2, <1>4, <1>5 DEF CampaignTyped, SettledWith, EndPlaces
<1> QED BY <1>2, <1>3, <1>4, <1>6 DEF n

\* A campaign is well typed after moving on.
LEMMA GotoTyped ==
    ASSUME NEW c, NEW d, CampaignTyped(c), SameButPlace(c, d),
           d.at \in FetchPlaces \cup EndPlaces \cup {"lookup"},
           d.at \in EndPlaces <=> c.at \in EndPlaces
    PROVE  CampaignTyped(d) /\ Faults(d) = Faults(c)
BY DEF CampaignTyped, SameButPlace, Faults

\* The judgement depends on the calendar in its wording only.
LEMMA JudgedByFaults ==
    ASSUME NEW p \in Processes
    PROVE  Judgement(p).status = IF Faults(run[p]) = {} THEN "PASS" ELSE "FAIL"
<1>1. Dataset(p) # NoArtifact <=> Success(run[p].fetch)
  BY DEF Dataset, Own, NoArtifact, Identity
<1>2. Raw(p) = RawEvidence(run[p].fetch, run[p].moment, run[p].version)
  BY DEF Raw
<1>3. Faults(run[p]) = Issues(Raw(p), Frame(Raw(p)), Dataset(p) # NoArtifact)
  BY <1>1, <1>2 DEF Faults, Issues, Flags
<1> QED BY <1>3 DEF Judgement, Assess

-----------------------------------------------------------------------------
(* What a step of one campaign leaves to the others *)

\* Files stay, raw evidence is written only at the moment of its fetch, and the
\* pages sent to other fetches stay what they are.
Careful(p) ==
    /\ run' = [run EXCEPT ![p] = run'[p]]
    /\ \A x \in DOMAIN store : x \in DOMAIN store' /\ store'[x] = store[x]
    /\ \A x \in DOMAIN store' \ DOMAIN store :
          x[1] = "raw" => x = <<"raw", run[p].moment>> /\ run[p].at = "fetch"
    /\ IsSequence(served') /\ Len(served') >= Len(served)
    /\ \A n \in 1..Len(served) :
          n # run[p].moment \/ run[p].at # "fetch" => served'[n] = served[n]

\* The moment of a fetch is its own.
OwnMoment(p) ==
    run'[p].at \in FetchPlaces =>
        \/ run[p].at \in FetchPlaces /\ run'[p].moment = run[p].moment
        \/ run'[p].moment = Len(served) + 1

\* An idle process is in no campaign.
LEMMA IdlePlace == Idle.at = "idle" /\ "idle" \notin FetchPlaces /\ Idle.at \notin FetchPlaces
BY DEF Idle, FetchPlaces

\* A campaign is no idle process.
LEMMA TypedRuns ==
    ASSUME NEW c, CampaignTyped(c)
    PROVE  c # Idle
BY DEF CampaignTyped, Idle, FetchPlaces, EndPlaces

\* A step that adds files which keep what they promise preserves the invariant.
LEMMA CarefulKeeps ==
    ASSUME KeptInv, NEW p \in Processes, Careful(p), OwnMoment(p),
           run'[p] = Idle \/ CampaignTyped(run'[p]),
           Running(p)' => EvidenceOf(run'[p], store', served') /\ FrozenOf(run'[p], store'),
           \A x \in DOMAIN store' \ DOMAIN store :
               x[1] = "candidate" => RecordOf(x, store', served')
    PROVE  CampaignsTyped' /\ EvidenceHeld' /\ FrozenHeld' /\ MomentsDiffer' /\ RecordsHeld'
<1> USE DEF Careful
<1>1. DOMAIN run = Processes /\ IsSequence(served)
      /\ \A q \in Processes : run[q] = Idle \/ CampaignTyped(run[q])
  BY DEF KeptInv, CampaignsTyped, FetchesBounded
<1>2. DOMAIN run' = Processes /\ \A q \in Processes : q # p => run'[q] = run[q]
  BY <1>1
<1>3. CampaignsTyped'
  BY <1>1, <1>2 DEF CampaignsTyped
<1>l. Len(served) \in Nat /\ Len(served') \in Nat /\ 1..Len(served) \subseteq 1..Len(served')
  <2>1. Len(served) \in Nat /\ Len(served') \in Nat
    BY <1>1, SequenceTyped
  <2> QED BY <2>1
<1>4. ASSUME NEW q \in Processes, q # p, Running(q)
      PROVE  EvidenceOf(run[q], store', served') /\ FrozenOf(run[q], store')
  <2>1. EvidenceOf(run[q], store, served) /\ FrozenOf(run[q], store)
    BY <1>4 DEF KeptInv, EvidenceHeld, FrozenHeld
  <2>2. FrozenOf(run[q], store')
    BY <2>1 DEF FrozenOf, Reported
  <2>3. CASE run[q].at \in FetchPlaces
    <3>1. run[q].moment \in 1..Len(served)
      BY <2>1, <2>3 DEF EvidenceOf
    <3>2. run[p].at = "fetch" => run[p].moment # run[q].moment
      BY <1>4, <2>3 DEF KeptInv, MomentsDiffer, FetchPlaces
    <3>3. served'[run[q].moment] = served[run[q].moment]
      BY <3>1, <3>2
    <3>4. <<"raw", run[q].moment>> \notin DOMAIN store => <<"raw", run[q].moment>> \notin DOMAIN store'
      <4> SUFFICES ASSUME <<"raw", run[q].moment>> \in DOMAIN store' \ DOMAIN store PROVE FALSE
        OBVIOUS
      <4>1. <<"raw", run[q].moment>>[1] = "raw"
        OBVIOUS
      <4>2. <<"raw", run[q].moment>> = <<"raw", run[p].moment>> /\ run[p].at = "fetch"
        BY <4>1
      <4> QED BY <3>2, <4>2
    <3> QED BY <1>l, <2>1, <2>2, <2>3, <3>1, <3>3, <3>4 DEF EvidenceOf
  <2>4. CASE run[q].at \notin FetchPlaces
    BY <2>2, <2>4 DEF EvidenceOf
  <2> QED BY <2>3, <2>4
<1>5. EvidenceHeld' /\ FrozenHeld'
  <2> SUFFICES ASSUME NEW q \in Processes, Running(q)'
               PROVE  EvidenceOf(run'[q], store', served') /\ FrozenOf(run'[q], store')
    BY DEF EvidenceHeld, FrozenHeld
  <2>1. CASE q = p
    BY <2>1
  <2>2. CASE q # p
    BY <1>2, <1>4, <2>2 DEF Running
  <2> QED BY <2>1, <2>2
<1>6. MomentsDiffer'
  <2>1. ASSUME NEW q \in Processes, q # p, run'[q].at \in FetchPlaces, run'[p].at \in FetchPlaces
        PROVE  run'[q].moment # run'[p].moment
    <3>1. run[q].at \in FetchPlaces /\ run'[q].moment = run[q].moment
      BY <1>2, <2>1
    <3>2. run[q].moment \in 1..Len(served)
      <4>1. Running(q)
        BY <3>1, IdlePlace DEF Running
      <4> QED BY <3>1, <4>1 DEF KeptInv, EvidenceHeld, EvidenceOf
    <3>3. run[p].at \in FetchPlaces => run[p].moment # run[q].moment
      BY <2>1, <3>1 DEF KeptInv, MomentsDiffer
    <3> QED BY <1>l, <2>1, <3>1, <3>2, <3>3 DEF OwnMoment
  <2>2. ASSUME NEW q \in Processes, q # p, NEW r \in Processes, r # p, q # r,
               run'[q].at \in FetchPlaces, run'[r].at \in FetchPlaces
        PROVE  run'[q].moment # run'[r].moment
    BY <1>2, <2>2 DEF KeptInv, MomentsDiffer
  <2> QED BY <2>1, <2>2 DEF MomentsDiffer
<1>7. ASSUME NEW x \in DOMAIN store', x[1] = "raw" PROVE x[2] \in 1..Len(served')
  <2>1. CASE x \in DOMAIN store
    BY <1>7, <1>l, <2>1 DEF KeptInv, RecordsHeld
  <2>2. CASE x \notin DOMAIN store
    <3>1. x = <<"raw", run[p].moment>> /\ run[p].at = "fetch"
      BY <1>7, <2>2
    <3>2. Running(p) /\ run[p].at \in FetchPlaces
      BY <3>1, IdlePlace DEF Running, FetchPlaces
    <3>3. run[p].moment \in 1..Len(served)
      BY <3>2 DEF KeptInv, EvidenceHeld, EvidenceOf
    <3> QED BY <1>l, <3>1, <3>3
  <2> QED BY <2>1, <2>2
<1>8. RecordsHeld'
  <2> SUFFICES ASSUME NEW r \in DOMAIN store', r[1] = "candidate"
               PROVE  RecordOf(r, store', served')
    BY <1>7 DEF RecordsHeld, Records
  <2>1. CASE r \notin DOMAIN store
    BY <2>1
  <2>2. CASE r \in DOMAIN store
    <3>1. RecordOf(r, store, served)
      BY <2>2 DEF KeptInv, RecordsHeld, Records
    <3>2. /\ r[2] \in 1..Len(served) /\ <<"raw", r[2]>> \in DOMAIN store
          /\ store'[r] = store[r] /\ store'[<<"raw", r[2]>>] = store[<<"raw", r[2]>>]
      BY <2>2, <3>1 DEF RecordOf
    <3>3. run[p].at = "fetch" => run[p].moment # r[2]
      <4>1. ASSUME run[p].at = "fetch" PROVE <<"raw", run[p].moment>> \notin DOMAIN store
        <5>1. Running(p) /\ run[p].at \in FetchPlaces
          BY <4>1, IdlePlace DEF Running, FetchPlaces
        <5> QED BY <4>1, <5>1 DEF KeptInv, EvidenceHeld, EvidenceOf
      <4> QED BY <3>2, <4>1
    <3>4. served'[r[2]] = served[r[2]]
      BY <3>2, <3>3
    <3> QED BY <1>l, <3>1, <3>2, <3>4 DEF RecordOf
  <2> QED BY <2>1, <2>2
<1> QED BY <1>3, <1>5, <1>6, <1>8

-----------------------------------------------------------------------------
(* The bound on fetches, and the first verdict in digest order *)

\* The fetches still to come are finitely many.
LEMMA ToFetchFinite ==
    IsFiniteSet(Processes \X DOMAIN Pool) /\ IsFiniteSet(ToFetch) /\ Cardinality(ToFetch) \in Nat
<1>1. IsFiniteSet(DOMAIN Pool)
  BY PoolLength, FS_Interval
<1>2. IsFiniteSet(Processes \X DOMAIN Pool)
  BY <1>1, FS_Product, CampaignConstantsAssumption
<1>3. ToFetch \in SUBSET (Processes \X DOMAIN Pool)
  BY DEF ToFetch
<1> QED BY <1>2, <1>3, FS_Subset, FS_CardinalityType

\* A step that serves nothing, and after which no more is to fetch, keeps the bound.
LEMMA ToFetchShrinks ==
    ASSUME FetchesBounded, IsSequence(served'), Len(served') = Len(served), UNCHANGED started,
           \A x \in Processes \X DOMAIN Pool : x \in ToFetch' => x \in ToFetch
    PROVE  FetchesBounded'
<1> DEFINE after == ToFetch'
<1>1. after \in SUBSET ToFetch
  BY DEF ToFetch
<1> HIDE DEF after
<1>2. /\ IsFiniteSet(ToFetch) /\ Cardinality(ToFetch) \in Nat
      /\ Cardinality(after) \in Nat /\ Cardinality(after) <= Cardinality(ToFetch)
  BY <1>1, ToFetchFinite, FS_Subset, FS_CardinalityType
<1>3. Len(served) \in Nat /\ started \in Nat /\ started * Len(Pool) \in Nat
  BY SequenceTyped, PoolLength, UniverseCampaignAssumption DEF FetchesBounded
<1>4. Len(served) + Cardinality(after) <= started * Len(Pool)
  <2> DEFINE bound == started * Len(Pool)
  <2>1. Len(served) + Cardinality(ToFetch) <= bound /\ bound \in Nat
    BY <1>3 DEF FetchesBounded
  <2> HIDE DEF bound
  <2>2. Len(served) + Cardinality(after) <= bound
    BY <1>2, <1>3, <2>1
  <2> QED BY <2>2 DEF bound
<1> QED BY <1>4 DEF FetchesBounded, after

\* A campaign that moves on has no more to fetch than before.
LEMMA LessFetched ==
    ASSUME KeptInv, NEW p \in Processes, run' = [run EXCEPT ![p] = run'[p]],
           Running(p)' => Running(p) /\ FetchedOf(run'[p]) >= FetchedOf(run[p])
                          /\ FetchedOf(run[p]) \in Nat /\ FetchedOf(run'[p]) \in Nat
    PROVE  \A x \in Processes \X DOMAIN Pool : x \in ToFetch' => x \in ToFetch
<1> SUFFICES ASSUME NEW q \in Processes, NEW i \in DOMAIN Pool, <<q, i>> \in ToFetch'
             PROVE  <<q, i>> \in ToFetch
  OBVIOUS
<1>1. run'[q] # Idle /\ i > FetchedOf(run'[q])
  BY DEF ToFetch, Running, FetchedOf
<1>2. DOMAIN run = Processes /\ (q # p => run'[q] = run[q])
  BY DEF KeptInv, CampaignsTyped
<1>3. i \in Nat
  BY PoolLength
<1>4. run[q] # Idle /\ i > FetchedOf(run[q])
  <2>1. CASE q = p
    BY <1>1, <1>3, <2>1 DEF Running
  <2>2. CASE q # p
    BY <1>1, <1>2, <2>2
  <2> QED BY <2>1, <2>2
<1> QED BY <1>4 DEF ToFetch, Running

\* A non-empty set of natural numbers has a least one.
LEMMA LeastNatural ==
    ASSUME NEW T \in SUBSET Nat, T # {}
    PROVE  \E x \in T : \A y \in T : x <= y
<1> DEFINE R == {ss \in Nat \X Nat : ss[1] < ss[2]}
<1>1. IsWellFoundedOn(R, Nat)
  BY NatLessThanWellFounded DEF OpToRel
<1>2. \A x, y \in Nat : y < x => <<y, x>> \in R
  OBVIOUS
<1> HIDE DEF R
<1>3. PICK x \in T : \A y \in T : ~ (<<y, x>> \in R)
  BY <1>1, WFMin
<1>4. ASSUME NEW y \in T PROVE x <= y
  <2>1. x \in Nat /\ y \in Nat /\ ~(y < x)
    BY <1>2, <1>3
  <2> QED BY <2>1
<1> QED BY <1>4

\* Every fetch, and so every record, has a place of its own in digest order.
LEMMA FetchesRanked ==
    ASSUME KeptInv
    PROVE  Len(served) \in Nat /\ 1..Len(served) \subseteq DOMAIN DigestRank
<1> DEFINE bound == MaxCampaigns * Len(Pool)
<1>1. Len(served) <= bound /\ Len(served) \in Nat /\ bound \in Nat
  <2>1. /\ Len(served) \in Nat /\ started \in Nat /\ MaxCampaigns \in Nat /\ started <= MaxCampaigns
        /\ Len(Pool) \in Nat /\ Cardinality(ToFetch) \in Nat
        /\ Len(served) + Cardinality(ToFetch) <= started * Len(Pool)
    BY SequenceTyped, PoolLength, ToFetchFinite, UniverseCampaignAssumption
       DEF KeptInv, FetchesBounded
  <2>2. \A a, b, n \in Nat : a <= b => a * n <= b * n /\ a * n \in Nat /\ b * n \in Nat
    OBVIOUS
  <2>3. /\ started * Len(Pool) <= bound
        /\ started * Len(Pool) \in Nat /\ bound \in Nat
    BY <2>1, <2>2
  <2> HIDE DEF bound
  <2> QED BY <2>1, <2>3
<1>2. DOMAIN DigestRank = 1..bound
  BY UniverseCampaignAssumption
<1> HIDE DEF bound
<1> QED BY <1>1, <1>2

\* Records have digests, and different ones.
LEMMA RecordsRanked ==
    ASSUME KeptInv
    PROVE  /\ \A r \in Records : DigestRank[r[2]] \in Nat
           /\ \A r, s \in Records : DigestRank[r[2]] = DigestRank[s[2]] => r = s
<1>1. \A r \in Records : r = <<"candidate", r[2]>> /\ r[2] \in DOMAIN DigestRank
  BY FetchesRanked DEF KeptInv, RecordsHeld, RecordOf
<1>2. \A n \in DOMAIN DigestRank : DigestRank[n] \in Nat
  BY UniverseCampaignAssumption
<1>3. ASSUME NEW r \in Records, NEW s \in Records, DigestRank[r[2]] = DigestRank[s[2]]
      PROVE  r = s
  <2>1. r[2] = s[2]
    BY <1>1, <1>3, UniverseCampaignAssumption
  <2> QED BY <1>1, <2>1
<1> QED BY <1>1, <1>2, <1>3

\* A lookup returns the matching record that is first by digest.
LEMMA FirstMatchIsFirst ==
    ASSUME KeptInv, NEW p \in Processes, Matching(p) # {}
    PROVE  /\ FirstMatch(p) \in Matching(p)
           /\ \A x \in Matching(p) : DigestRank[FirstMatch(p)[2]] <= DigestRank[x[2]]
<1> DEFINE M == Matching(p)
           ranks == {DigestRank[r[2]] : r \in M}
<1>1. M \subseteq Records /\ \A r \in Records : DigestRank[r[2]] \in Nat
  BY RecordsRanked DEF Matching
<1>2. ranks \in SUBSET Nat /\ ranks # {}
  BY <1>1
<1>3. PICK least \in M : \A x \in M : DigestRank[least[2]] <= DigestRank[x[2]]
  <2> HIDE DEF ranks
  <2>1. PICK n \in ranks : \A m \in ranks : n <= m
    BY <1>2, LeastNatural
  <2> USE DEF ranks
  <2>2. PICK r \in M : n = DigestRank[r[2]]
    OBVIOUS
  <2>3. \A x \in M : DigestRank[x[2]] \in ranks
    OBVIOUS
  <2> QED BY <2>1, <2>2, <2>3
<1> HIDE DEF M, ranks
<1>4. M \cap RecordsUpTo(least) = {least}
  <2>1. ASSUME NEW x \in M, DigestRank[x[2]] <= DigestRank[least[2]] PROVE x = least
    <3>1. DigestRank[x[2]] \in Nat /\ DigestRank[least[2]] \in Nat
          /\ DigestRank[least[2]] <= DigestRank[x[2]]
      BY <1>1, <1>3
    <3>2. DigestRank[x[2]] = DigestRank[least[2]]
      BY <2>1, <3>1
    <3> QED BY <1>1, <3>2, RecordsRanked
  <2>2. least \in RecordsUpTo(least)
    BY <1>1 DEF RecordsUpTo
  <2> QED BY <2>1, <2>2 DEF RecordsUpTo
<1>5. FirstMatch(p) \in M /\ M \cap RecordsUpTo(FirstMatch(p)) = {FirstMatch(p)}
  BY <1>4 DEF FirstMatch, M
<1>6. ASSUME NEW x \in M PROVE DigestRank[FirstMatch(p)[2]] <= DigestRank[x[2]]
  <2>1. DigestRank[x[2]] \in Nat /\ DigestRank[FirstMatch(p)[2]] \in Nat
    BY <1>1, <1>5
  <2>2. CASE DigestRank[x[2]] <= DigestRank[FirstMatch(p)[2]]
    <3>1. x \in M \cap RecordsUpTo(FirstMatch(p))
      BY <1>1, <2>2 DEF RecordsUpTo
    <3>2. x = FirstMatch(p)
      BY <1>5, <3>1
    <3> QED BY <2>1, <3>2
  <2> QED BY <2>1, <2>2
<1> QED BY <1>5, <1>6 DEF M

-----------------------------------------------------------------------------
(* The steps of a campaign *)

\* What the invariant says of a campaign at each place.
LEMMA CampaignAt ==
    ASSUME KeptInv, NEW p \in Processes, Running(p)
    PROVE  /\ CampaignTyped(run[p]) /\ EvidenceOf(run[p], store, served) /\ FrozenOf(run[p], store)
           /\ CampaignsTyped /\ DOMAIN run = Processes
           /\ FetchedOf(run[p]) \in Nat
           /\ IsSequence(run[p].found) /\ Len(run[p].found) \in Nat
           /\ DOMAIN run[p].found = 1..Len(run[p].found)
<1>1. CampaignTyped(run[p]) /\ CampaignsTyped /\ DOMAIN run = Processes
  BY DEF KeptInv, CampaignsTyped, Running
<1>2. IsSequence(run[p].found) /\ Len(run[p].found) \in Nat
      /\ DOMAIN run[p].found = 1..Len(run[p].found)
  <2>1. IsSequence(run[p].found)
    BY <1>1 DEF CampaignTyped
  <2> QED BY <2>1, SequenceTyped
<1>3. FetchedOf(run[p]) \in Nat
  <2> DEFINE n == Len(run[p].found)
             k == IF run[p].at \in FetchPlaces THEN 1 ELSE 0
  <2>1. n \in Nat /\ k \in Nat
    BY <1>2
  <2> HIDE DEF n, k
  <2>2. n + k \in Nat
    BY <2>1
  <2> QED BY <2>2 DEF FetchedOf, n, k
<1> QED BY <1>1, <1>2, <1>3 DEF KeptInv, EvidenceHeld, FrozenHeld

\* A process at a place of a campaign runs one.
LEMMA PlacedIsRunning ==
    ASSUME NEW p \in Processes, run[p].at # "idle"
    PROVE  Running(p)
BY DEF Running, Idle

\* A file is written, nothing else is.
LEMMA WriteIsCareful ==
    ASSUME KeptInv, NEW p \in Processes, NEW id, NEW content,
           Writable(id, content), Stored(id, content), UNCHANGED served,
           run' = [run EXCEPT ![p] = run'[p]],
           id[1] = "raw" => id = <<"raw", run[p].moment>> /\ run[p].at = "fetch"
    PROVE  /\ Careful(p)
           /\ id \in DOMAIN store' /\ store'[id] = content
           /\ DOMAIN store' \ DOMAIN store \subseteq {id}
           /\ \A x \in DOMAIN store : x \in DOMAIN store' /\ store'[x] = store[x]
<1>1. /\ DOMAIN store' = DOMAIN store \cup {id}
      /\ store'[id] = content
      /\ \A x \in DOMAIN store : store'[x] = store[x]
  BY StoreGrows
<1>2. IsSequence(served) /\ Len(served) \in Nat
  BY SequenceTyped DEF KeptInv, FetchesBounded
<1> QED BY <1>1, <1>2 DEF Careful

\* The campaign moves on to another place of the same fetch, or of the end.
LEMMA MovedKeeps ==
    ASSUME KeptInv, NEW p \in Processes, Running(p),
           Careful(p), SameButPlace(run[p], run'[p]), UNCHANGED <<served, started>>,
           \A x \in DOMAIN store' \ DOMAIN store : x[1] # "candidate",
           run'[p].at \in FetchPlaces \cup EndPlaces,
           run'[p].at \in FetchPlaces <=> run[p].at \in FetchPlaces,
           run'[p].at \in EndPlaces <=> run[p].at \in EndPlaces,
           EvidenceOf(run'[p], store', served), FrozenOf(run'[p], store')
    PROVE  KeptInv'
<1> DEFINE c == run[p]
           d == run'[p]
<1>1. CampaignTyped(c) /\ FetchedOf(c) \in Nat /\ CampaignsTyped
  BY CampaignAt
<1>2. run' = [run EXCEPT ![p] = d] /\ SameButPlace(c, d)
  BY DEF Careful
<1>3. CampaignTyped(d)
  BY <1>1, <1>2, GotoTyped
<1>4. FetchedOf(d) = FetchedOf(c)
  BY <1>2 DEF FetchedOf, SameButPlace
<1>5. OwnMoment(p)
  BY <1>2 DEF OwnMoment, SameButPlace
<1>6. CampaignsTyped' /\ EvidenceHeld' /\ FrozenHeld' /\ MomentsDiffer' /\ RecordsHeld'
  <2>1. \A x \in DOMAIN store' \ DOMAIN store : x[1] = "candidate" => RecordOf(x, store', served')
    OBVIOUS
  <2>2. Running(p)' => EvidenceOf(run'[p], store', served') /\ FrozenOf(run'[p], store')
    OBVIOUS
  <2> QED BY <1>3, <1>5, <2>1, <2>2, CarefulKeeps
<1>7. \A x \in Processes \X DOMAIN Pool : x \in ToFetch' => x \in ToFetch
  <2>1. Running(p)' => Running(p) /\ FetchedOf(run'[p]) >= FetchedOf(run[p])
                       /\ FetchedOf(run[p]) \in Nat /\ FetchedOf(run'[p]) \in Nat
    BY <1>1, <1>4
  <2> QED BY <1>2, <2>1, LessFetched
<1>8. FetchesBounded'
  <2>1. FetchesBounded /\ IsSequence(served') /\ Len(served') = Len(served)
    BY DEF KeptInv, FetchesBounded
  <2> QED BY <1>7, <2>1, ToFetchShrinks
<1> QED BY <1>6, <1>8 DEF KeptInv

\* It does, writing a file.
LEMMA MoveKeeps ==
    ASSUME KeptInv, NEW p \in Processes, Running(p), NEW at,
           run' = [run EXCEPT ![p] = run'[p]], run'[p].at = at, SameButPlace(run[p], run'[p]),
           NEW id, NEW content, Writable(id, content), Stored(id, content),
           UNCHANGED <<served, started>>,
           id[1] = "raw" => id = <<"raw", run[p].moment>> /\ run[p].at = "fetch",
           id[1] # "candidate",
           at \in FetchPlaces \cup EndPlaces,
           at \in FetchPlaces <=> run[p].at \in FetchPlaces,
           at \in EndPlaces <=> run[p].at \in EndPlaces,
           EvidenceOf(run'[p], store', served), FrozenOf(run'[p], store')
    PROVE  KeptInv'
<1>1. Careful(p) /\ DOMAIN store' \ DOMAIN store \subseteq {id}
  BY WriteIsCareful
<1>2. \A x \in DOMAIN store' \ DOMAIN store : x[1] # "candidate"
  BY <1>1
<1> QED BY <1>1, <1>2, MovedKeeps

\* Recording the raw pages preserves KeptInv.
LEMMA WriteRawKeeps == ASSUME KeptInv, NEW p \in Processes, WriteRaw(p) PROVE KeptInv'
<1> DEFINE c == run[p]
           d == run'[p]
           at == IF Success(c.fetch) THEN "normalize" ELSE AfterJudgement(p)
           id == <<"raw", c.moment>>
<1>1. c.at = "fetch" /\ Running(p) /\ UNCHANGED <<served, started>>
      /\ Writable(id, Raw(p)) /\ Stored(id, Raw(p)) /\ Goto(p, at)
  BY PlacedIsRunning DEF WriteRaw, Own, Identity
<1>2. CampaignTyped(c) /\ EvidenceOf(c, store, served) /\ FrozenOf(c, store) /\ CampaignsTyped
  BY <1>1, CampaignAt
<1>3. at \in {"normalize", "calendar", "quarantine", "record"}
      /\ (at = "record" => Faults(c) = {})
  BY JudgedByFaults DEF AfterJudgement
<1> HIDE DEF at
<1>4. run' = [run EXCEPT ![p] = d] /\ d.at = at /\ SameButPlace(c, d)
  BY <1>1, <1>2, GotoMoves
<1>5. Faults(d) = Faults(c)
  BY <1>4 DEF Faults, SameButPlace
<1>6. id \in DOMAIN store' /\ store'[id] = Raw(p)
  BY <1>1, StoreGrows
<1>7. Raw(p).pages = c.fetch.pages
  BY DEF Raw, RawEvidence
<1>8. EvidenceOf(d, store', served)
  BY <1>1, <1>2, <1>3, <1>4, <1>5, <1>6, <1>7 DEF EvidenceOf, SameButPlace, FetchPlaces
<1>9. FrozenOf(d, store')
  BY <1>3, <1>4 DEF FrozenOf, Reported
<1>10. id[1] = "raw"
  OBVIOUS
<1> HIDE DEF id, c, d
<1>11. at \in FetchPlaces \cup EndPlaces /\ at \in FetchPlaces /\ at \notin EndPlaces
       /\ run[p].at \in FetchPlaces /\ run[p].at \notin EndPlaces
  BY <1>1, <1>3 DEF FetchPlaces, EndPlaces, c
<1>12. id = <<"raw", run[p].moment>> /\ run[p].at = "fetch"
  BY <1>1 DEF id, c
<1>14. run' = [run EXCEPT ![p] = run'[p]] /\ run'[p].at = at /\ SameButPlace(run[p], run'[p])
  BY <1>4 DEF c, d
<1>13. EvidenceOf(run'[p], store', served) /\ FrozenOf(run'[p], store')
  BY <1>8, <1>9 DEF d
<1> QED BY <1>1, <1>10, <1>11, <1>12, <1>13, <1>14, MoveKeeps

\* Storing the normalized frame preserves KeptInv.
LEMMA WriteNormalizedKeeps ==
    ASSUME KeptInv, NEW p \in Processes, WriteNormalized(p) PROVE KeptInv'
<1> DEFINE at == AfterJudgement(p)
           id == <<"normalized", run[p].moment>>
<1>1. run[p].at = "normalize" /\ Running(p) /\ UNCHANGED <<served, started>>
      /\ Writable(id, Normalized(p)) /\ Stored(id, Normalized(p)) /\ Goto(p, at)
  BY PlacedIsRunning DEF WriteNormalized, Own, Identity
<1>2. CampaignTyped(run[p]) /\ EvidenceOf(run[p], store, served) /\ CampaignsTyped
  BY <1>1, CampaignAt
<1>3. at \in {"calendar", "quarantine", "record"} /\ (at = "record" => Faults(run[p]) = {})
  BY JudgedByFaults DEF AfterJudgement
<1>4. id[1] = "normalized"
  OBVIOUS
<1> HIDE DEF at, id
<1>5. run' = [run EXCEPT ![p] = run'[p]] /\ run'[p].at = at /\ SameButPlace(run[p], run'[p])
  BY <1>1, <1>2, GotoMoves
<1>6. Faults(run'[p]) = Faults(run[p])
  BY <1>5 DEF Faults, SameButPlace
<1>7. \A x \in DOMAIN store : x \in DOMAIN store' /\ store'[x] = store[x]
  BY <1>1, StoreGrows
<1>8. EvidenceOf(run'[p], store', served)
  BY <1>1, <1>2, <1>3, <1>5, <1>6, <1>7 DEF EvidenceOf, SameButPlace, FetchPlaces
<1>9. FrozenOf(run'[p], store')
  BY <1>3, <1>5 DEF FrozenOf, Reported
<1>10. at \in FetchPlaces \cup EndPlaces /\ at \in FetchPlaces /\ at \notin EndPlaces
       /\ run[p].at \in FetchPlaces /\ run[p].at \notin EndPlaces
  BY <1>1, <1>3 DEF FetchPlaces, EndPlaces
<1> QED BY <1>1, <1>4, <1>5, <1>8, <1>9, <1>10, MoveKeeps

\* Asking the calendar preserves KeptInv.
LEMMA AskCalendarKeeps ==
    ASSUME KeptInv, NEW p \in Processes, AskCalendar(p) PROVE KeptInv'
<1> DEFINE id == <<"calendar", run[p].moment>>
           at == IF Judgement(p).status = "FAIL" THEN "quarantine" ELSE "record"
<1>0. id[1] = "calendar"
  OBVIOUS
<1>1. PICK answer \in Calendars :
          /\ Writable(id, answer) /\ Stored(id, answer)
          /\ run' = [run EXCEPT ![p].calendar = answer, ![p].at = at]
  BY DEF AskCalendar, Own, Identity
<1>2. run[p].at = "calendar" /\ Running(p) /\ UNCHANGED <<served, started>>
  BY PlacedIsRunning DEF AskCalendar
<1>3. CampaignTyped(run[p]) /\ EvidenceOf(run[p], store, served) /\ DOMAIN run = Processes
  BY <1>2, CampaignAt
<1>4. at \in {"quarantine", "record"} /\ (at = "record" => Faults(run[p]) = {})
  BY JudgedByFaults
<1> HIDE DEF at, id
<1>5. run' = [run EXCEPT ![p] = run'[p]] /\ run'[p].at = at /\ SameButPlace(run[p], run'[p])
  <2>1. DOMAIN run[p] = Fields
    BY <1>3 DEF CampaignTyped
  <2>2. run'[p] = [run[p] EXCEPT !.calendar = answer, !.at = at]
    BY <1>1, <1>3
  <2>3. run' = [run EXCEPT ![p] = run'[p]]
    BY <1>1, <1>3
  <2> QED BY <2>1, <2>2, <2>3 DEF SameButPlace, Fields
<1>6. Faults(run'[p]) = Faults(run[p])
  BY <1>5 DEF Faults, SameButPlace
<1>7. \A x \in DOMAIN store : x \in DOMAIN store' /\ store'[x] = store[x]
  BY <1>1, StoreGrows
<1>8. EvidenceOf(run'[p], store', served)
  BY <1>2, <1>3, <1>4, <1>5, <1>6, <1>7 DEF EvidenceOf, SameButPlace, FetchPlaces
<1>9. FrozenOf(run'[p], store')
  BY <1>4, <1>5 DEF FrozenOf, Reported
<1>10. at \in FetchPlaces \cup EndPlaces /\ at \in FetchPlaces /\ at \notin EndPlaces
       /\ run[p].at \in FetchPlaces /\ run[p].at \notin EndPlaces
  BY <1>2, <1>4 DEF FetchPlaces, EndPlaces
<1> QED BY <1>0, <1>1, <1>2, <1>5, <1>8, <1>9, <1>10, MoveKeeps

\* Quarantining evidence preserves KeptInv.
LEMMA WriteQuarantineKeeps ==
    ASSUME KeptInv, NEW p \in Processes, WriteQuarantine(p) PROVE KeptInv'
<1> DEFINE id == <<"quarantine", run[p].moment>>
           bundle == [kind |-> "quarantine", symbol |-> Symbol(p), raw |-> Own(p, "raw"),
                      normalized |-> Dataset(p), issues |-> Judgement(p).issues,
                      missing |-> Judgement(p).missing, unexpected |-> Judgement(p).unexpected]
<1>1. run[p].at = "quarantine" /\ Running(p) /\ UNCHANGED <<served, started>>
      /\ Writable(id, bundle) /\ Stored(id, bundle) /\ Goto(p, "record")
  BY PlacedIsRunning DEF WriteQuarantine, Own, Identity
<1> HIDE DEF bundle
<1>2. CampaignTyped(run[p]) /\ EvidenceOf(run[p], store, served) /\ CampaignsTyped
  BY <1>1, CampaignAt
<1>4. id[1] = "quarantine"
  OBVIOUS
<1>5. run' = [run EXCEPT ![p] = run'[p]] /\ run'[p].at = "record" /\ SameButPlace(run[p], run'[p])
  BY <1>1, <1>2, GotoMoves
<1>7. id \in DOMAIN store' /\ \A x \in DOMAIN store : x \in DOMAIN store' /\ store'[x] = store[x]
  BY <1>1, StoreGrows
<1>8. EvidenceOf(run'[p], store', served)
  BY <1>1, <1>2, <1>5, <1>7 DEF EvidenceOf, SameButPlace, FetchPlaces
<1>9. FrozenOf(run'[p], store')
  BY <1>5 DEF FrozenOf, Reported
<1>10. "record" \in FetchPlaces \cup EndPlaces /\ "record" \in FetchPlaces /\ "record" \notin EndPlaces
       /\ run[p].at \in FetchPlaces /\ run[p].at \notin EndPlaces
  BY <1>1 DEF FetchPlaces, EndPlaces
<1> HIDE DEF id
<1> QED BY <1>1, <1>4, <1>5, <1>8, <1>9, <1>10, MoveKeeps

\* Freezing the verdicts in a snapshot preserves KeptInv.
LEMMA FreezeKeeps == ASSUME KeptInv, NEW p \in Processes, Freeze(p) PROVE KeptInv'
<1> DEFINE id == <<"snapshot", run[p].campaign>>
<1>1. run[p].at = "freeze" /\ Running(p) /\ UNCHANGED <<served, started>>
      /\ Writable(id, Snapshot(p)) /\ Stored(id, Snapshot(p)) /\ Goto(p, "report")
  BY PlacedIsRunning DEF Freeze, SnapshotId, Identity
<1>2. CampaignTyped(run[p]) /\ CampaignsTyped
  BY <1>1, CampaignAt
<1>4. id[1] = "snapshot"
  OBVIOUS
<1>5. run' = [run EXCEPT ![p] = run'[p]] /\ run'[p].at = "report" /\ SameButPlace(run[p], run'[p])
  BY <1>1, <1>2, GotoMoves
<1>7. id \in DOMAIN store' /\ store'[id].candidates = run[p].found
  <2>1. id \in DOMAIN store' /\ store'[id] = Snapshot(p)
    BY <1>1, StoreGrows
  <2>2. Snapshot(p).candidates = run[p].found
    BY DEF Snapshot
  <2> QED BY <2>1, <2>2
<1>8. EvidenceOf(run'[p], store', served)
  BY <1>5 DEF EvidenceOf, FetchPlaces
<1>9. FrozenOf(run'[p], store')
  BY <1>5, <1>7 DEF FrozenOf, SameButPlace, Reported
<1>10. "report" \in FetchPlaces \cup EndPlaces /\ "report" \notin FetchPlaces /\ "report" \in EndPlaces
       /\ run[p].at \notin FetchPlaces /\ run[p].at \in EndPlaces
  BY <1>1 DEF FetchPlaces, EndPlaces
<1> HIDE DEF id
<1> QED BY <1>1, <1>4, <1>5, <1>8, <1>9, <1>10, MoveKeeps

\* The campaign is over.
LEMMA EndKeeps ==
    ASSUME KeptInv, NEW p \in Processes, Running(p), run' = [run EXCEPT ![p] = Idle],
           Careful(p), UNCHANGED <<served, started>>,
           \A x \in DOMAIN store' \ DOMAIN store : x[1] # "candidate"
    PROVE  KeptInv'
<1>1. DOMAIN run = Processes
  BY CampaignAt
<1>2. run'[p] = Idle /\ run' = [run EXCEPT ![p] = run'[p]] /\ ~Running(p)'
  BY <1>1 DEF Running
<1>3. OwnMoment(p)
  BY <1>2, IdlePlace DEF OwnMoment
<1>4. CampaignsTyped' /\ EvidenceHeld' /\ FrozenHeld' /\ MomentsDiffer' /\ RecordsHeld'
  BY <1>2, <1>3, CarefulKeeps
<1>5. \A x \in Processes \X DOMAIN Pool : x \in ToFetch' => x \in ToFetch
  BY <1>2, LessFetched
<1>6. FetchesBounded'
  <2>1. FetchesBounded /\ IsSequence(served') /\ Len(served') = Len(served)
    BY DEF KeptInv, FetchesBounded
  <2> QED BY <1>5, <2>1, ToFetchShrinks
<1> QED BY <1>4, <1>6 DEF KeptInv

\* A crash preserves KeptInv.
LEMMA StopKeeps == ASSUME KeptInv, NEW p \in Processes, Stop(p) PROVE KeptInv'
<1>1. Running(p) /\ run' = [run EXCEPT ![p] = Idle] /\ UNCHANGED <<store, served, started>>
  BY DEF Stop
<1>2. DOMAIN run = Processes /\ IsSequence(served) /\ Len(served) \in Nat
  BY <1>1, CampaignAt, SequenceTyped DEF KeptInv, FetchesBounded
<1>3. Careful(p)
  BY <1>1, <1>2 DEF Careful
<1> QED BY <1>1, <1>3, EndKeeps

\* Writing the report preserves KeptInv.
LEMMA WriteReportKeeps == ASSUME KeptInv, NEW p \in Processes, WriteReport(p) PROVE KeptInv'
<1> DEFINE id == <<"report", run[p].campaign>>
           report == Report(store[SnapshotId(p)], p)
<1>1. run[p].at = "report" /\ Running(p) /\ UNCHANGED <<served, started>>
      /\ Writable(id, report) /\ Stored(id, report) /\ Goto(p, "reread")
  BY PlacedIsRunning DEF WriteReport, ReportId, Identity
<1>2. report.snapshot = <<"snapshot", run[p].campaign>>
  BY DEF Report, SnapshotId, Identity
<1> HIDE DEF report
<1>3. CampaignTyped(run[p]) /\ CampaignsTyped /\ FrozenOf(run[p], store)
  BY <1>1, CampaignAt
<1>4. id[1] = "report"
  OBVIOUS
<1>5. id \in DOMAIN store' /\ store'[id] = report
      /\ \A x \in DOMAIN store : x \in DOMAIN store' /\ store'[x] = store[x]
  BY <1>1, StoreGrows
<1>6. run' = [run EXCEPT ![p] = run'[p]] /\ run'[p].at = "reread" /\ SameButPlace(run[p], run'[p])
  BY <1>1, <1>3, GotoMoves
<1>7. EvidenceOf(run'[p], store', served)
  BY <1>6 DEF EvidenceOf, FetchPlaces
<1>8. FrozenOf(run'[p], store')
  BY <1>1, <1>2, <1>3, <1>5, <1>6 DEF FrozenOf, SameButPlace, Reported
<1>9. "reread" \in FetchPlaces \cup EndPlaces /\ "reread" \notin FetchPlaces
      /\ "reread" \in EndPlaces /\ run[p].at \notin FetchPlaces /\ run[p].at \in EndPlaces
  BY <1>1 DEF FetchPlaces, EndPlaces
<1> HIDE DEF id
<1> QED BY <1>1, <1>4, <1>6, <1>7, <1>8, <1>9, MoveKeeps

\* Writing the manifest preserves KeptInv.
LEMMA WriteManifestKeeps == ASSUME KeptInv, NEW p \in Processes, WriteManifest(p) PROVE KeptInv'
<1> DEFINE id == <<"manifest", run[p].campaign>>
<1>1. run[p].at = "verify" /\ Running(p) /\ UNCHANGED <<served, started>>
      /\ Writable(id, Manifest(p)) /\ Stored(id, Manifest(p)) /\ Goto(p, "published")
  BY PlacedIsRunning DEF WriteManifest, ManifestId, Identity
<1>2. CampaignTyped(run[p]) /\ CampaignsTyped /\ FrozenOf(run[p], store)
  BY <1>1, CampaignAt
<1>3. id[1] = "manifest"
  OBVIOUS
<1> HIDE DEF id
<1>4. run' = [run EXCEPT ![p] = run'[p]] /\ run'[p].at = "published" /\ SameButPlace(run[p], run'[p])
  BY <1>1, <1>2, GotoMoves
<1>5. \A x \in DOMAIN store : x \in DOMAIN store' /\ store'[x] = store[x]
  BY <1>1, StoreGrows
<1>6. EvidenceOf(run'[p], store', served)
  BY <1>4 DEF EvidenceOf, FetchPlaces
<1>7. FrozenOf(run'[p], store')
  BY <1>1, <1>2, <1>4, <1>5 DEF FrozenOf, SameButPlace, Reported
<1>8. "published" \in FetchPlaces \cup EndPlaces /\ "published" \notin FetchPlaces
      /\ "published" \in EndPlaces /\ run[p].at \notin FetchPlaces /\ run[p].at \in EndPlaces
  BY <1>1 DEF FetchPlaces, EndPlaces
<1> QED BY <1>1, <1>3, <1>4, <1>6, <1>7, <1>8, MoveKeeps

\* The report is read back, and what the manifest binds is read.
Reads(p) == VerifyNext(p) \/ (ReadReport(p) /\ Admitted(store[ReportId(p)].selected))

\* Reading moves the campaign to the next thing to verify.
LEMMA ReadsMove ==
    ASSUME KeptInv, NEW p \in Processes, Reads(p)
    PROVE  /\ Running(p) /\ run' = [run EXCEPT ![p] = run'[p]]
           /\ run[p].at \in {"reread", "verify"} /\ run'[p].at = "verify"
           /\ SameButPlace(run[p], run'[p]) /\ UNCHANGED <<store, damaged, served, outcomes, started>>
           /\ IF run[p].at = "reread"
              THEN run'[p].verified = 0 /\ run'[p].spoiltAtEnd = damaged
              ELSE run'[p].verified = run[p].verified + 1 /\ run'[p].spoiltAtEnd = run[p].spoiltAtEnd
<1>1. Running(p) /\ run[p].at \in {"reread", "verify"}
      /\ UNCHANGED <<store, damaged, served, outcomes, started>>
  BY PlacedIsRunning DEF Reads, VerifyNext, ReadReport
<1>2. DOMAIN run = Processes /\ DOMAIN run[p] = Fields
  BY <1>1, CampaignAt DEF CampaignTyped
<1>3. CASE VerifyNext(p)
  <2>1. run[p].at = "verify" /\ run' = [run EXCEPT ![p].verified = @ + 1]
    BY <1>3 DEF VerifyNext
  <2>2. run'[p] = [run[p] EXCEPT !.verified = run[p].verified + 1]
        /\ run' = [run EXCEPT ![p] = run'[p]]
    BY <1>2, <2>1
  <2> QED BY <1>1, <1>2, <2>1, <2>2 DEF SameButPlace, Fields
<1>4. CASE ReadReport(p) /\ Admitted(store[ReportId(p)].selected)
  <2>1. run[p].at = "reread"
        /\ run' = [run EXCEPT ![p].at = "verify", ![p].verified = 0, ![p].spoiltAtEnd = damaged]
    BY <1>4 DEF ReadReport
  <2>2. run'[p] = [run[p] EXCEPT !.at = "verify", !.verified = 0, !.spoiltAtEnd = damaged]
        /\ run' = [run EXCEPT ![p] = run'[p]]
    BY <1>2, <2>1
  <2> QED BY <1>1, <1>2, <2>1, <2>2 DEF SameButPlace, Fields
<1> QED BY <1>3, <1>4 DEF Reads

\* Reading preserves KeptInv.
LEMMA ReadsKeep == ASSUME KeptInv, NEW p \in Processes, Reads(p) PROVE KeptInv'
<1>1. UNCHANGED <<store, served, started>>
  BY ReadsMove
<1>2. IsSequence(served) /\ Len(served) \in Nat
  BY SequenceTyped DEF KeptInv, FetchesBounded
<1>3. Careful(p)
  BY <1>1, <1>2, ReadsMove DEF Careful
<1>4. FrozenOf(run[p], store)
  BY ReadsMove, CampaignAt
<1>5. EvidenceOf(run'[p], store', served) /\ FrozenOf(run'[p], store')
  BY <1>1, <1>4, ReadsMove DEF EvidenceOf, FrozenOf, SameButPlace, FetchPlaces, Reported
<1>6. /\ run'[p].at \notin FetchPlaces /\ run[p].at \notin FetchPlaces
      /\ run'[p].at \in EndPlaces /\ run[p].at \in EndPlaces
  BY ReadsMove DEF FetchPlaces, EndPlaces
<1> QED BY <1>1, <1>3, <1>5, <1>6, ReadsMove, MovedKeeps

\* A campaign that read its report or its manifest back returns.
Returns(p) == ReadManifest(p) \/ (ReadReport(p) /\ ~Admitted(store[ReportId(p)].selected))

\* A campaign that returns writes nothing.
LEMMA ReturnMoves ==
    ASSUME NEW p \in Processes, Returns(p)
    PROVE  /\ Running(p) /\ run[p].at \in {"reread", "published"} /\ Return(p)
           /\ UNCHANGED <<store, damaged, version, served, started>>
BY PlacedIsRunning DEF Returns, ReadManifest, ReadReport

\* Returning preserves KeptInv.
LEMMA ReturnsKeep == ASSUME KeptInv, NEW p \in Processes, Returns(p) PROVE KeptInv'
<1>1. Running(p) /\ run' = [run EXCEPT ![p] = Idle] /\ UNCHANGED <<store, served, started>>
  BY ReturnMoves DEF Return
<1>2. DOMAIN run = Processes /\ IsSequence(served) /\ Len(served) \in Nat
  BY <1>1, CampaignAt, SequenceTyped DEF KeptInv, FetchesBounded
<1>3. Careful(p)
  BY <1>1, <1>2 DEF Careful
<1> QED BY <1>1, <1>3, EndKeeps

\* The campaign settles a symbol.
LEMMA SettleKeeps ==
    ASSUME KeptInv, NEW p \in Processes, Running(p), run[p].at \in FetchPlaces \cup {"lookup"},
           NEW candidate, Settle(p, candidate), VerdictOf(run[p].version, candidate),
           Careful(p), UNCHANGED <<served, started>>,
           \A x \in DOMAIN store' \ DOMAIN store :
               x[1] = "candidate" => RecordOf(x, store', served')
    PROVE  KeptInv'
<1> DEFINE c == run[p]
           d == run'[p]
<1>1. /\ CampaignTyped(c) /\ FetchedOf(c) \in Nat /\ CampaignsTyped /\ c.at \notin EndPlaces
  BY CampaignAt DEF FetchPlaces, EndPlaces
<1>2. run' = [run EXCEPT ![p] = d] /\ SettledWith(c, d, candidate)
  BY <1>1, SettleMoves
<1>3. /\ CampaignTyped(d) /\ d.at \in {"lookup", "freeze"}
      /\ Len(d.found) = Len(c.found) + 1 /\ Len(c.found) \in Nat
  BY <1>1, <1>2, SettleTyped
<1>4. FetchedOf(d) \in Nat /\ FetchedOf(d) >= FetchedOf(c)
  <2>1. d.at \notin FetchPlaces
    BY <1>3 DEF FetchPlaces
  <2> DEFINE n == Len(c.found)
             k == IF c.at \in FetchPlaces THEN 1 ELSE 0
  <2>2. n \in Nat /\ k \in {0, 1} /\ Len(d.found) = n + 1
    BY <1>3
  <2>3. FetchedOf(c) = n + k
    BY DEF FetchedOf
  <2>4. FetchedOf(d) = Len(d.found) + 0
    BY <2>1 DEF FetchedOf
  <2> HIDE DEF n, k, c, d
  <2> QED BY <2>2, <2>3, <2>4
<1>5. EvidenceOf(d, store', served') /\ FrozenOf(d, store') /\ OwnMoment(p)
  BY <1>3 DEF EvidenceOf, FrozenOf, OwnMoment, FetchPlaces, Reported
<1>6. CampaignsTyped' /\ EvidenceHeld' /\ FrozenHeld' /\ MomentsDiffer' /\ RecordsHeld'
  BY <1>3, <1>5, CarefulKeeps
<1>7. FetchesBounded'
  <2>1. Running(p)' => Running(p) /\ FetchedOf(run'[p]) >= FetchedOf(run[p])
                       /\ FetchedOf(run[p]) \in Nat /\ FetchedOf(run'[p]) \in Nat
    BY <1>1, <1>4
  <2>2. \A x \in Processes \X DOMAIN Pool : x \in ToFetch' => x \in ToFetch
    BY <1>2, <2>1, LessFetched
  <2>3. FetchesBounded /\ IsSequence(served') /\ Len(served') = Len(served)
    BY DEF KeptInv, FetchesBounded
  <2> QED BY <2>2, <2>3, ToFetchShrinks
<1> QED BY <1>6, <1>7 DEF KeptInv

\* A record that a campaign finds is a verdict of its version.
LEMMA ReusedVerdict ==
    ASSUME KeptInv, NEW p \in Processes, NEW r \in Matching(p)
    PROVE  VerdictOf(run[p].version, store[r])
<1>1. r \in Records /\ store[r].version = run[p].version
  BY DEF Matching
<1>2. store[r].raw = <<"raw", r[2]>>
  BY <1>1 DEF KeptInv, RecordsHeld, RecordOf
<1>3. <<"raw", r[2]>>[1] = "raw" /\ <<"raw", r[2]>> # <<"none", 0>>
  OBVIOUS
<1> QED BY <1>1, <1>2, <1>3 DEF VerdictOf, NoArtifact, Identity

\* Reusing a recorded verdict preserves KeptInv.
LEMMA ReuseKeeps == ASSUME KeptInv, NEW p \in Processes, Reuse(p) PROVE KeptInv'
<1>1. run[p].at = "lookup" /\ Running(p) /\ UNCHANGED <<store, served, started>>
      /\ Matching(p) # {} /\ Settle(p, store[FirstMatch(p)])
  BY PlacedIsRunning DEF Reuse
<1>2. VerdictOf(run[p].version, store[FirstMatch(p)])
  BY <1>1, FirstMatchIsFirst, ReusedVerdict
<1>3. CampaignsTyped /\ CampaignTyped(run[p]) /\ IsSequence(served) /\ Len(served) \in Nat
  BY <1>1, CampaignAt, SequenceTyped DEF KeptInv, FetchesBounded
<1>4. run' = [run EXCEPT ![p] = run'[p]]
  BY <1>1, <1>3, SettleMoves
<1>5. Careful(p)
  BY <1>1, <1>3, <1>4 DEF Careful
<1> QED BY <1>1, <1>2, <1>5, SettleKeeps

\* Recording a verdict preserves KeptInv.
LEMMA WriteRecordKeeps == ASSUME KeptInv, NEW p \in Processes, WriteRecord(p) PROVE KeptInv'
<1> DEFINE m == run[p].moment
           id == <<"candidate", m>>
           c == Candidate(p)
<1>1. run[p].at = "record" /\ Running(p) /\ UNCHANGED <<served, started>>
      /\ Writable(id, c) /\ Stored(id, c) /\ Settle(p, c)
  BY PlacedIsRunning DEF WriteRecord, Own, Identity
<1>2. /\ c.version = run[p].version /\ c.raw = <<"raw", m>>
      /\ c.status = "FAIL" => Faults(run[p]) # {} /\ c.quarantine = <<"quarantine", m>>
  BY JudgedByFaults DEF Candidate, Own, Identity
<1> HIDE DEF c
<1>3. CampaignTyped(run[p]) /\ EvidenceOf(run[p], store, served) /\ CampaignsTyped
  BY <1>1, CampaignAt
<1>4. VerdictOf(run[p].version, c)
  <2>1. <<"raw", m>>[1] = "raw" /\ <<"raw", m>> # <<"none", 0>>
    OBVIOUS
  <2> QED BY <1>2, <2>1 DEF VerdictOf, NoArtifact, Identity
<1>5. run' = [run EXCEPT ![p] = run'[p]]
  BY <1>1, <1>3, SettleMoves
<1>6. id[1] = "candidate" /\ id[2] = m
  OBVIOUS
<1>7. /\ m \in 1..Len(served) /\ ToSet(run[p].fetch.pages) = served[m]
      /\ <<"raw", m>> \in DOMAIN store /\ store[<<"raw", m>>].pages = run[p].fetch.pages
      /\ Faults(run[p]) # {} => <<"quarantine", m>> \in DOMAIN store
  BY <1>1, <1>3 DEF EvidenceOf, FetchPlaces
<1> HIDE DEF id
<1>8. /\ Careful(p) /\ id \in DOMAIN store' /\ store'[id] = c
      /\ DOMAIN store' \ DOMAIN store \subseteq {id}
      /\ \A x \in DOMAIN store : x \in DOMAIN store' /\ store'[x] = store[x]
  BY <1>1, <1>5, <1>6, WriteIsCareful
<1>9. RecordOf(id, store', served')
  BY <1>1, <1>2, <1>6, <1>7, <1>8 DEF RecordOf, id
<1>10. \A x \in DOMAIN store' \ DOMAIN store : x[1] = "candidate" => RecordOf(x, store', served')
  BY <1>8, <1>9
<1> QED BY <1>1, <1>4, <1>8, <1>10, SettleKeeps DEF FetchPlaces

\* A fetch begins, at a moment after all others.
LEMMA StartFetchKeeps == ASSUME KeptInv, NEW p \in Processes, StartFetch(p) PROVE KeptInv'
<1> DEFINE n == Len(served) + 1
           i == Len(run[p].found) + 1
           d == run'[p]
<1>1. run[p].at = "lookup" /\ Running(p) /\ UNCHANGED <<store, started>>
      /\ served' = Append(served, {})
      /\ run' = [run EXCEPT ![p].at = "fetch", ![p].moment = n,
                            ![p].fetch = NewFetch(Symbol(p)), ![p].calendar = NoCalendar]
  BY PlacedIsRunning DEF StartFetch
<1>2. CampaignTyped(run[p]) /\ DOMAIN run = Processes /\ DOMAIN run[p] = Fields
      /\ Len(run[p].found) \in Nat
  BY <1>1, CampaignAt DEF CampaignTyped
<1>3. /\ IsSequence(served) /\ Len(served) \in Nat /\ IsSequence(served')
      /\ Len(served') = n /\ served'[n] = {} /\ \A k \in 1..Len(served) : served'[k] = served[k]
  BY <1>1, AppendSequence DEF KeptInv, FetchesBounded
<1>4. d = [run[p] EXCEPT !.at = "fetch", !.moment = n,
                         !.fetch = NewFetch(Symbol(p)), !.calendar = NoCalendar]
      /\ run' = [run EXCEPT ![p] = d]
  BY <1>1, <1>2
<1>5. /\ DOMAIN d = Fields /\ d.at = "fetch" /\ d.moment = n /\ d.fetch = NewFetch(Symbol(p))
      /\ d.campaign = run[p].campaign /\ d.version = run[p].version /\ d.found = run[p].found
      /\ d.alone = run[p].alone /\ d.before = run[p].before
  BY <1>2, <1>4 DEF Fields
<1> HIDE DEF d
<1>6. DOMAIN NewFetch(Symbol(p)) = FetchFields /\ NewFetch(Symbol(p)).pages = <<>>
  BY DEF NewFetch, FetchFields
<1>7. CampaignTyped(d)
  BY <1>1, <1>2, <1>5, <1>6, EmptySequence DEF CampaignTyped, FetchPlaces, EndPlaces
<1>8. <<"raw", n>> \notin DOMAIN store
  <2> SUFFICES ASSUME <<"raw", n>> \in DOMAIN store PROVE FALSE
    OBVIOUS
  <2>1. <<"raw", n>>[1] = "raw" /\ <<"raw", n>>[2] = n
    OBVIOUS
  <2>2. n \in 1..Len(served)
    BY <2>1 DEF KeptInv, RecordsHeld
  <2> QED BY <1>3, <2>2
<1>9. EvidenceOf(d, store', served') /\ FrozenOf(d, store')
  <2>1. n \in 1..Len(served')
    BY <1>3
  <2> QED BY <1>1, <1>3, <1>5, <1>6, <1>8, <2>1, EmptySequence DEF EvidenceOf, FrozenOf, FetchPlaces, Reported
<1>10. Careful(p) /\ OwnMoment(p)
  BY <1>1, <1>3, <1>4, <1>5 DEF Careful, OwnMoment, d
<1>11. CampaignsTyped' /\ EvidenceHeld' /\ FrozenHeld' /\ MomentsDiffer' /\ RecordsHeld'
  BY <1>1, <1>7, <1>9, <1>10, CarefulKeeps DEF d
<1>12. FetchesBounded'
  <2> DEFINE after == ToFetch'
  <2>1. FetchedOf(run[p]) = Len(run[p].found) /\ FetchedOf(d) = i /\ i \in DOMAIN Pool
    <3>1. i \in 1..Len(Pool)
      BY <1>1, <1>2, PoolLength DEF CampaignTyped, EndPlaces
    <3>2. FetchedOf(d) = i
      BY <1>5 DEF FetchedOf, FetchPlaces
    <3>3. FetchedOf(run[p]) = Len(run[p].found) + 0
      BY <1>1 DEF FetchedOf, FetchPlaces
    <3> QED BY <1>2, <3>1, <3>2, <3>3, PoolLength
  <2>2. <<p, i>> \in ToFetch
    BY <1>1, <1>2, <2>1 DEF ToFetch
  <2>3. \A q \in Processes, k \in DOMAIN Pool : <<q, k>> \in after => <<q, k>> \in ToFetch \ {<<p, i>>}
    <3> SUFFICES ASSUME NEW q \in Processes, NEW k \in DOMAIN Pool, <<q, k>> \in after
                 PROVE  <<q, k>> \in ToFetch \ {<<p, i>>}
      OBVIOUS
    <3>1. run'[q] # Idle /\ k > FetchedOf(run'[q])
      BY DEF ToFetch, Running, FetchedOf
    <3>2. CASE q = p
      <4>1. k > i /\ k \in Nat /\ i \in Nat
        BY <1>2, <2>1, <3>1, <3>2, PoolLength DEF d
      <4>2. k > FetchedOf(run[p]) /\ k # i
        BY <1>2, <2>1, <4>1
      <4> QED BY <1>1, <3>2, <4>2 DEF ToFetch
    <3>3. CASE q # p
      BY <1>2, <1>4, <3>1, <3>3 DEF ToFetch, Running
    <3> QED BY <3>2, <3>3
  <2>4. after \in SUBSET (ToFetch \ {<<p, i>>})
    <3>1. after \subseteq Processes \X DOMAIN Pool
      BY DEF ToFetch
    <3> HIDE DEF after
    <3> QED BY <2>3, <3>1
  <2> HIDE DEF after
  <2>5. /\ Cardinality(after) \in Nat /\ Cardinality(ToFetch) \in Nat
        /\ Cardinality(after) <= Cardinality(ToFetch) - 1
    <3>1. IsFiniteSet(ToFetch) /\ Cardinality(ToFetch) \in Nat
      BY ToFetchFinite
    <3>2. IsFiniteSet(ToFetch \ {<<p, i>>})
          /\ Cardinality(ToFetch \ {<<p, i>>}) = Cardinality(ToFetch) - 1
      BY <2>2, <3>1, FS_RemoveElement
    <3>3. IsFiniteSet(after) /\ Cardinality(after) <= Cardinality(ToFetch) - 1
      BY <2>4, <3>2, FS_Subset
    <3> QED BY <3>1, <3>3, FS_CardinalityType
  <2>6. Len(served') + Cardinality(after) <= started * Len(Pool)
    <3> DEFINE bound == started * Len(Pool)
    <3>1. bound \in Nat /\ Len(served) + Cardinality(ToFetch) <= bound
      BY PoolLength, UniverseCampaignAssumption DEF KeptInv, FetchesBounded
    <3> HIDE DEF bound
    <3>2. Len(served') + Cardinality(after) <= bound
      BY <1>3, <2>5, <3>1
    <3> QED BY <3>2 DEF bound
  <2> QED BY <1>1, <1>3, <2>6 DEF KeptInv, FetchesBounded, after
<1> QED BY <1>11, <1>12 DEF KeptInv

\* A page is kept before its next key is looked at.
LEMMA ReceivedKept ==
    ASSUME NEW fetch, NEW answer, DOMAIN fetch = FetchFields, IsSequence(fetch.pages)
    PROVE  /\ DOMAIN Received(fetch, answer) = FetchFields
           /\ IsSequence(Received(fetch, answer).pages)
           /\ ToSet(Received(fetch, answer).pages) =
                  IF answer = Refused THEN ToSet(fetch.pages) ELSE ToSet(fetch.pages) \cup {answer}
<1>1. CASE answer = Refused
  <2>1. Received(fetch, answer) = [fetch EXCEPT !.end = "error"]
    BY <1>1 DEF Received
  <2>2. Received(fetch, answer).pages = fetch.pages
    BY <2>1 DEF FetchFields
  <2> QED BY <1>1, <2>1, <2>2
<1>2. CASE answer # Refused
  <2>1. PICK end : Received(fetch, answer) = [fetch EXCEPT !.pages = Append(fetch.pages, answer),
                                                            !.key = answer.next, !.end = end]
    BY <1>2 DEF Received
  <2>2. /\ Received(fetch, answer).pages = Append(fetch.pages, answer)
        /\ DOMAIN Received(fetch, answer) = FetchFields
    BY <2>1 DEF FetchFields
  <2> QED BY <1>2, <2>2, AppendSequence
<1> QED BY <1>1, <1>2

\* Asking the service for a page preserves KeptInv.
LEMMA AskKeeps == ASSUME KeptInv, NEW p \in Processes, Ask(p) PROVE KeptInv'
<1> DEFINE c == run[p]
           d == run'[p]
           m == run[p].moment
<1>1. run[p].at = "fetch" /\ Running(p) /\ UNCHANGED <<store, started>>
  BY PlacedIsRunning DEF Ask
<1>2. PICK answer :
          /\ run' = [run EXCEPT ![p].fetch = Received(@, answer)]
          /\ served' = IF answer = Refused THEN served ELSE [served EXCEPT ![m] = @ \cup {answer}]
  BY DEF Ask
<1>3. CampaignTyped(c) /\ EvidenceOf(c, store, served) /\ DOMAIN run = Processes
      /\ DOMAIN c = Fields /\ FetchedOf(c) \in Nat
  BY <1>1, CampaignAt DEF CampaignTyped
<1>4. /\ IsSequence(served) /\ Len(served) \in Nat /\ DOMAIN served = 1..Len(served)
      /\ m \in DOMAIN served /\ ToSet(c.fetch.pages) = served[m]
      /\ <<"raw", m>> \notin DOMAIN store
  BY <1>1, <1>3, SequenceTyped DEF KeptInv, FetchesBounded, EvidenceOf, FetchPlaces
<1>5. /\ IsSequence(served') /\ Len(served') = Len(served)
      /\ served'[m] = IF answer = Refused THEN served[m] ELSE served[m] \cup {answer}
      /\ \A k \in 1..Len(served) : k # m => served'[k] = served[k]
  <2>1. CASE answer = Refused
    BY <1>2, <1>4, <2>1
  <2>2. CASE answer # Refused
    <3>1. served' = [k \in DOMAIN served |-> IF k = m THEN served[m] \cup {answer} ELSE served[k]]
      BY <1>2, <1>4, <2>2
    <3>2. DOMAIN served' = DOMAIN served /\ served' = [k \in DOMAIN served' |-> served'[k]]
      BY <3>1
    <3>3. IsSequence(served') /\ Len(served') = Len(served)
      BY <1>4, <3>2, ChangedSequence
    <3> QED BY <1>4, <2>2, <3>1, <3>3
  <2> QED BY <2>1, <2>2
<1>6. d = [c EXCEPT !.fetch = Received(c.fetch, answer)] /\ run' = [run EXCEPT ![p] = d]
  BY <1>2, <1>3
<1>7. /\ DOMAIN d = Fields /\ d.at = c.at /\ d.moment = m /\ d.fetch = Received(c.fetch, answer)
      /\ d.campaign = c.campaign /\ d.version = c.version /\ d.found = c.found
      /\ d.alone = c.alone /\ d.before = c.before
  BY <1>3, <1>6 DEF Fields
<1>8. /\ DOMAIN d.fetch = FetchFields /\ IsSequence(d.fetch.pages)
      /\ ToSet(d.fetch.pages) =
             IF answer = Refused THEN ToSet(c.fetch.pages) ELSE ToSet(c.fetch.pages) \cup {answer}
  <2>1. DOMAIN c.fetch = FetchFields /\ IsSequence(c.fetch.pages)
    BY <1>3 DEF CampaignTyped
  <2> HIDE DEF c, d
  <2>2. /\ DOMAIN Received(c.fetch, answer) = FetchFields
        /\ IsSequence(Received(c.fetch, answer).pages)
        /\ ToSet(Received(c.fetch, answer).pages) =
               IF answer = Refused THEN ToSet(c.fetch.pages) ELSE ToSet(c.fetch.pages) \cup {answer}
    BY <2>1, ReceivedKept
  <2>3. d.fetch = Received(c.fetch, answer)
    BY <1>7
  <2> QED BY <2>2, <2>3
<1> HIDE DEF c, d, m
<1>9. CampaignTyped(d)
  BY <1>3, <1>7, <1>8 DEF CampaignTyped
<1>10. EvidenceOf(d, store', served') /\ FrozenOf(d, store')
  <2>1. ToSet(d.fetch.pages) = served'[m] /\ m \in 1..Len(served')
    BY <1>4, <1>5, <1>8
  <2>2. d.at = "fetch"
    BY <1>1, <1>7 DEF c
  <2> QED BY <1>1, <1>4, <1>7, <2>1, <2>2 DEF EvidenceOf, FrozenOf, Reported
<1>11. Careful(p) /\ OwnMoment(p)
  BY <1>1, <1>4, <1>5, <1>6, <1>7 DEF Careful, OwnMoment, c, d, m
<1>12. CampaignsTyped' /\ EvidenceHeld' /\ FrozenHeld' /\ MomentsDiffer' /\ RecordsHeld'
  BY <1>1, <1>9, <1>10, <1>11, CarefulKeeps DEF d
<1>13. FetchesBounded'
  <2>1. FetchedOf(d) = FetchedOf(c)
    BY <1>7 DEF FetchedOf
  <2>2. Running(p)' => Running(p) /\ FetchedOf(run'[p]) >= FetchedOf(run[p])
                       /\ FetchedOf(run[p]) \in Nat /\ FetchedOf(run'[p]) \in Nat
    BY <1>1, <1>3, <2>1 DEF c, d
  <2>3. \A x \in Processes \X DOMAIN Pool : x \in ToFetch' => x \in ToFetch
    BY <1>6, <2>2, LessFetched DEF d
  <2> QED BY <1>1, <1>5, <2>3, ToFetchShrinks DEF KeptInv
<1> QED BY <1>12, <1>13 DEF KeptInv

\* Another campaign starts: those that run are no longer alone.
LEMMA StartMoves ==
    ASSUME KeptInv, NEW p \in Processes, Start(p)
    PROVE  /\ run[p] = Idle /\ DOMAIN run' = Processes /\ DOMAIN run = Processes
           /\ CampaignTyped(run'[p]) /\ run'[p].at = "lookup" /\ run'[p].found = <<>>
           /\ run'[p].campaign = started + 1 /\ run'[p].before = Returned
           /\ run'[p].spoiltAtStart = damaged
           /\ run'[p].alone => \A q \in Processes : ~Running(q)
           /\ \A q \in Processes : q # p /\ ~Running(q) => run'[q] = run[q]
           /\ \A q \in Processes : q # p /\ Running(q) =>
                 /\ CampaignTyped(run'[q]) /\ run'[q].alone = FALSE
                 /\ run'[q].at = run[q].at /\ run'[q].found = run[q].found
                 /\ run'[q].moment = run[q].moment /\ run'[q].fetch = run[q].fetch
                 /\ run'[q].version = run[q].version /\ run'[q].campaign = run[q].campaign
                 /\ run'[q].before = run[q].before /\ run'[q].verified = run[q].verified
                 /\ run'[q].spoiltAtStart = run[q].spoiltAtStart
                 /\ run'[q].spoiltAtEnd = run[q].spoiltAtEnd
<1> DEFINE others == {q \in Processes : Running(q)}
           new == [at |-> "lookup", campaign |-> started + 1, version |-> Versions[version'],
                   found |-> <<>>, moment |-> 0, fetch |-> NewFetch(Pool[1]),
                   calendar |-> NoCalendar, verified |-> 0, alone |-> others = {},
                   before |-> {o.campaign : o \in outcomes},
                   spoiltAtStart |-> damaged, spoiltAtEnd |-> {}]
<1>1. /\ run[p] = Idle
      /\ run' = [q \in Processes |-> IF q = p THEN new
                                     ELSE IF q \in others THEN [run[q] EXCEPT !.alone = FALSE]
                                     ELSE run[q]]
  BY DEF Start
<1>2. run'[p] = new /\ DOMAIN run' = Processes
  BY <1>1
<1>3. /\ DOMAIN new = Fields /\ new.at = "lookup" /\ new.campaign = started + 1
      /\ new.found = <<>> /\ new.fetch = NewFetch(Pool[1]) /\ new.alone = (others = {})
      /\ new.before = Returned /\ new.spoiltAtStart = damaged
  BY DEF Fields, Returned
<1> HIDE DEF new
<1>4. CampaignTyped(new)
  <2>1. started + 1 \in Nat
    BY UniverseCampaignAssumption DEF KeptInv, FetchesBounded
  <2>2. DOMAIN NewFetch(Pool[1]) = FetchFields /\ NewFetch(Pool[1]).pages = <<>>
    BY DEF NewFetch, FetchFields
  <2>3. DOMAIN <<>> = {}
    OBVIOUS
  <2>4. new.alone \in BOOLEAN
    BY <1>3
  <2> QED BY <1>3, <2>1, <2>2, <2>3, <2>4, EmptySequence, PoolLength
          DEF CampaignTyped, FetchPlaces, EndPlaces
<1>5. new.alone => \A q \in Processes : ~Running(q)
  BY <1>3
<1>6. ASSUME NEW q \in Processes, q # p, ~Running(q) PROVE run'[q] = run[q]
  BY <1>1, <1>6
<1>7. ASSUME NEW q \in Processes, q # p, Running(q)
      PROVE  /\ CampaignTyped(run'[q]) /\ run'[q].alone = FALSE
             /\ run'[q].at = run[q].at /\ run'[q].found = run[q].found
             /\ run'[q].moment = run[q].moment /\ run'[q].fetch = run[q].fetch
             /\ run'[q].version = run[q].version /\ run'[q].campaign = run[q].campaign
             /\ run'[q].before = run[q].before /\ run'[q].verified = run[q].verified
             /\ run'[q].spoiltAtStart = run[q].spoiltAtStart
             /\ run'[q].spoiltAtEnd = run[q].spoiltAtEnd
  <2>1. CampaignTyped(run[q]) /\ DOMAIN run[q] = Fields
    BY <1>7, CampaignAt DEF CampaignTyped
  <2>2. run'[q] = [run[q] EXCEPT !.alone = FALSE]
    BY <1>1, <1>7
  <2>3. /\ DOMAIN run'[q] = Fields /\ run'[q].alone = FALSE
        /\ run'[q].at = run[q].at /\ run'[q].found = run[q].found
        /\ run'[q].moment = run[q].moment /\ run'[q].fetch = run[q].fetch
        /\ run'[q].version = run[q].version /\ run'[q].campaign = run[q].campaign
        /\ run'[q].before = run[q].before /\ run'[q].verified = run[q].verified
        /\ run'[q].spoiltAtStart = run[q].spoiltAtStart
        /\ run'[q].spoiltAtEnd = run[q].spoiltAtEnd
    BY <2>1, <2>2 DEF Fields
  <2> QED BY <2>1, <2>3 DEF CampaignTyped
<1>8. DOMAIN run = Processes
  BY DEF KeptInv, CampaignsTyped
<1> QED BY <1>1, <1>2, <1>3, <1>4, <1>5, <1>6, <1>7, <1>8

\* Starting a campaign preserves KeptInv.
LEMMA StartKeeps == ASSUME KeptInv, NEW p \in Processes, Start(p) PROVE KeptInv'
<1>1. UNCHANGED <<store, served>> /\ started < MaxCampaigns /\ started' = started + 1
  BY DEF Start
<1>2. \A q \in Processes : q # p => Running(q)' = Running(q)
  BY StartMoves, TypedRuns DEF Running
<1>3. CampaignsTyped'
  <2>1. \A q \in Processes : run'[q] = Idle \/ CampaignTyped(run'[q])
    BY StartMoves DEF Running
  <2> QED BY <2>1, StartMoves DEF CampaignsTyped
<1>4. ASSUME NEW q \in Processes, Running(q)'
      PROVE  EvidenceOf(run'[q], store', served') /\ FrozenOf(run'[q], store')
  <2>1. CASE q = p
    BY <2>1, StartMoves DEF EvidenceOf, FrozenOf, FetchPlaces, Reported
  <2>2. CASE q # p
    <3>1. Running(q) /\ EvidenceOf(run[q], store, served) /\ FrozenOf(run[q], store)
      BY <1>2, <1>4, <2>2, CampaignAt
    <3>2. /\ run'[q].at = run[q].at /\ run'[q].found = run[q].found
          /\ run'[q].moment = run[q].moment /\ run'[q].fetch = run[q].fetch
          /\ run'[q].version = run[q].version /\ run'[q].campaign = run[q].campaign
      BY <2>2, <3>1, StartMoves
    <3>3. Faults(run'[q]) = Faults(run[q])
      BY <3>2 DEF Faults
    <3> QED BY <1>1, <3>1, <3>2, <3>3 DEF EvidenceOf, FrozenOf
  <2> QED BY <2>1, <2>2
<1>5. EvidenceHeld' /\ FrozenHeld'
  BY <1>4 DEF EvidenceHeld, FrozenHeld
<1>6. MomentsDiffer'
  <2>1. \A q \in Processes : run'[q].at \in FetchPlaces =>
            q # p /\ run[q].at \in FetchPlaces /\ run'[q].moment = run[q].moment
    BY <1>2, StartMoves, IdlePlace DEF Running, FetchPlaces
  <2> QED BY <2>1 DEF KeptInv, MomentsDiffer
<1>7. RecordsHeld'
  BY <1>1 DEF KeptInv, RecordsHeld, RecordOf, Records
<1>8. FetchesBounded'
  <2> DEFINE after == ToFetch'
             news == {p} \X DOMAIN Pool
  <2>1. \A q \in Processes, k \in DOMAIN Pool : <<q, k>> \in after => <<q, k>> \in ToFetch \cup news
    <3> SUFFICES ASSUME NEW q \in Processes, NEW k \in DOMAIN Pool, <<q, k>> \in after, q # p
                 PROVE  <<q, k>> \in ToFetch
      OBVIOUS
    <3>1. Running(q)' /\ k > FetchedOf(run'[q])
      BY DEF ToFetch, Running, FetchedOf
    <3>2. Running(q) /\ FetchedOf(run'[q]) = FetchedOf(run[q])
      BY <1>2, <3>1, StartMoves DEF FetchedOf
    <3> QED BY <3>1, <3>2 DEF ToFetch
  <2>2. after \in SUBSET (ToFetch \cup news)
    <3>1. after \subseteq Processes \X DOMAIN Pool
      BY DEF ToFetch
    <3> HIDE DEF after, news
    <3> QED BY <2>1, <3>1
  <2>3. IsFiniteSet(news) /\ Cardinality(news) = Len(Pool)
    <3>1. IsFiniteSet({p}) /\ Cardinality({p}) = 1
      BY FS_Singleton
    <3>2. IsFiniteSet(DOMAIN Pool) /\ Cardinality(DOMAIN Pool) = Len(Pool)
      <4>1. 1 \in Int /\ Len(Pool) \in Int /\ Len(Pool) >= 1
        BY PoolLength
      <4>2. IsFiniteSet(1..Len(Pool)) /\ Cardinality(1..Len(Pool)) = Len(Pool)
        <5>1. IsFiniteSet(1..Len(Pool))
              /\ Cardinality(1..Len(Pool)) = IF 1 > Len(Pool) THEN 0 ELSE Len(Pool) - 1 + 1
          BY <4>1, FS_Interval
        <5> QED BY <4>1, <5>1
      <4> QED BY <4>2, PoolLength
    <3>3. Cardinality(news) = Cardinality({p}) * Cardinality(DOMAIN Pool) /\ IsFiniteSet(news)
      BY <3>1, <3>2, FS_Product
    <3> QED BY <3>1, <3>2, <3>3, PoolLength
  <2> HIDE DEF after, news
  <2>4. /\ Cardinality(after) \in Nat /\ Cardinality(ToFetch) \in Nat
        /\ Cardinality(after) <= Cardinality(ToFetch) + Len(Pool)
    <3>1. IsFiniteSet(ToFetch) /\ Cardinality(ToFetch) \in Nat
      BY ToFetchFinite
    <3>2. /\ IsFiniteSet(ToFetch \cup news) /\ Cardinality(ToFetch \cap news) \in Nat
          /\ Cardinality(ToFetch \cup news) =
                 Cardinality(ToFetch) + Cardinality(news) - Cardinality(ToFetch \cap news)
      <4>1. ToFetch \cap news \in SUBSET ToFetch
        OBVIOUS
      <4>2. IsFiniteSet(ToFetch \cap news)
        BY <3>1, <4>1, FS_Subset
      <4> QED BY <2>3, <3>1, <4>2, FS_Union, FS_CardinalityType
    <3>3. /\ IsFiniteSet(after) /\ Cardinality(after) <= Cardinality(ToFetch \cup news)
          /\ Cardinality(after) \in Nat /\ Cardinality(ToFetch \cup news) \in Nat
      BY <2>2, <3>2, FS_Subset, FS_CardinalityType
    <3> QED BY <2>3, <3>1, <3>2, <3>3, PoolLength
  <2>5. Len(served) + Cardinality(after) <= (started + 1) * Len(Pool)
    <3> DEFINE bound == started * Len(Pool)
    <3>1. bound \in Nat /\ Len(served) + Cardinality(ToFetch) <= bound
          /\ (started + 1) * Len(Pool) = bound + Len(Pool)
      BY PoolLength, UniverseCampaignAssumption DEF KeptInv, FetchesBounded
    <3>2. Len(served) \in Nat
      BY SequenceTyped DEF KeptInv, FetchesBounded
    <3> HIDE DEF bound
    <3> QED BY <2>4, <3>1, <3>2, PoolLength
  <2> QED BY <1>1, <2>5, UniverseCampaignAssumption DEF KeptInv, FetchesBounded, after
<1> QED BY <1>3, <1>5, <1>6, <1>7, <1>8 DEF KeptInv

\* Other variables do not matter to the invariant.
LEMMA NothingMoved == KeptInv /\ UNCHANGED <<store, run, served, started>> => KeptInv'
BY DEF KeptInv, CampaignsTyped, EvidenceHeld, FrozenHeld, MomentsDiffer, RecordsHeld, FetchesBounded,
       ToFetch, Running, Records

\* No file and no campaign at first.
LEMMA KeptInit == Init => KeptInv
<1> SUFFICES ASSUME Init PROVE KeptInv
  OBVIOUS
<1>1. DOMAIN store = {} /\ \A p \in Processes : run[p] = Idle /\ ~Running(p)
  BY DEF Init, Running
<1>2. ToFetch = {}
  BY <1>1 DEF ToFetch
<1>3. FetchesBounded
  <2>1. Cardinality(ToFetch) = 0 /\ Len(served) = 0 /\ IsSequence(served) /\ started = 0
    BY <1>2, FS_EmptySet, EmptySequence DEF Init
  <2>2. 0 * Len(Pool) = 0 /\ 0 \in 0..MaxCampaigns
    BY PoolLength, UniverseCampaignAssumption
  <2> QED BY <2>1, <2>2 DEF FetchesBounded
<1>4. DOMAIN run = Processes
  BY DEF Init
<1> QED BY <1>1, <1>3, <1>4, IdlePlace DEF KeptInv, CampaignsTyped, EvidenceHeld, FrozenHeld,
       MomentsDiffer, RecordsHeld, Records

\* Every step preserves the invariant.
LEMMA KeptNext == KeptInv /\ [Next]_vars => KeptInv'
<1> SUFFICES ASSUME KeptInv, [Next]_vars PROVE KeptInv'
  OBVIOUS
<1>1. ASSUME NEW p \in Processes, Step(p) PROVE KeptInv'
  BY <1>1, StopKeeps, ReuseKeeps, StartFetchKeeps, AskKeeps, WriteRawKeeps, WriteNormalizedKeeps,
     AskCalendarKeeps, WriteQuarantineKeeps, WriteRecordKeeps, FreezeKeeps, WriteReportKeeps,
     ReadsKeep, WriteManifestKeeps, ReturnsKeep DEF Step, Reads, Returns
<1>2. ASSUME NEW id, Damage(id) PROVE KeptInv'
  BY <1>2, NothingMoved DEF Damage
<1>3. CASE UNCHANGED vars
  BY <1>3, NothingMoved DEF vars
<1> QED BY <1>1, <1>2, <1>3, StartKeeps DEF Next

\* What a campaign has established is on disk, its records included, and a campaign
\* never fetches more symbols than its pool has (campaign.py, artifacts.py).
THEOREM KeptCorrect == Spec => []KeptInv
BY KeptInit, KeptNext, PTL DEF Spec

\* Every page the service answered a recorded fetch with is kept.
THEOREM EvidenceKept == Spec => []EvidenceIsKept
<1>1. KeptInv => EvidenceIsKept
  BY DEF KeptInv, RecordsHeld, RecordOf, Records, Of, EvidenceIsKept
<1> QED BY <1>1, KeptCorrect, PTL

-----------------------------------------------------------------------------
(* What can be rerun *)

\* Files added about other symbols or versions change no lookup.
LEMMA RecordedKept ==
    ASSUME NEW st, NEW after, NEW v, NEW s,
           \A x \in DOMAIN st : x \in DOMAIN after /\ after[x] = st[x],
           \A x \in DOMAIN after \ DOMAIN st :
               x[1] = "candidate" => after[x].symbol # s \/ after[x].version # v
    PROVE  /\ VerdictsFor(after, v, s) = VerdictsFor(st, v, s)
           /\ \A c : Recorded(st, v, s, c) => Recorded(after, v, s, c)
<1>1. VerdictsFor(after, v, s) = VerdictsFor(st, v, s)
  BY DEF VerdictsFor
<1>2. \A r \in VerdictsFor(st, v, s) : after[r] = st[r]
  BY DEF VerdictsFor
<1> QED BY <1>1, <1>2 DEF Recorded

\* A lookup has one result.
LEMMA RecordedOnce ==
    ASSUME KeptInv, NEW v, NEW s, NEW c, NEW d,
           Recorded(store, v, s, c), Recorded(store, v, s, d)
    PROVE  c = d
<1>1. PICK r \in VerdictsFor(store, v, s) :
          /\ \A x \in VerdictsFor(store, v, s) : DigestRank[r[2]] <= DigestRank[x[2]]
          /\ c = store[r]
  BY DEF Recorded
<1>2. PICK t \in VerdictsFor(store, v, s) :
          /\ \A x \in VerdictsFor(store, v, s) : DigestRank[t[2]] <= DigestRank[x[2]]
          /\ d = store[t]
  BY DEF Recorded
<1>3. r \in Records /\ t \in Records
  BY DEF VerdictsFor, Records
<1>4. DigestRank[r[2]] \in Nat /\ DigestRank[t[2]] \in Nat
  BY <1>3, RecordsRanked
<1>5. DigestRank[r[2]] = DigestRank[t[2]]
  BY <1>1, <1>2, <1>4
<1>6. r = t
  BY <1>3, <1>5, RecordsRanked
<1> QED BY <1>1, <1>2, <1>6

\* What a campaign looks up are the records of its version and symbol.
LEMMA MatchingVerdicts ==
    ASSUME KeptInv, NEW p \in Processes
    PROVE  /\ Matching(p) = VerdictsFor(store, run[p].version, Pool[Len(run[p].found) + 1])
           /\ Matching(p) # {} => Recorded(store, run[p].version, Pool[Len(run[p].found) + 1],
                                           store[FirstMatch(p)])
<1>1. Matching(p) = VerdictsFor(store, run[p].version, Pool[Len(run[p].found) + 1])
  BY DEF Matching, VerdictsFor, Records, Symbol
<1> QED BY <1>1, FirstMatchIsFirst DEF Recorded

\* No record is written; the campaign keeps its verdicts.
SameCampaign(c, d) ==
    /\ d.campaign = c.campaign /\ d.version = c.version /\ d.found = c.found
    /\ d.alone = c.alone /\ d.before = c.before

NoNewRecord ==
    /\ \A x \in DOMAIN store : x \in DOMAIN store' /\ store'[x] = store[x]
    /\ \A x \in DOMAIN store' \ DOMAIN store : x[1] # "candidate"

\* The invariants about each pair of an outcome and a running campaign.
PairOf(o, c) ==
    o.alone /\ c.version = o.version =>
        /\ c.at \notin FetchPlaces
        /\ o.campaign \in c.before => \A i \in DOMAIN c.found : c.found[i] = o.candidates[i]

\* NoRefetch and SameSoFar, pair by pair of an outcome and a running campaign.
LEMMA Pairs ==
    (NoRefetch /\ SameSoFar) <=> (\A o \in outcomes, p \in Processes : Running(p) => PairOf(o, run[p]))
BY DEF NoRefetch, SameSoFar, PairOf

\* A step that records nothing leaves every lookup as it was.
LEMMA RecordsStay ==
    ASSUME NoNewRecord
    PROVE  /\ \A v, s : VerdictsFor(store', v, s) = VerdictsFor(store, v, s)
           /\ \A v, s, c : Recorded(store, v, s, c) => Recorded(store', v, s, c)
           /\ \A o : ReturnedOf(o, store) => ReturnedOf(o, store')
           /\ \A c : AloneOf(c, store) => AloneOf(c, store')
<1>1. ASSUME NEW v, NEW s
      PROVE  /\ VerdictsFor(store', v, s) = VerdictsFor(store, v, s)
             /\ \A c : Recorded(store, v, s, c) => Recorded(store', v, s, c)
  BY RecordedKept DEF NoNewRecord
<1>2. ASSUME NEW o, ReturnedOf(o, store) PROVE ReturnedOf(o, store')
  BY <1>1, <1>2 DEF ReturnedOf
<1>3. ASSUME NEW c, AloneOf(c, store) PROVE AloneOf(c, store')
  BY <1>1, <1>3 DEF AloneOf
<1> QED BY <1>1, <1>2, <1>3

\* A step of one campaign that goes on.
LEMMA StepReruns ==
    ASSUME KeptInv, RerunInv, NEW p \in Processes, Running(p), Running(p)',
           run' = [run EXCEPT ![p] = run'[p]], UNCHANGED <<outcomes, started>>,
           run'[p].alone = run[p].alone, run'[p].campaign = run[p].campaign,
           run'[p].before = run[p].before,
           AloneOf(run'[p], store'),
           \A o \in outcomes : ReturnedOf(o, store') /\ PairOf(o, run'[p])
    PROVE  RerunInv'
<1>1. DOMAIN run = Processes
  BY CampaignAt
<1>2. \A q \in Processes : q # p => run'[q] = run[q] /\ Running(q)' = Running(q)
  BY <1>1 DEF Running
<1>3. OnlyOneAlone'
  BY <1>2 DEF RerunInv, OnlyOneAlone
<1>4. AloneHeld'
  <2>1. ASSUME NEW q \in Processes, q # p, Running(q) PROVE ~run[q].alone
    BY <2>1 DEF RerunInv, OnlyOneAlone
  <2>2. ASSUME NEW q \in Processes, q # p, Running(q)' PROVE AloneOf(run'[q], store')
    BY <1>2, <2>1, <2>2 DEF AloneOf
  <2> QED BY <2>2 DEF AloneHeld
<1>5. OutcomesHeld'
  BY DEF RerunInv, OutcomesHeld
<1>6. NoRefetch' /\ SameSoFar'
  <2>1. \A o \in outcomes, q \in Processes : Running(q)' => PairOf(o, run'[q])
    BY <1>2, Pairs DEF RerunInv
  <2> QED BY <2>1 DEF NoRefetch, SameSoFar, PairOf, Running
<1>7. CampaignsNumbered'
  BY <1>2 DEF RerunInv, CampaignsNumbered, Returned, Running
<1>8. RerunReproduces'
  BY DEF RerunInv, RerunReproduces
<1> QED BY <1>3, <1>4, <1>5, <1>6, <1>7, <1>8 DEF RerunInv

\* A step of one campaign that records and settles nothing preserves RerunInv.
LEMMA QuietReruns ==
    ASSUME KeptInv, RerunInv, NEW p \in Processes, Running(p), Running(p)',
           run' = [run EXCEPT ![p] = run'[p]], UNCHANGED <<outcomes, started>>,
           SameCampaign(run[p], run'[p]), NoNewRecord,
           run'[p].at \in FetchPlaces <=> run[p].at \in FetchPlaces
    PROVE  RerunInv'
<1>1. AloneOf(run[p], store) /\ \A o \in outcomes : ReturnedOf(o, store) /\ PairOf(o, run[p])
  BY Pairs DEF RerunInv, AloneHeld, OutcomesHeld
<1>2. AloneOf(run[p], store') /\ \A o \in outcomes : ReturnedOf(o, store')
  BY <1>1, RecordsStay
<1>3. AloneOf(run'[p], store')
  BY <1>2 DEF AloneOf, SameCampaign
<1>4. \A o \in outcomes : PairOf(o, run'[p])
  BY <1>1 DEF PairOf, SameCampaign
<1> QED BY <1>2, <1>3, <1>4, StepReruns DEF SameCampaign

\* Writing a file of another kind records nothing.
LEMMA WrittenFile ==
    ASSUME NEW id, NEW content, Writable(id, content), Stored(id, content), id[1] # "candidate"
    PROVE  NoNewRecord
<1>1. /\ DOMAIN store' = DOMAIN store \cup {id}
      /\ \A x \in DOMAIN store : store'[x] = store[x]
  BY StoreGrows
<1> QED BY <1>1 DEF NoNewRecord

\* Moving on with a write that records nothing preserves RerunInv.
LEMMA GotoReruns ==
    ASSUME KeptInv, RerunInv, NEW p \in Processes, Running(p), NEW at, Goto(p, at),
           UNCHANGED <<outcomes, started>>,
           NEW id, NEW content, Writable(id, content), Stored(id, content), id[1] # "candidate",
           at # "idle", at \in FetchPlaces <=> run[p].at \in FetchPlaces
    PROVE  RerunInv'
<1>1. CampaignTyped(run[p]) /\ CampaignsTyped
  BY CampaignAt
<1>2. run' = [run EXCEPT ![p] = run'[p]] /\ run'[p].at = at /\ SameButPlace(run[p], run'[p])
  BY <1>1, GotoMoves
<1>3. NoNewRecord
  BY WrittenFile
<1>4. Running(p)' /\ SameCampaign(run[p], run'[p])
  BY <1>2, IdlePlace DEF Running, SameCampaign, SameButPlace
<1> QED BY <1>2, <1>3, <1>4, QuietReruns

\* Only records are files of the kind of a record.
LEMMA KindsOfFiles ==
    /\ \A n : /\ Identity("raw", n)[1] # "candidate" /\ Identity("normalized", n)[1] # "candidate"
              /\ Identity("calendar", n)[1] # "candidate" /\ Identity("quarantine", n)[1] # "candidate"
              /\ Identity("snapshot", n)[1] # "candidate" /\ Identity("report", n)[1] # "candidate"
              /\ Identity("manifest", n)[1] # "candidate"
BY DEF Identity

\* Where a campaign can be after a verdict.
LEMMA AfterJudgementPlaces ==
    ASSUME NEW p \in Processes
    PROVE  AfterJudgement(p) \in {"calendar", "quarantine", "record"}
BY DEF AfterJudgement

\* Each of the writes preserves RerunInv.
LEMMA WritesRerun ==
    ASSUME KeptInv, RerunInv, NEW p \in Processes,
           WriteRaw(p) \/ WriteNormalized(p) \/ WriteQuarantine(p) \/ Freeze(p)
    PROVE  RerunInv'
<1>1. CASE WriteRaw(p)
  <2> DEFINE at == IF Success(run[p].fetch) THEN "normalize" ELSE AfterJudgement(p)
  <2>1. /\ run[p].at = "fetch" /\ UNCHANGED <<outcomes, started>> /\ Goto(p, at)
        /\ Writable(Own(p, "raw"), Raw(p)) /\ Stored(Own(p, "raw"), Raw(p))
    BY <1>1 DEF WriteRaw
  <2>2. at \in {"normalize", "calendar", "quarantine", "record"}
    BY AfterJudgementPlaces
  <2> HIDE DEF at
  <2>3. Running(p) /\ Own(p, "raw")[1] # "candidate" /\ at # "idle" /\ at \in FetchPlaces
        /\ run[p].at \in FetchPlaces
    BY <2>1, <2>2, PlacedIsRunning, KindsOfFiles DEF FetchPlaces, Own
  <2> QED BY <2>1, <2>3, GotoReruns
<1>2. CASE WriteNormalized(p)
  <2> DEFINE at == AfterJudgement(p)
  <2>1. /\ run[p].at = "normalize" /\ UNCHANGED <<outcomes, started>> /\ Goto(p, at)
        /\ Writable(Own(p, "normalized"), Normalized(p)) /\ Stored(Own(p, "normalized"), Normalized(p))
    BY <1>2 DEF WriteNormalized
  <2>2. at \in {"calendar", "quarantine", "record"}
    BY AfterJudgementPlaces
  <2> HIDE DEF at
  <2>3. Running(p) /\ Own(p, "normalized")[1] # "candidate" /\ at # "idle" /\ at \in FetchPlaces
        /\ run[p].at \in FetchPlaces
    BY <2>1, <2>2, PlacedIsRunning, KindsOfFiles DEF FetchPlaces, Own
  <2> QED BY <2>1, <2>3, GotoReruns
<1>3. CASE WriteQuarantine(p)
  <2> DEFINE bundle == [kind |-> "quarantine", symbol |-> Symbol(p), raw |-> Own(p, "raw"),
                        normalized |-> Dataset(p), issues |-> Judgement(p).issues,
                        missing |-> Judgement(p).missing, unexpected |-> Judgement(p).unexpected]
  <2>1. /\ run[p].at = "quarantine" /\ UNCHANGED <<outcomes, started>> /\ Goto(p, "record")
        /\ Writable(Own(p, "quarantine"), bundle) /\ Stored(Own(p, "quarantine"), bundle)
    BY <1>3 DEF WriteQuarantine
  <2> HIDE DEF bundle
  <2>2. Running(p) /\ Own(p, "quarantine")[1] # "candidate" /\ "record" # "idle"
        /\ "record" \in FetchPlaces /\ run[p].at \in FetchPlaces
    BY <2>1, PlacedIsRunning, KindsOfFiles DEF FetchPlaces, Own
  <2> QED BY <2>1, <2>2, GotoReruns
<1>4. CASE Freeze(p)
  <2>1. /\ run[p].at = "freeze" /\ UNCHANGED <<outcomes, started>> /\ Goto(p, "report")
        /\ Writable(SnapshotId(p), Snapshot(p)) /\ Stored(SnapshotId(p), Snapshot(p))
    BY <1>4 DEF Freeze
  <2>2. Running(p) /\ SnapshotId(p)[1] # "candidate" /\ "report" # "idle"
        /\ "report" \notin FetchPlaces /\ run[p].at \notin FetchPlaces
    BY <2>1, PlacedIsRunning, KindsOfFiles DEF FetchPlaces, SnapshotId
  <2> QED BY <2>1, <2>2, GotoReruns
<1> QED BY <1>1, <1>2, <1>3, <1>4

\* Asking the service for a page preserves RerunInv.
LEMMA AskReruns ==
    ASSUME KeptInv, RerunInv, NEW p \in Processes, Ask(p) \/ AskCalendar(p) PROVE RerunInv'
<1>1. run[p].at \in {"fetch", "calendar"} /\ Running(p) /\ UNCHANGED <<outcomes, started>>
  BY PlacedIsRunning DEF Ask, AskCalendar
<1>2. DOMAIN run = Processes /\ DOMAIN run[p] = Fields
  BY <1>1, CampaignAt DEF CampaignTyped
<1>3. PICK place, fetch, calendar :
          /\ place \in FetchPlaces
          /\ run' = [run EXCEPT ![p] = [run[p] EXCEPT !.at = place, !.fetch = fetch, !.calendar = calendar]]
  <2>1. CASE Ask(p)
    <3>1. PICK answer : run' = [run EXCEPT ![p].fetch = Received(@, answer)]
      BY <2>1 DEF Ask
    <3>2. run' = [run EXCEPT ![p] = [run[p] EXCEPT !.at = run[p].at,
                                                   !.fetch = Received(run[p].fetch, answer),
                                                   !.calendar = run[p].calendar]]
      BY <1>2, <3>1 DEF Fields
    <3>3. run[p].at \in FetchPlaces
      BY <2>1 DEF Ask, FetchPlaces
    <3> QED BY <3>2, <3>3
  <2>2. CASE AskCalendar(p)
    <3> DEFINE at == IF Judgement(p).status = "FAIL" THEN "quarantine" ELSE "record"
    <3>1. PICK answer : run' = [run EXCEPT ![p].calendar = answer, ![p].at = at]
      BY <2>2 DEF AskCalendar
    <3>2. at \in FetchPlaces
      BY DEF FetchPlaces
    <3> HIDE DEF at
    <3>3. run' = [run EXCEPT ![p] = [run[p] EXCEPT !.at = at, !.fetch = run[p].fetch,
                                                   !.calendar = answer]]
      BY <1>2, <3>1 DEF Fields
    <3> QED BY <3>2, <3>3
  <2> QED BY <2>1, <2>2
<1>4. /\ run'[p] = [run[p] EXCEPT !.at = place, !.fetch = fetch, !.calendar = calendar]
      /\ run' = [run EXCEPT ![p] = run'[p]]
  BY <1>2, <1>3
<1>5. run'[p].at = place /\ SameCampaign(run[p], run'[p])
  BY <1>2, <1>4 DEF Fields, SameCampaign
<1>6. Running(p)' /\ run'[p].at \in FetchPlaces /\ run[p].at \in FetchPlaces
  BY <1>1, <1>3, <1>5, IdlePlace DEF Running, FetchPlaces
<1>7. NoNewRecord
  <2>1. CASE Ask(p)
    BY <2>1 DEF Ask, NoNewRecord
  <2>2. CASE AskCalendar(p)
    <3>1. PICK answer : Writable(Own(p, "calendar"), answer) /\ Stored(Own(p, "calendar"), answer)
      BY <2>2 DEF AskCalendar
    <3>2. Own(p, "calendar")[1] # "candidate"
      BY KindsOfFiles DEF Own
    <3> QED BY <3>1, <3>2, WrittenFile
  <2> QED BY <2>1, <2>2
<1> QED BY <1>1, <1>4, <1>5, <1>6, <1>7, QuietReruns

\* A fetch begins only when no campaign that returned alone left a verdict.
LEMMA StartFetchReruns ==
    ASSUME KeptInv, RerunInv, NEW p \in Processes, StartFetch(p) PROVE RerunInv'
<1> DEFINE d == run'[p]
           i == Len(run[p].found) + 1
<1>1. run[p].at = "lookup" /\ Running(p) /\ UNCHANGED <<store, outcomes, started>> /\ Matching(p) = {}
  BY PlacedIsRunning DEF StartFetch
<1>2. /\ CampaignTyped(run[p]) /\ DOMAIN run = Processes /\ DOMAIN run[p] = Fields
      /\ Len(run[p].found) \in Nat
  BY <1>1, CampaignAt DEF CampaignTyped
<1>3. PICK moment, fetch :
          run' = [run EXCEPT ![p].at = "fetch", ![p].moment = moment, ![p].fetch = fetch,
                             ![p].calendar = NoCalendar]
  BY DEF StartFetch
<1>4. d = [run[p] EXCEPT !.at = "fetch", !.moment = moment, !.fetch = fetch, !.calendar = NoCalendar]
      /\ run' = [run EXCEPT ![p] = d]
  BY <1>2, <1>3
<1>5. d.at = "fetch" /\ SameCampaign(run[p], d)
  BY <1>2, <1>4 DEF Fields, SameCampaign
<1> HIDE DEF d
<1>6. Running(p)' /\ d.at \in FetchPlaces
  BY <1>5, IdlePlace DEF Running, FetchPlaces, d
<1>7. VerdictsFor(store, run[p].version, Pool[i]) = {}
  BY <1>1, MatchingVerdicts
<1>8. i \in 1..Len(Pool)
  BY <1>1, <1>2, PoolLength DEF CampaignTyped, EndPlaces
<1>9. \A o \in outcomes : o.alone => o.version # run[p].version
  <2> SUFFICES ASSUME NEW o \in outcomes, o.alone, o.version = run[p].version PROVE FALSE
    OBVIOUS
  <2>1. IsSequence(o.candidates) /\ Len(o.candidates) = Len(Pool) /\ ReturnedOf(o, store)
    BY DEF RerunInv, OutcomesHeld
  <2>2. DOMAIN o.candidates = 1..Len(Pool)
    BY <2>1, SequenceTyped
  <2>3. Recorded(store, o.version, Pool[i], o.candidates[i])
    BY <1>8, <2>1, <2>2 DEF ReturnedOf
  <2> QED BY <1>7, <2>3 DEF Recorded
<1>10. AloneOf(d, store')
  <2>1. AloneOf(run[p], store)
    BY <1>1 DEF RerunInv, AloneHeld
  <2> QED BY <1>1, <1>5, <1>7, <2>1 DEF AloneOf, SameCampaign
<1>11. \A o \in outcomes : ReturnedOf(o, store') /\ PairOf(o, d)
  <2>1. \A o \in outcomes : ReturnedOf(o, store)
    BY DEF RerunInv, OutcomesHeld
  <2> QED BY <1>1, <1>5, <1>9, <2>1 DEF PairOf, SameCampaign
<1> QED BY <1>1, <1>4, <1>5, <1>6, <1>10, <1>11, StepReruns DEF SameCampaign, d

\* What a settled symbol changes for the campaign's verdicts.
LEMMA SettledPairs ==
    ASSUME NEW c, NEW d, NEW candidate, CampaignTyped(c), c.at \notin EndPlaces,
           SettledWith(c, d, candidate), VerdictOf(c.version, candidate), NEW o,
           PairOf(o, c),
           o.alone /\ o.version = c.version /\ o.campaign \in c.before =>
               candidate = o.candidates[Len(c.found) + 1]
    PROVE  PairOf(o, d)
<1>1. /\ d.at \in {"lookup", "freeze"} /\ Len(c.found) \in Nat
      /\ DOMAIN d.found = 1..(Len(c.found) + 1) /\ DOMAIN c.found = 1..Len(c.found)
      /\ d.found[Len(c.found) + 1] = candidate
      /\ \A i \in DOMAIN c.found : d.found[i] = c.found[i]
  BY SettleTyped
<1>2. d.at \notin FetchPlaces
  BY <1>1 DEF FetchPlaces
<1>3. d.version = c.version /\ d.before = c.before
  BY DEF SettledWith
<1>4. ASSUME o.alone, o.version = c.version, o.campaign \in c.before, NEW i \in DOMAIN d.found
      PROVE  d.found[i] = o.candidates[i]
  <2>1. CASE i = Len(c.found) + 1
    BY <1>1, <1>4, <2>1
  <2>2. CASE i \in DOMAIN c.found
    BY <1>1, <1>4, <2>2 DEF PairOf
  <2> QED BY <1>1, <2>1, <2>2
<1> QED BY <1>2, <1>3, <1>4 DEF PairOf

\* A verdict that is a first record keeps what holds of a campaign that runs alone.
LEMMA SettledAlone ==
    ASSUME NEW c, NEW d, NEW candidate, CampaignTyped(c), c.at \notin EndPlaces,
           SettledWith(c, d, candidate), VerdictOf(c.version, candidate), NEW after,
           c.alone => /\ Recorded(after, c.version, Pool[Len(c.found) + 1], candidate)
                      /\ \A i \in DOMAIN c.found : Recorded(after, c.version, Pool[i], c.found[i])
    PROVE  AloneOf(d, after)
<1>1. /\ d.at \in {"lookup", "freeze"} /\ Len(c.found) \in Nat
      /\ DOMAIN d.found = 1..(Len(c.found) + 1) /\ DOMAIN c.found = 1..Len(c.found)
      /\ d.found[Len(c.found) + 1] = candidate
      /\ \A i \in DOMAIN c.found : d.found[i] = c.found[i]
  BY SettleTyped
<1>2. d.at \notin FetchPlaces
  BY <1>1 DEF FetchPlaces
<1>3. d.version = c.version /\ d.alone = c.alone
  BY DEF SettledWith
<1>4. ASSUME c.alone, NEW i \in DOMAIN d.found PROVE Recorded(after, c.version, Pool[i], d.found[i])
  <2>1. CASE i = Len(c.found) + 1
    BY <1>1, <1>4, <2>1
  <2>2. CASE i \in DOMAIN c.found
    BY <1>1, <1>4, <2>2
  <2> QED BY <1>1, <2>1, <2>2
<1> QED BY <1>2, <1>3, <1>4 DEF AloneOf

\* Reusing a recorded verdict preserves RerunInv.
LEMMA ReuseReruns ==
    ASSUME KeptInv, RerunInv, NEW p \in Processes, Reuse(p) PROVE RerunInv'
<1> DEFINE c == run[p]
           d == run'[p]
           i == Len(run[p].found) + 1
           candidate == store[FirstMatch(p)]
<1>1. c.at = "lookup" /\ Running(p) /\ UNCHANGED <<store, outcomes, started>>
      /\ Matching(p) # {} /\ Settle(p, candidate)
  BY PlacedIsRunning DEF Reuse
<1>2. CampaignTyped(c) /\ CampaignsTyped /\ c.at \notin EndPlaces /\ Len(c.found) \in Nat
  BY <1>1, CampaignAt DEF EndPlaces
<1>3. VerdictOf(c.version, candidate) /\ Recorded(store, c.version, Pool[i], candidate)
  BY <1>1, FirstMatchIsFirst, ReusedVerdict, MatchingVerdicts
<1> HIDE DEF candidate
<1>4. run' = [run EXCEPT ![p] = d] /\ SettledWith(c, d, candidate)
  BY <1>1, <1>2, SettleMoves
<1>5. CampaignTyped(d)
  BY <1>2, <1>3, <1>4, SettleTyped
<1>6. Running(p)'
  BY <1>5, TypedRuns DEF Running
<1>7. AloneOf(c, store) /\ \A o \in outcomes : ReturnedOf(o, store) /\ PairOf(o, c)
  BY <1>1, Pairs DEF RerunInv, AloneHeld, OutcomesHeld
<1>8. AloneOf(d, store)
  <2>1. c.alone => \A k \in DOMAIN c.found : Recorded(store, c.version, Pool[k], c.found[k])
    BY <1>7 DEF AloneOf
  <2>2. c.alone => Recorded(store, c.version, Pool[Len(c.found) + 1], candidate)
    BY <1>3
  <2> HIDE DEF c, d
  <2> QED BY <1>2, <1>3, <1>4, <2>1, <2>2, SettledAlone
<1>9. ASSUME NEW o \in outcomes PROVE PairOf(o, d)
  <2>1. ASSUME o.alone, o.version = c.version PROVE candidate = o.candidates[i]
    <3>1. IsSequence(o.candidates) /\ Len(o.candidates) = Len(Pool) /\ ReturnedOf(o, store)
      BY DEF RerunInv, OutcomesHeld
    <3>2. i \in 1..Len(Pool)
      BY <1>2, PoolLength DEF CampaignTyped
    <3>3. DOMAIN o.candidates = 1..Len(Pool)
      BY <3>1, SequenceTyped
    <3>4. Recorded(store, c.version, Pool[i], o.candidates[i])
      BY <2>1, <3>1, <3>2, <3>3 DEF ReturnedOf
    <3> QED BY <1>3, <3>4, RecordedOnce
  <2>2. o.alone /\ o.version = c.version /\ o.campaign \in c.before =>
            candidate = o.candidates[Len(c.found) + 1]
    BY <2>1
  <2>3. PairOf(o, c)
    BY <1>7
  <2> HIDE DEF c, d, i
  <2> QED BY <1>2, <1>3, <1>4, <2>2, <2>3, SettledPairs
<1>10. \A o \in outcomes : ReturnedOf(o, store') /\ PairOf(o, d)
  BY <1>1, <1>7, <1>9
<1>11. AloneOf(d, store')
  BY <1>1, <1>8
<1>12. d.alone = c.alone /\ d.campaign = c.campaign /\ d.before = c.before
  BY <1>4 DEF SettledWith
<1> QED BY <1>1, <1>4, <1>6, <1>10, <1>11, <1>12, StepReruns

\* Recording a verdict preserves RerunInv.
LEMMA WriteRecordReruns ==
    ASSUME KeptInv, RerunInv, NEW p \in Processes, WriteRecord(p) PROVE RerunInv'
<1> DEFINE c == run[p]
           d == run'[p]
           i == Len(run[p].found) + 1
           id == <<"candidate", run[p].moment>>
           candidate == Candidate(p)
<1>1. c.at = "record" /\ Running(p) /\ UNCHANGED <<outcomes, started>>
      /\ Writable(id, candidate) /\ Stored(id, candidate) /\ Settle(p, candidate)
  BY PlacedIsRunning DEF WriteRecord, Own, Identity
<1>2. candidate.version = c.version /\ candidate.symbol = Pool[i] /\ candidate.raw = <<"raw", c.moment>>
  BY DEF Candidate, Own, Identity, Symbol
<1> HIDE DEF candidate
<1>3. CampaignTyped(c) /\ CampaignsTyped /\ c.at \notin EndPlaces /\ c.at \in FetchPlaces
      /\ Len(c.found) \in Nat
  BY <1>1, CampaignAt DEF EndPlaces, FetchPlaces
<1>4. VerdictOf(c.version, candidate)
  <2>1. <<"raw", c.moment>>[1] = "raw" /\ <<"raw", c.moment>> # <<"none", 0>>
    OBVIOUS
  <2> QED BY <1>2, <2>1 DEF VerdictOf, NoArtifact, Identity
<1>5. run' = [run EXCEPT ![p] = d] /\ SettledWith(c, d, candidate)
  BY <1>1, <1>3, SettleMoves
<1>6. Running(p)'
  <2>1. CampaignTyped(d)
    BY <1>3, <1>4, <1>5, SettleTyped
  <2> QED BY <2>1, TypedRuns DEF Running
<1>7. /\ DOMAIN store' = DOMAIN store \cup {id} /\ store'[id] = candidate
      /\ \A x \in DOMAIN store : store'[x] = store[x]
  BY <1>1, StoreGrows
<1>8. id[1] = "candidate"
  OBVIOUS
<1>9. AloneOf(c, store) /\ \A o \in outcomes : ReturnedOf(o, store) /\ PairOf(o, c)
  BY <1>1, Pairs DEF RerunInv, AloneHeld, OutcomesHeld
<1>10. \A o \in outcomes : o.alone => o.version # c.version
  BY <1>3, <1>9 DEF PairOf
<1> HIDE DEF id, c, d, i
<1>11. ASSUME NEW v, NEW s, v # c.version \/ s # Pool[i]
       PROVE  \A x : Recorded(store, v, s, x) => Recorded(store', v, s, x)
  <2>1. \A x \in DOMAIN store' \ DOMAIN store :
            x[1] = "candidate" => store'[x].symbol # s \/ store'[x].version # v
    BY <1>2, <1>7, <1>11
  <2>2. \A x \in DOMAIN store : x \in DOMAIN store' /\ store'[x] = store[x]
    BY <1>7
  <2> QED BY <2>1, <2>2, RecordedKept
<1>12. AloneOf(d, store')
  <2>1. ASSUME c.alone
        PROVE  /\ Recorded(store', c.version, Pool[i], candidate)
               /\ \A k \in DOMAIN c.found : Recorded(store', c.version, Pool[k], c.found[k])
    <3>1. VerdictsFor(store, c.version, Pool[i]) = {}
          /\ \A k \in DOMAIN c.found : Recorded(store, c.version, Pool[k], c.found[k])
      BY <1>3, <1>9, <2>1 DEF AloneOf, i, c
    <3>2. VerdictsFor(store', c.version, Pool[i]) = {id}
      BY <1>2, <1>7, <1>8, <3>1 DEF VerdictsFor
    <3>3. Recorded(store', c.version, Pool[i], candidate)
      <4>1. id \in Records'
        BY <1>7, <1>8 DEF Records
      <4>2. DigestRank[id[2]] \in Nat
        <5>1. id = <<"candidate", c.moment>> /\ c.moment \in 1..Len(served)
          BY <1>1, <1>3, CampaignAt DEF EvidenceOf, id, c
        <5>2. 1..Len(served) \subseteq DOMAIN DigestRank
          BY FetchesRanked
        <5> QED BY <5>1, <5>2, UniverseCampaignAssumption
      <4> QED BY <1>7, <3>2, <4>2 DEF Recorded
    <3>4. ASSUME NEW k \in DOMAIN c.found PROVE Recorded(store', c.version, Pool[k], c.found[k])
      <4>1. Recorded(store, c.version, Pool[k], c.found[k])
        BY <3>1
      <4>2. Pool[k] # Pool[i]
        BY <3>1, <4>1 DEF Recorded
      <4> QED BY <1>11, <4>1, <4>2
    <3> QED BY <3>3, <3>4
  <2>2. c.alone => /\ Recorded(store', c.version, Pool[Len(c.found) + 1], candidate)
                   /\ \A k \in DOMAIN c.found : Recorded(store', c.version, Pool[k], c.found[k])
    BY <2>1 DEF i, c
  <2> QED BY <1>3, <1>4, <1>5, <2>2, SettledAlone
<1>13. ASSUME NEW o \in outcomes PROVE ReturnedOf(o, store') /\ PairOf(o, d)
  <2>1. ReturnedOf(o, store')
    BY <1>9, <1>10, <1>11 DEF ReturnedOf
  <2>2. PairOf(o, d)
    <3>1. o.alone /\ o.version = c.version /\ o.campaign \in c.before =>
              candidate = o.candidates[Len(c.found) + 1]
      BY <1>10
    <3>2. PairOf(o, c)
      BY <1>9
    <3> QED BY <1>3, <1>4, <1>5, <3>1, <3>2, SettledPairs
  <2> QED BY <2>1, <2>2
<1>14. d.alone = c.alone /\ d.campaign = c.campaign /\ d.before = c.before
  BY <1>5 DEF SettledWith
<1> QED BY <1>1, <1>5, <1>6, <1>12, <1>13, <1>14, StepReruns DEF c, d

\* The campaign is over; when it returns, its outcome is new.
LEMMA EndReruns ==
    ASSUME KeptInv, RerunInv, NEW p \in Processes, Running(p), NoNewRecord, UNCHANGED started,
           run' = [run EXCEPT ![p] = Idle],
           NEW new, new.campaign = run[p].campaign, new.version = run[p].version,
           new.candidates = run[p].found, new.alone = run[p].alone, new.before = run[p].before,
           UNCHANGED outcomes \/ (outcomes' = outcomes \cup {new} /\ run[p].at \in EndPlaces)
    PROVE  RerunInv'
<1> DEFINE c == run[p]
<1>1. DOMAIN run = Processes /\ CampaignTyped(c)
  BY CampaignAt
<1>2. /\ \A q \in Processes : Running(q)' => q # p /\ Running(q) /\ run'[q] = run[q]
      /\ run'[p] = Idle
  BY <1>1 DEF Running
<1>3. OnlyOneAlone'
  BY <1>2 DEF RerunInv, OnlyOneAlone
<1>4. AloneHeld'
  <2>1. ASSUME NEW q \in Processes, Running(q)' PROVE AloneOf(run'[q], store')
    <3>1. AloneOf(run[q], store)
      BY <1>2, <2>1 DEF RerunInv, AloneHeld
    <3>2. AloneOf(run[q], store')
      BY <3>1, RecordsStay
    <3> QED BY <1>2, <2>1, <3>2
  <2> QED BY <2>1 DEF AloneHeld
<1>5. /\ c.campaign \in 1..started /\ c.campaign \notin Returned /\ c.before \subseteq Returned
      /\ \A q \in Processes : Running(q) =>
            /\ run[q].campaign \in 1..started /\ run[q].campaign \notin Returned
            /\ run[q].before \subseteq Returned
      /\ \A q \in Processes : Running(q) /\ run[q].campaign = c.campaign => q = p
      /\ \A o \in outcomes : o.campaign \in 1..started /\ o.before \subseteq Returned
  BY DEF RerunInv, CampaignsNumbered
<1>6. \A o \in outcomes' : o \in outcomes \/ (o = new /\ c.at \in EndPlaces)
  OBVIOUS
<1>7. Returned \subseteq Returned' /\ Returned' \subseteq Returned \cup {c.campaign}
  BY <1>6 DEF Returned
<1>8. \A o \in outcomes : IsSequence(o.candidates) /\ Len(o.candidates) = Len(Pool)
                          /\ ReturnedOf(o, store')
  BY RecordsStay DEF RerunInv, OutcomesHeld
<1>9. c.at \in EndPlaces => /\ IsSequence(new.candidates) /\ Len(new.candidates) = Len(Pool)
                            /\ ReturnedOf(new, store')
  <2>1. AloneOf(c, store')
    <3>1. AloneOf(c, store)
      BY DEF RerunInv, AloneHeld
    <3> QED BY <3>1, RecordsStay
  <2> QED BY <1>1, <2>1 DEF CampaignTyped, AloneOf, ReturnedOf
<1>10. OutcomesHeld'
  BY <1>6, <1>8, <1>9 DEF OutcomesHeld
<1>11. NoRefetch' /\ SameSoFar'
  <2>1. ASSUME NEW o \in outcomes', NEW q \in Processes, Running(q)' PROVE PairOf(o, run'[q])
    <3>1. CASE o \in outcomes
      BY <1>2, <2>1, <3>1, Pairs DEF RerunInv
    <3>2. CASE o = new
      <4>1. ~new.alone
        BY <1>2, <2>1 DEF RerunInv, OnlyOneAlone
      <4> QED BY <3>2, <4>1 DEF PairOf
    <3> QED BY <1>6, <3>1, <3>2
  <2> QED BY <2>1 DEF NoRefetch, SameSoFar, PairOf, Running
<1>12. CampaignsNumbered'
  <2>1. ASSUME NEW q \in Processes, Running(q)'
        PROVE  /\ run'[q].campaign \in 1..started /\ run'[q].campaign \notin Returned'
               /\ run'[q].before \subseteq Returned'
    <3>1. q # p /\ Running(q) /\ run'[q] = run[q]
      BY <1>2, <2>1
    <3>2. run[q].campaign # c.campaign
      BY <1>5, <3>1
    <3> QED BY <1>5, <1>7, <3>1, <3>2
  <2>2. \A q, r \in Processes :
            Running(q)' /\ Running(r)' /\ run'[q].campaign = run'[r].campaign => q = r
    BY <1>2 DEF RerunInv, CampaignsNumbered
  <2>3. \A o \in outcomes' : o.campaign \in 1..started /\ o.before \subseteq Returned'
    BY <1>5, <1>6, <1>7
  <2> QED BY <2>1, <2>2, <2>3 DEF CampaignsNumbered
<1>13. RerunReproduces'
  <2> SUFFICES ASSUME NEW o \in outcomes', NEW q \in outcomes',
                      q.alone, q.version = o.version, q.campaign \in o.before
               PROVE  o.candidates = q.candidates
    BY DEF RerunReproduces
  <2>1. o.before \subseteq Returned
    BY <1>5, <1>6
  <2>2. q \in outcomes
    BY <1>5, <1>6, <2>1
  <2>3. CASE o \in outcomes
    BY <2>2, <2>3 DEF RerunInv, RerunReproduces
  <2>4. CASE o = new /\ c.at \in EndPlaces
    <3>1. PairOf(q, c)
      BY <2>2, Pairs DEF RerunInv
    <3>2. \A i \in DOMAIN c.found : c.found[i] = q.candidates[i]
      BY <2>4, <3>1 DEF PairOf
    <3>3. IsSequence(c.found) /\ Len(c.found) = Len(Pool)
          /\ IsSequence(q.candidates) /\ Len(q.candidates) = Len(Pool)
      BY <1>1, <1>8, <2>2, <2>4 DEF CampaignTyped
    <3>4. c.found = q.candidates
      BY <3>2, <3>3, SameSequence
    <3> QED BY <2>4, <3>4
  <2> QED BY <1>6, <2>3, <2>4
<1> QED BY <1>3, <1>4, <1>10, <1>11, <1>12, <1>13 DEF RerunInv

OutcomeOf(p) == [campaign |-> run[p].campaign, version |-> run[p].version,
                 candidates |-> run[p].found, alone |-> run[p].alone, before |-> run[p].before]

\* What an outcome notes.
LEMMA OutcomeFields ==
    ASSUME NEW p \in Processes
    PROVE  /\ OutcomeOf(p).campaign = run[p].campaign /\ OutcomeOf(p).version = run[p].version
           /\ OutcomeOf(p).candidates = run[p].found /\ OutcomeOf(p).alone = run[p].alone
           /\ OutcomeOf(p).before = run[p].before
BY DEF OutcomeOf

\* A crash preserves RerunInv.
LEMMA StopReruns ==
    ASSUME KeptInv, RerunInv, NEW p \in Processes, Stop(p) PROVE RerunInv'
<1>1. Running(p) /\ run' = [run EXCEPT ![p] = Idle] /\ UNCHANGED <<store, outcomes, started>>
  BY DEF Stop
<1>2. NoNewRecord
  BY <1>1 DEF NoNewRecord
<1> QED BY <1>1, <1>2, OutcomeFields, EndReruns

\* Returning preserves RerunInv.
LEMMA ReturnReruns ==
    ASSUME KeptInv, RerunInv, NEW p \in Processes, Returns(p) PROVE RerunInv'
<1>1. /\ Running(p) /\ run[p].at \in {"reread", "published"} /\ UNCHANGED <<store, started>>
      /\ run' = [run EXCEPT ![p] = Idle] /\ outcomes' = outcomes \cup {OutcomeOf(p)}
  BY ReturnMoves DEF Return, OutcomeOf
<1>2. run[p].at \in EndPlaces /\ NoNewRecord
  BY <1>1 DEF EndPlaces, NoNewRecord
<1> QED BY <1>1, <1>2, OutcomeFields, EndReruns

\* Reading what a manifest binds preserves RerunInv.
LEMMA ReadsRerun ==
    ASSUME KeptInv, RerunInv, NEW p \in Processes, Reads(p) PROVE RerunInv'
<1>1. /\ Running(p) /\ run' = [run EXCEPT ![p] = run'[p]] /\ UNCHANGED <<store, outcomes, started>>
      /\ run[p].at \notin FetchPlaces /\ run'[p].at \notin FetchPlaces /\ run'[p].at # "idle"
      /\ SameButPlace(run[p], run'[p])
  BY ReadsMove DEF FetchPlaces
<1>2. Running(p)' /\ SameCampaign(run[p], run'[p]) /\ NoNewRecord
  BY <1>1, IdlePlace DEF Running, SameCampaign, SameButPlace, NoNewRecord
<1> QED BY <1>1, <1>2, QuietReruns

\* Writing the report, or the manifest, preserves RerunInv.
LEMMA ReportsRerun ==
    ASSUME KeptInv, RerunInv, NEW p \in Processes, WriteReport(p) \/ WriteManifest(p) PROVE RerunInv'
<1>1. CASE WriteReport(p)
  <2> DEFINE report == Report(store[SnapshotId(p)], p)
  <2>1. /\ run[p].at = "report" /\ UNCHANGED <<outcomes, started>>
        /\ Writable(ReportId(p), report) /\ Stored(ReportId(p), report) /\ Goto(p, "reread")
    BY <1>1 DEF WriteReport
  <2> HIDE DEF report
  <2>2. Running(p) /\ ReportId(p)[1] # "candidate" /\ "reread" # "idle"
        /\ "reread" \notin FetchPlaces /\ run[p].at \notin FetchPlaces
    BY <2>1, PlacedIsRunning, KindsOfFiles DEF FetchPlaces, ReportId
  <2> QED BY <2>1, <2>2, GotoReruns
<1>2. CASE WriteManifest(p)
  <2> DEFINE manifest == Manifest(p)
  <2>1. /\ run[p].at = "verify" /\ UNCHANGED <<outcomes, started>>
        /\ Writable(ManifestId(p), manifest) /\ Stored(ManifestId(p), manifest) /\ Goto(p, "published")
    BY <1>2 DEF WriteManifest
  <2> HIDE DEF manifest
  <2>2. Running(p) /\ ManifestId(p)[1] # "candidate" /\ "published" # "idle"
        /\ "published" \notin FetchPlaces /\ run[p].at \notin FetchPlaces
    BY <2>1, PlacedIsRunning, KindsOfFiles DEF FetchPlaces, ManifestId
  <2> QED BY <2>1, <2>2, GotoReruns
<1> QED BY <1>1, <1>2

\* Starting a campaign preserves RerunInv.
LEMMA StartReruns ==
    ASSUME KeptInv, RerunInv, NEW p \in Processes, Start(p) PROVE RerunInv'
<1>1. UNCHANGED <<store, outcomes>> /\ started' = started + 1 /\ started \in Nat
  BY UniverseCampaignAssumption DEF Start, KeptInv, FetchesBounded
<1>2. \A q \in Processes : q # p => Running(q)' = Running(q)
  BY StartMoves, TypedRuns DEF Running
<1>3. OnlyOneAlone'
  BY <1>2, StartMoves DEF OnlyOneAlone
<1>4. AloneHeld'
  <2>1. ASSUME NEW q \in Processes, Running(q)' PROVE AloneOf(run'[q], store')
    <3>1. CASE q = p
      <4>1. run'[p].found = <<>> /\ run'[p].at \notin FetchPlaces
        BY StartMoves DEF FetchPlaces
      <4> QED BY <3>1, <4>1 DEF AloneOf
    <3>2. CASE q # p
      <4>1. run'[q].alone = FALSE
        BY <1>2, <2>1, <3>2, StartMoves
      <4> QED BY <4>1 DEF AloneOf
    <3> QED BY <3>1, <3>2
  <2> QED BY <2>1 DEF AloneHeld
<1>5. OutcomesHeld'
  BY <1>1 DEF RerunInv, OutcomesHeld
<1>6. NoRefetch' /\ SameSoFar'
  <2>1. ASSUME NEW o \in outcomes, NEW q \in Processes, Running(q)' PROVE PairOf(o, run'[q])
    <3>1. CASE q = p
      <4>1. run'[p].found = <<>> /\ run'[p].at \notin FetchPlaces
        BY StartMoves DEF FetchPlaces
      <4> QED BY <3>1, <4>1 DEF PairOf
    <3>2. CASE q # p
      <4>1. Running(q) /\ PairOf(o, run[q])
        BY <1>2, <2>1, <3>2, Pairs DEF RerunInv
      <4>2. /\ run'[q].at = run[q].at /\ run'[q].found = run[q].found
            /\ run'[q].version = run[q].version /\ run'[q].before = run[q].before
        BY <3>2, <4>1, StartMoves
      <4> QED BY <4>1, <4>2 DEF PairOf
    <3> QED BY <3>1, <3>2
  <2> QED BY <1>1, <2>1 DEF NoRefetch, SameSoFar, PairOf, Running
<1>7. CampaignsNumbered'
  <2>1. Returned' = Returned /\ \A o \in outcomes : o.campaign \in 1..started /\ o.before \subseteq Returned
    BY <1>1 DEF RerunInv, CampaignsNumbered, Returned
  <2>2. \A n \in Returned : n \in 1..started
    BY <2>1 DEF Returned
  <2>3. ASSUME NEW q \in Processes, Running(q)'
        PROVE  /\ run'[q].campaign \in 1..(started + 1) /\ run'[q].campaign \notin Returned
               /\ run'[q].before \subseteq Returned
               /\ q # p => run'[q].campaign = run[q].campaign /\ run[q].campaign \in 1..started
    <3>1. CASE q = p
      <4>1. run'[p].campaign = started + 1 /\ run'[p].before = Returned
        BY StartMoves
      <4>2. started + 1 \notin 1..started /\ started + 1 \in 1..(started + 1)
        BY <1>1
      <4> QED BY <2>2, <3>1, <4>1, <4>2
    <3>2. CASE q # p
      <4>1. /\ Running(q) /\ run[q].campaign \in 1..started /\ run[q].campaign \notin Returned
            /\ run[q].before \subseteq Returned
        BY <1>2, <2>3, <3>2 DEF RerunInv, CampaignsNumbered
      <4>2. run'[q].campaign = run[q].campaign /\ run'[q].before = run[q].before
        BY <3>2, <4>1, StartMoves
      <4> QED BY <1>1, <4>1, <4>2
    <3> QED BY <3>1, <3>2
  <2>4. ASSUME NEW q \in Processes, NEW r \in Processes, Running(q)', Running(r)',
               run'[q].campaign = run'[r].campaign
        PROVE  q = r
    <3>0. run'[p].campaign = started + 1 /\ started + 1 \notin 1..started
      <4>1. run'[p].campaign = started + 1
        BY StartMoves
      <4> QED BY <1>1, <4>1
    <3>1. CASE q = p /\ r # p
      BY <2>3, <2>4, <3>0, <3>1
    <3>2. CASE q # p /\ r = p
      BY <2>3, <2>4, <3>0, <3>2
    <3>3. CASE q # p /\ r # p
      BY <1>2, <2>3, <2>4, <3>3 DEF RerunInv, CampaignsNumbered
    <3> QED BY <3>1, <3>2, <3>3
  <2>5. \A o \in outcomes' : o.campaign \in 1..started' /\ o.before \subseteq Returned'
    BY <1>1, <2>1
  <2> QED BY <1>1, <2>1, <2>3, <2>4, <2>5 DEF CampaignsNumbered
<1>8. RerunReproduces'
  BY <1>1 DEF RerunInv, RerunReproduces
<1> QED BY <1>3, <1>4, <1>5, <1>6, <1>7, <1>8 DEF RerunInv

\* Other variables do not matter to RerunInv.
LEMMA NothingReruns == RerunInv /\ UNCHANGED <<store, run, outcomes, started>> => RerunInv'
BY DEF RerunInv, OnlyOneAlone, AloneHeld, OutcomesHeld, NoRefetch, SameSoFar, CampaignsNumbered,
       Returned, RerunReproduces, Running

\* No campaign has returned at first.
LEMMA RerunInit == Init => RerunInv
BY DEF Init, RerunInv, OnlyOneAlone, AloneHeld, OutcomesHeld, NoRefetch, SameSoFar, CampaignsNumbered,
       Returned, RerunReproduces, Running

\* Every step preserves RerunInv.
LEMMA RerunNext == KeptInv /\ RerunInv /\ [Next]_vars => RerunInv'
<1> SUFFICES ASSUME KeptInv, RerunInv, [Next]_vars PROVE RerunInv'
  OBVIOUS
<1>1. ASSUME NEW p \in Processes, Step(p) PROVE RerunInv'
  BY <1>1, StopReruns, ReuseReruns, StartFetchReruns, AskReruns, WritesRerun, WriteRecordReruns,
     ReportsRerun, ReadsRerun, ReturnReruns DEF Step, Reads, Returns
<1>2. ASSUME NEW id, Damage(id) PROVE RerunInv'
  BY <1>2, NothingReruns DEF Damage
<1>3. CASE UNCHANGED vars
  BY <1>3, NothingReruns DEF vars
<1> QED BY <1>1, <1>2, <1>3, StartReruns DEF Next

\* A campaign that ran alone can be rerun: whoever reruns it, and whatever else runs
\* then, reaches the same verdicts (campaign.py find_candidate_record).
THEOREM RerunsReproduce == Spec => []RerunReproduces
<1>1. RerunInv => RerunReproduces
  BY DEF RerunInv
<1> QED BY <1>1, RerunInit, RerunNext, KeptCorrect, PTL DEF Spec

\* Only files that are there can be damaged, and the version is an installed one.
Grounded == damaged \subseteq DOMAIN store /\ version \in DOMAIN Versions

\* Every step preserves Grounded.
LEMMA GroundedNext == Grounded /\ [Next]_vars => Grounded'
<1> SUFFICES ASSUME Grounded, [Next]_vars PROVE Grounded'
  OBVIOUS
<1> USE DEF Grounded
<1>1. ASSUME NEW p \in Processes, Start(p) PROVE Grounded'
  <2>1. DOMAIN Versions = 1..Len(Versions) /\ Len(Versions) \in Nat
    BY CampaignConstantsAssumption
  <2> QED BY <1>1, <2>1 DEF Start
<1>2. ASSUME NEW p \in Processes, Step(p) PROVE Grounded'
  <2>1. UNCHANGED <<damaged, version>>
    BY <1>2 DEF Step, Stop, Reuse, StartFetch, Ask, WriteRaw, WriteNormalized, AskCalendar,
       WriteQuarantine, WriteRecord, Freeze, WriteReport, ReadReport, VerifyNext, WriteManifest,
       ReadManifest
  <2>2. DOMAIN store \subseteq DOMAIN store'
    BY <1>2 DEF Step, Stop, Reuse, StartFetch, Ask, WriteRaw, WriteNormalized, AskCalendar,
       WriteQuarantine, WriteRecord, Freeze, WriteReport, ReadReport, VerifyNext, WriteManifest,
       ReadManifest, Stored
  <2> QED BY <2>1, <2>2
<1>3. ASSUME NEW id, Damage(id) PROVE Grounded'
  BY <1>3 DEF Damage
<1>4. CASE UNCHANGED vars
  BY <1>4 DEF vars
<1> QED BY <1>1, <1>2, <1>3, <1>4 DEF Next

\* The types of a campaign's state, for any processes, pool, versions and bounds.
THEOREM TypeCorrect == Spec => []TypeOK
<1>1. Init => Grounded
  BY CampaignConstantsAssumption DEF Init, Grounded
<1>2. KeptInv /\ RerunInv /\ Grounded => TypeOK
  <2> SUFFICES ASSUME KeptInv, RerunInv, Grounded PROVE TypeOK
    OBVIOUS
  <2> QED BY DEF KeptInv, RerunInv, Grounded, FetchesBounded, CampaignsNumbered, TypeOK
<1> QED BY <1>1, <1>2, GroundedNext, RerunInit, RerunNext, KeptCorrect, PTL DEF Spec

-----------------------------------------------------------------------------
(* What a manifest selects *)

\* The selection after each slot.
AreChosen(passing, n, C) ==
    C = [k \in 0..n |->
            IF k = 0 THEN <<>>
            ELSE IF Len(C[k - 1]) >= MaxUniverse THEN C[k - 1]
            ELSE C[k - 1] \o FirstClean(Slots[k], passing)]

\* The loop over the slots is well defined.
LEMMA ChosenExist ==
    ASSUME NEW passing, NEW n \in Nat
    PROVE  \E C : AreChosen(passing, n, C)
<1> DEFINE Bad == {m \in Nat : ~\E C : AreChosen(passing, m, C)}
           After(c, k) == IF Len(c) >= MaxUniverse THEN c ELSE c \o FirstClean(Slots[k], passing)
<1>1. ASSUME Bad # {} PROVE FALSE
  <2>1. PICK m \in Bad : \A l \in Bad : m <= l
    <3> Bad \in SUBSET Nat OBVIOUS
    <3> HIDE DEF Bad
    <3> QED BY <1>1, LeastNatural
  <2>2. m \in Nat /\ ~\E C : AreChosen(passing, m, C)
    OBVIOUS
  <2>3. CASE m = 0
    <3> DEFINE B == [k \in 0..m |-> <<>>]
    <3>1. AreChosen(passing, m, B)
      BY <2>3 DEF AreChosen
    <3> QED BY <2>2, <3>1
  <2>4. CASE m # 0
    <3>1. m - 1 \in Nat /\ m - 1 \notin Bad
      <4>1. m - 1 \in Nat /\ ~(m <= m - 1)
        BY <2>2, <2>4
      <4> HIDE DEF Bad
      <4> QED BY <2>1, <4>1
    <3>2. PICK C : AreChosen(passing, m - 1, C)
      BY <3>1
    <3> HIDE DEF Bad
    <3> DEFINE B == [k \in 0..m |-> IF k = m THEN After(C[m - 1], m) ELSE C[k]]
    <3>3. \A k \in 0..m : B[k] = IF k = 0 THEN <<>> ELSE After(B[k - 1], k)
      <4> TAKE k \in 0..m
      <4>1. CASE k = m
        <5>1. B[m] = After(C[m - 1], m) /\ B[m - 1] = C[m - 1]
          BY <2>2, <3>1
        <5> HIDE DEF After, B
        <5> QED BY <2>4, <4>1, <5>1
      <4>2. CASE k # m
        <5>1. k \in 0..(m - 1) /\ B[k] = C[k] /\ (k # 0 => B[k - 1] = C[k - 1])
          BY <2>2, <3>1, <4>2
        <5>2. C[k] = IF k = 0 THEN <<>> ELSE After(C[k - 1], k)
          BY <3>2, <5>1 DEF AreChosen
        <5> HIDE DEF After, B
        <5> QED BY <5>1, <5>2
      <4> QED BY <4>1, <4>2
    <3>4. B = [k \in 0..m |-> B[k]]
      OBVIOUS
    <3> HIDE DEF B
    <3>5. AreChosen(passing, m, B)
      BY <3>3, <3>4 DEF AreChosen
    <3> QED BY <2>2, <3>5
  <2> QED BY <2>3, <2>4
<1> QED BY <1>1

\* A slot gives one clean symbol or none.
LEMMA FirstCleanIsClean ==
    ASSUME NEW passing, NEW k \in 1..Len(Slots)
    PROVE  FirstClean(Slots[k], passing) \in Seq(passing)
<1> DEFINE slot == Slots[k]
           clean == {i \in DOMAIN slot : slot[i] \in passing}
<1>1. CASE clean = {}
  BY <1>1 DEF FirstClean
<1>2. CASE clean # {}
  <2>1. clean \in SUBSET Nat
    <3>1. slot \in Seq(UNION {ToSet(Slots[s]) : s \in DOMAIN Slots})
      BY BarQualityAssumption
    <3> HIDE DEF slot
    <3> QED BY <3>1
  <2> DEFINE i == CHOOSE i \in clean : \A j \in clean : i <= j
  <2>2. i \in clean
    <3> HIDE DEF clean
    <3> QED BY <1>2, <2>1, LeastNatural
  <2>3. FirstClean(slot, passing) = <<slot[i]>>
    BY <1>2 DEF FirstClean
  <2> HIDE DEF i
  <2>4. slot[i] \in passing
    BY <2>2
  <2> QED BY <2>3, <2>4
<1> QED BY <1>1, <1>2

\* Only clean symbols are selected.
LEMMA SelectedPass ==
    ASSUME NEW passing
    PROVE  ToSet(Selected(passing)) \subseteq passing
<1> DEFINE n == Len(Slots)
           C == CHOOSE C : AreChosen(passing, n, C)
<1>1. Selected(passing) = C[n]
  BY DEF Selected, AreChosen
<1>2. n \in Nat
  BY BarQualityAssumption
<1>3. AreChosen(passing, n, C)
  <2> HIDE DEF n
  <2>1. \E B : AreChosen(passing, n, B)
    BY <1>2, ChosenExist
  <2> QED BY <2>1
<1> HIDE DEF C
<1> DEFINE Bad == {m \in 0..n : C[m] \notin Seq(passing)}
<1>4. ASSUME Bad # {} PROVE FALSE
  <2>1. PICK m \in Bad : \A l \in Bad : m <= l
    <3> Bad \in SUBSET Nat OBVIOUS
    <3> HIDE DEF Bad
    <3> QED BY <1>4, LeastNatural
  <2>2. m \in 0..n /\ C[m] \notin Seq(passing)
    OBVIOUS
  <2>3. CASE m = 0
    BY <1>3, <2>2, <2>3 DEF AreChosen
  <2>4. CASE m # 0
    <3>1. m \in 1..n /\ m - 1 \in 0..n /\ ~(m <= m - 1)
      BY <1>2, <2>2, <2>4
    <3>2. C[m - 1] \in Seq(passing)
      <4>1. m - 1 \notin Bad
        <5> HIDE DEF Bad
        <5> QED BY <2>1, <3>1
      <4> QED BY <3>1, <4>1
    <3>3. FirstClean(Slots[m], passing) \in Seq(passing)
      BY <3>1, FirstCleanIsClean
    <3>4. C[m] = IF Len(C[m - 1]) >= MaxUniverse THEN C[m - 1]
                 ELSE C[m - 1] \o FirstClean(Slots[m], passing)
      BY <1>3, <2>2, <2>4 DEF AreChosen
    <3>5. C[m - 1] \o FirstClean(Slots[m], passing) \in Seq(passing)
      BY <3>2, <3>3
    <3> QED BY <2>2, <3>2, <3>4, <3>5
  <2> QED BY <2>3, <2>4
<1>5. C[n] \in Seq(passing)
  BY <1>2, <1>4
<1> QED BY <1>1, <1>5 DEF ToSet

-----------------------------------------------------------------------------
(* What a verdict of PASS stands for *)

Bars(c, st) == Rows(st[c.raw].pages)

\* A verdict of PASS rests on raw evidence without a fault, of the symbol it is about.
Sound(c, st) ==
    c.status = "PASS" =>
        /\ c.raw \in DOMAIN st
        /\ FrameIssues(Bars(c, st)) = {}
        /\ \A k \in DOMAIN Bars(c, st) : Bars(c, st)[k].code = c.symbol

\* The verdicts are those of the pool's symbols, in its order.
SoundOf(cs, st) == \A i \in DOMAIN cs : i \in DOMAIN Pool /\ Sound(cs[i], st) /\ cs[i].symbol = Pool[i]
PassingOf(cs) == {cs[i].symbol : i \in {k \in DOMAIN cs : cs[k].status = "PASS"}}

\* A campaign passes on sound verdicts, fetches the symbol that is due, and reports
\* only symbols that passed.
CleanOf(c, st) ==
    /\ SoundOf(c.found, st)
    /\ c.at \in FetchPlaces => c.fetch.symbol = Pool[Len(c.found) + 1]
    /\ c.at \in Reported =>
           /\ <<"report", c.campaign>> \in DOMAIN st
           /\ ToSet(st[<<"report", c.campaign>>].selected) \subseteq PassingOf(c.found)

ManifestOf(m, st) == /\ SoundOf(m.candidates, st)
                     /\ ToSet(m.selected) \subseteq PassingOf(m.candidates)

FileOf(x, st) == /\ x[1] = "candidate" => Sound(st[x], st)
                 /\ x[1] = "manifest" => ManifestOf(st[x], st)

\* Sound verdicts and manifests on disk and in every campaign.
CleanInv == /\ \A x \in DOMAIN store : FileOf(x, store)
            /\ \A p \in Processes : Running(p) => CleanOf(run[p], store)

\* Files are never changed by a campaign.
Grows(st, after) == \A x \in DOMAIN st : x \in DOMAIN after /\ after[x] = st[x]

\* What a file or a campaign rests on stays.
LEMMA GrowthKeeps ==
    ASSUME NEW st, NEW after, Grows(st, after)
    PROVE  /\ \A c : Sound(c, st) => Sound(c, after)
           /\ \A cs : SoundOf(cs, st) => SoundOf(cs, after)
           /\ \A c : CleanOf(c, st) => CleanOf(c, after)
           /\ \A x \in DOMAIN st : FileOf(x, st) => FileOf(x, after)
<1>1. \A c : Sound(c, st) => Sound(c, after)
  BY DEF Sound, Bars, Grows
<1>2. \A cs : SoundOf(cs, st) => SoundOf(cs, after)
  BY <1>1 DEF SoundOf
<1>3. \A c : CleanOf(c, st) => CleanOf(c, after)
  BY <1>2 DEF CleanOf, Grows
<1>4. \A m : ManifestOf(m, st) => ManifestOf(m, after)
  BY <1>2 DEF ManifestOf
<1> QED BY <1>1, <1>2, <1>3, <1>4 DEF FileOf, Grows

\* A step that adds sound files, and leaves the other campaigns alone.
LEMMA CleanGrows ==
    ASSUME KeptInv, CleanInv, NEW p \in Processes, run' = [run EXCEPT ![p] = run'[p]],
           Grows(store, store'), Running(p)' => CleanOf(run'[p], store'),
           \A x \in DOMAIN store' \ DOMAIN store : FileOf(x, store')
    PROVE  CleanInv'
<1>1. DOMAIN run = Processes
  BY DEF KeptInv, CampaignsTyped
<1>2. \A x \in DOMAIN store' : FileOf(x, store')
  <2> SUFFICES ASSUME NEW x \in DOMAIN store' PROVE FileOf(x, store')
    OBVIOUS
  <2>1. CASE x \in DOMAIN store
    BY <2>1, GrowthKeeps DEF CleanInv
  <2> QED BY <2>1
<1>3. ASSUME NEW q \in Processes, Running(q)' PROVE CleanOf(run'[q], store')
  <2>1. CASE q = p
    BY <1>3, <2>1
  <2>2. CASE q # p
    <3>1. run'[q] = run[q]
      BY <1>1, <2>2
    <3>2. Running(q) /\ CleanOf(run[q], store)
      BY <1>3, <3>1 DEF Running, CleanInv
    <3> QED BY <3>1, <3>2, GrowthKeeps
  <2> QED BY <2>1, <2>2
<1> QED BY <1>2, <1>3 DEF CleanInv

\* One file written, neither a record nor a manifest.
LEMMA OtherFile ==
    ASSUME NEW id, NEW content, Writable(id, content), Stored(id, content),
           id[1] # "candidate", id[1] # "manifest"
    PROVE  Grows(store, store') /\ \A x \in DOMAIN store' \ DOMAIN store : FileOf(x, store')
<1>0. DOMAIN store' = DOMAIN store \cup {id} /\ \A x \in DOMAIN store : store'[x] = store[x]
  BY StoreGrows
<1>1. Grows(store, store') /\ \A x \in DOMAIN store' \ DOMAIN store : x = id
  BY <1>0 DEF Grows
<1> QED BY <1>1 DEF FileOf

\* A campaign moves on within its symbol.
LEMMA MoveIsClean ==
    ASSUME KeptInv, CleanInv, NEW p \in Processes, Running(p),
           run' = [run EXCEPT ![p] = run'[p]], SameButPlace(run[p], run'[p]),
           run'[p].at \in FetchPlaces => run[p].at \in FetchPlaces, run'[p].at \notin Reported,
           NEW id, NEW content, Writable(id, content), Stored(id, content),
           id[1] # "candidate", id[1] # "manifest"
    PROVE  CleanInv'
<1>1. Grows(store, store') /\ \A x \in DOMAIN store' \ DOMAIN store : FileOf(x, store')
  BY OtherFile
<1>2. CleanOf(run[p], store)
  BY DEF CleanInv
<1>3. CleanOf(run[p], store')
  BY <1>1, <1>2, GrowthKeeps
<1>4. CleanOf(run'[p], store')
  BY <1>3 DEF CleanOf, SameButPlace
<1> QED BY <1>1, <1>4, CleanGrows

\* The kinds of files are different.
LEMMA KindsDiffer ==
    \A n : /\ Identity("raw", n)[1] \notin {"candidate", "manifest"}
           /\ Identity("normalized", n)[1] \notin {"candidate", "manifest"}
           /\ Identity("calendar", n)[1] \notin {"candidate", "manifest"}
           /\ Identity("quarantine", n)[1] \notin {"candidate", "manifest"}
           /\ Identity("snapshot", n)[1] \notin {"candidate", "manifest"}
           /\ Identity("report", n)[1] \notin {"candidate", "manifest"}
BY DEF Identity

\* Moving on with a write of neither a record nor a manifest preserves CleanInv.
LEMMA GotoIsClean ==
    ASSUME KeptInv, CleanInv, NEW p \in Processes, Running(p), NEW at, Goto(p, at),
           at \in FetchPlaces => run[p].at \in FetchPlaces, at \notin Reported,
           NEW id, NEW content, Writable(id, content), Stored(id, content),
           id[1] \notin {"candidate", "manifest"}
    PROVE  CleanInv'
<1>1. CampaignTyped(run[p]) /\ CampaignsTyped
  BY CampaignAt
<1>2. run' = [run EXCEPT ![p] = run'[p]] /\ run'[p].at = at /\ SameButPlace(run[p], run'[p])
  BY <1>1, GotoMoves
<1> QED BY <1>2, MoveIsClean

\* Each of the writes preserves CleanInv.
LEMMA WritesAreClean ==
    ASSUME KeptInv, CleanInv, NEW p \in Processes,
           WriteRaw(p) \/ WriteNormalized(p) \/ WriteQuarantine(p) \/ Freeze(p)
    PROVE  CleanInv'
<1>1. Running(p)
  BY PlacedIsRunning DEF WriteRaw, WriteNormalized, WriteQuarantine, Freeze
<1>2. AfterJudgement(p) \in {"calendar", "quarantine", "record"}
  BY AfterJudgementPlaces
<1>3. CASE WriteRaw(p)
  <2> DEFINE at == IF Success(run[p].fetch) THEN "normalize" ELSE AfterJudgement(p)
  <2>1. at \in FetchPlaces /\ at \notin Reported /\ run[p].at \in FetchPlaces /\ Goto(p, at)
    BY <1>2, <1>3 DEF WriteRaw, FetchPlaces, Reported
  <2> HIDE DEF at
  <2>2. Writable(Own(p, "raw"), Raw(p)) /\ Stored(Own(p, "raw"), Raw(p))
        /\ Own(p, "raw")[1] \notin {"candidate", "manifest"}
    BY <1>3, KindsDiffer DEF WriteRaw, Own
  <2> QED BY <1>1, <2>1, <2>2, GotoIsClean
<1>4. CASE WriteNormalized(p)
  <2>1. AfterJudgement(p) \in FetchPlaces /\ AfterJudgement(p) \notin Reported /\ run[p].at \in FetchPlaces
        /\ Goto(p, AfterJudgement(p))
    BY <1>2, <1>4 DEF WriteNormalized, FetchPlaces, Reported
  <2>2. Writable(Own(p, "normalized"), Normalized(p)) /\ Stored(Own(p, "normalized"), Normalized(p))
        /\ Own(p, "normalized")[1] \notin {"candidate", "manifest"}
    BY <1>4, KindsDiffer DEF WriteNormalized, Own
  <2> QED BY <1>1, <2>1, <2>2, GotoIsClean
<1>5. CASE WriteQuarantine(p)
  <2>1. "record" \in FetchPlaces /\ "record" \notin Reported /\ run[p].at \in FetchPlaces /\ Goto(p, "record")
    BY <1>5 DEF WriteQuarantine, FetchPlaces, Reported
  <2>2. PICK bundle : Writable(Own(p, "quarantine"), bundle) /\ Stored(Own(p, "quarantine"), bundle)
    BY <1>5 DEF WriteQuarantine
  <2>3. Own(p, "quarantine")[1] \notin {"candidate", "manifest"}
    BY KindsDiffer DEF Own
  <2> QED BY <1>1, <2>1, <2>2, <2>3, GotoIsClean
<1>6. CASE Freeze(p)
  <2>1. "report" \notin FetchPlaces /\ "report" \notin Reported /\ Goto(p, "report")
    BY <1>6 DEF Freeze, FetchPlaces, Reported
  <2>2. Writable(SnapshotId(p), Snapshot(p)) /\ Stored(SnapshotId(p), Snapshot(p))
        /\ SnapshotId(p)[1] \notin {"candidate", "manifest"}
    BY <1>6, KindsDiffer DEF Freeze, SnapshotId
  <2> QED BY <1>1, <2>1, <2>2, GotoIsClean
<1> QED BY <1>3, <1>4, <1>5, <1>6

\* Asking the calendar preserves CleanInv.
LEMMA CalendarIsClean ==
    ASSUME KeptInv, CleanInv, NEW p \in Processes, AskCalendar(p) PROVE CleanInv'
<1> DEFINE id == Own(p, "calendar")
<1>1. Running(p) /\ run[p].at = "calendar"
  BY PlacedIsRunning DEF AskCalendar
<1>2. PICK answer :
          /\ Writable(id, answer) /\ Stored(id, answer)
          /\ run' = [run EXCEPT ![p].calendar = answer,
                                ![p].at = IF Judgement(p).status = "FAIL" THEN "quarantine" ELSE "record"]
  BY DEF AskCalendar
<1>3. id[1] # "candidate" /\ id[1] # "manifest"
  BY KindsDiffer DEF Own
<1>4. CampaignTyped(run[p]) /\ DOMAIN run = Processes /\ DOMAIN run[p] = Fields
  BY <1>1, CampaignAt DEF CampaignTyped
<1> HIDE DEF id
<1>5. run' = [run EXCEPT ![p] = run'[p]] /\ SameButPlace(run[p], run'[p]) /\ run'[p].at \notin Reported
  BY <1>2, <1>4 DEF SameButPlace, Fields, Reported
<1>6. run[p].at \in FetchPlaces
  BY <1>1 DEF FetchPlaces
<1> QED BY <1>1, <1>2, <1>3, <1>5, <1>6, MoveIsClean

\* A campaign settles its symbol on a sound verdict.
LEMMA SettleIsClean ==
    ASSUME KeptInv, CleanInv, NEW p \in Processes, Running(p), run[p].at \in FetchPlaces \cup {"lookup"},
           NEW candidate, Settle(p, candidate), VerdictOf(run[p].version, candidate),
           Grows(store, store'), Sound(candidate, store'), candidate.symbol = Symbol(p),
           \A x \in DOMAIN store' \ DOMAIN store : FileOf(x, store')
    PROVE  CleanInv'
<1> DEFINE c == run[p]
           d == run'[p]
<1>1. CampaignsTyped /\ CampaignTyped(c) /\ CleanOf(c, store)
  BY CampaignAt DEF CleanInv
<1>2. c.at \notin EndPlaces
  BY DEF FetchPlaces, EndPlaces
<1>3. run' = [run EXCEPT ![p] = d] /\ SettledWith(c, d, candidate)
  BY <1>1, SettleMoves
<1>4. CleanOf(c, store')
  BY <1>1, GrowthKeeps
<1>5. Symbol(p) = Pool[Len(c.found) + 1]
  BY DEF Symbol
<1> HIDE DEF c, d
<1>6. /\ CampaignTyped(d) /\ d.at \in {"lookup", "freeze"}
      /\ Len(c.found) \in Nat
      /\ DOMAIN d.found = 1..(Len(c.found) + 1) /\ DOMAIN c.found = 1..Len(c.found)
      /\ d.found[Len(c.found) + 1] = candidate
      /\ \A i \in DOMAIN c.found : d.found[i] = c.found[i]
  BY <1>1, <1>2, <1>3, SettleTyped DEF c
<1>7. Len(c.found) + 1 \in DOMAIN Pool
  <2>1. Len(c.found) < Len(Pool)
    BY <1>1, <1>2 DEF CampaignTyped
  <2> QED BY <1>6, <2>1, PoolLength
<1>8. SoundOf(d.found, store')
  <2> SUFFICES ASSUME NEW i \in DOMAIN d.found
               PROVE  i \in DOMAIN Pool /\ Sound(d.found[i], store') /\ d.found[i].symbol = Pool[i]
    BY DEF SoundOf
  <2>1. CASE i = Len(c.found) + 1
    BY <1>5, <1>6, <1>7, <2>1
  <2>2. CASE i # Len(c.found) + 1
    <3>1. i \in DOMAIN c.found
      BY <1>6, <2>2
    <3> QED BY <1>4, <1>6, <3>1 DEF CleanOf, SoundOf
  <2> QED BY <2>1, <2>2
<1>9. CleanOf(d, store')
  BY <1>6, <1>8 DEF CleanOf, FetchPlaces, Reported
<1> QED BY <1>3, <1>9, CleanGrows DEF d

\* Reusing a recorded verdict preserves CleanInv.
LEMMA ReuseIsClean ==
    ASSUME KeptInv, CleanInv, NEW p \in Processes, Reuse(p) PROVE CleanInv'
<1> DEFINE r == FirstMatch(p)
<1>1. run[p].at = "lookup" /\ Running(p) /\ UNCHANGED store
      /\ Matching(p) # {} /\ Settle(p, store[r])
  BY PlacedIsRunning DEF Reuse
<1>2. r \in Matching(p)
  BY <1>1, FirstMatchIsFirst
<1> HIDE DEF r
<1>3. VerdictOf(run[p].version, store[r])
  BY <1>2, ReusedVerdict
<1>4. Sound(store[r], store) /\ store[r].symbol = Symbol(p)
  BY <1>2 DEF Matching, Records, CleanInv, FileOf
<1>5. Grows(store, store') /\ Sound(store[r], store') /\ DOMAIN store' \ DOMAIN store = {}
  BY <1>1, <1>4 DEF Grows
<1> QED BY <1>1, <1>3, <1>4, <1>5, SettleIsClean

\* A fetch without a fault brought the symbol's bars, all of them sound.
LEMMA Faultless ==
    ASSUME NEW c, Faults(c) = {}
    PROVE  /\ FrameIssues(Rows(c.fetch.pages)) = {}
           /\ \A k \in DOMAIN Rows(c.fetch.pages) : Rows(c.fetch.pages)[k].code = c.fetch.symbol
<1> DEFINE raw == RawEvidence(c.fetch, c.moment, c.version)
<1>1. raw.status = (IF Success(c.fetch) THEN "SUCCESS" ELSE "ERROR") /\ raw.pages = c.fetch.pages
  BY DEF RawEvidence
<1> HIDE DEF raw
<1>2. Issues(raw, Frame(raw), Success(c.fetch)) = {}
  BY DEF Faults, raw
<1>3. raw.status = "SUCCESS" /\ FrameIssues(Frame(raw)) = {}
  BY <1>2 DEF Issues
<1>4. Success(c.fetch) /\ Frame(raw) = Rows(c.fetch.pages)
  BY <1>1, <1>3 DEF Frame
<1> QED BY <1>3, <1>4 DEF Success, Normalizable

\* Recording a verdict preserves CleanInv.
LEMMA RecordIsClean ==
    ASSUME KeptInv, CleanInv, NEW p \in Processes, WriteRecord(p) PROVE CleanInv'
<1> DEFINE m == run[p].moment
           id == <<"candidate", m>>
           c == Candidate(p)
<1>1. run[p].at = "record" /\ Running(p)
      /\ Writable(id, c) /\ Stored(id, c) /\ Settle(p, c)
  BY PlacedIsRunning DEF WriteRecord, Own, Identity
<1>2. /\ c.version = run[p].version /\ c.raw = <<"raw", m>> /\ c.symbol = Symbol(p)
      /\ c.status = "PASS" => Faults(run[p]) = {}
  BY JudgedByFaults DEF Candidate, Own, Identity
<1> HIDE DEF c
<1>3. EvidenceOf(run[p], store, served) /\ CleanOf(run[p], store)
  BY <1>1, CampaignAt DEF CleanInv
<1>4. VerdictOf(run[p].version, c)
  <2>1. <<"raw", m>>[1] = "raw" /\ <<"raw", m>> # <<"none", 0>>
    OBVIOUS
  <2> QED BY <1>2, <2>1 DEF VerdictOf, NoArtifact, Identity
<1>5. <<"raw", m>> \in DOMAIN store /\ store[<<"raw", m>>].pages = run[p].fetch.pages
  BY <1>1, <1>3 DEF EvidenceOf, FetchPlaces
<1>6. run[p].fetch.symbol = Symbol(p)
  BY <1>1, <1>3 DEF CleanOf, FetchPlaces, Symbol
<1>7. Sound(c, store)
  BY <1>2, <1>5, <1>6, Faultless DEF Sound, Bars
<1>8. id[1] = "candidate"
  OBVIOUS
<1> HIDE DEF id
<1>9. Grows(store, store') /\ store'[id] = c /\ \A x \in DOMAIN store' \ DOMAIN store : x = id
  BY <1>1, StoreGrows DEF Grows
<1>10. Sound(c, store')
  BY <1>7, <1>9, GrowthKeeps
<1>11. \A x \in DOMAIN store' \ DOMAIN store : FileOf(x, store')
  BY <1>8, <1>9, <1>10 DEF FileOf
<1> QED BY <1>1, <1>2, <1>4, <1>9, <1>10, <1>11, SettleIsClean DEF FetchPlaces

\* Starting a fetch preserves CleanInv.
LEMMA StartFetchIsClean ==
    ASSUME KeptInv, CleanInv, NEW p \in Processes, StartFetch(p) PROVE CleanInv'
<1> DEFINE d == run'[p]
<1>1. Running(p) /\ UNCHANGED store
      /\ run' = [run EXCEPT ![p].at = "fetch", ![p].moment = Len(served) + 1,
                            ![p].fetch = NewFetch(Symbol(p)), ![p].calendar = NoCalendar]
  BY PlacedIsRunning DEF StartFetch
<1>2. DOMAIN run = Processes /\ DOMAIN run[p] = Fields /\ CleanOf(run[p], store)
  BY <1>1, CampaignAt DEF CampaignTyped, CleanInv
<1>3. /\ run' = [run EXCEPT ![p] = d]
      /\ d.at = "fetch" /\ d.found = run[p].found /\ d.fetch = NewFetch(Symbol(p))
  BY <1>1, <1>2 DEF Fields
<1> HIDE DEF d
<1>4. NewFetch(Symbol(p)).symbol = Pool[Len(run[p].found) + 1]
  BY DEF NewFetch, Symbol
<1>5. CleanOf(d, store')
  BY <1>1, <1>2, <1>3, <1>4 DEF CleanOf, Reported
<1>6. Grows(store, store') /\ DOMAIN store' \ DOMAIN store = {}
  BY <1>1 DEF Grows
<1> QED BY <1>3, <1>5, <1>6, CleanGrows DEF d

\* Asking the service for a page preserves CleanInv.
LEMMA AskIsClean ==
    ASSUME KeptInv, CleanInv, NEW p \in Processes, Ask(p) PROVE CleanInv'
<1> DEFINE c == run[p]
           d == run'[p]
<1>1. run[p].at = "fetch" /\ Running(p) /\ UNCHANGED store
  BY PlacedIsRunning DEF Ask
<1>2. PICK answer : run' = [run EXCEPT ![p].fetch = Received(@, answer)]
  BY DEF Ask
<1>3. /\ DOMAIN run = Processes /\ DOMAIN c = Fields /\ CleanOf(c, store)
      /\ DOMAIN c.fetch = FetchFields
  BY <1>1, CampaignAt DEF CampaignTyped, CleanInv
<1>4. /\ run' = [run EXCEPT ![p] = d]
      /\ d.at = c.at /\ d.found = c.found /\ d.fetch = Received(c.fetch, answer)
  BY <1>2, <1>3 DEF Fields
<1> HIDE DEF c, d
<1>5. Received(c.fetch, answer).symbol = c.fetch.symbol
  BY <1>3 DEF Received, FetchFields
<1>6. CleanOf(d, store')
  BY <1>1, <1>3, <1>4, <1>5 DEF CleanOf, Reported, c
<1>7. Grows(store, store') /\ DOMAIN store' \ DOMAIN store = {}
  BY <1>1 DEF Grows
<1> QED BY <1>4, <1>6, <1>7, CleanGrows DEF d

\* The campaign ends, having written sound files.
LEMMA EndIsClean ==
    ASSUME KeptInv, CleanInv, NEW p \in Processes, Running(p), run' = [run EXCEPT ![p] = Idle],
           Grows(store, store'), \A x \in DOMAIN store' \ DOMAIN store : FileOf(x, store')
    PROVE  CleanInv'
<1>1. run' = [run EXCEPT ![p] = run'[p]] /\ ~Running(p)'
  BY CampaignAt DEF Running
<1> QED BY <1>1, CleanGrows

\* The report selects only symbols of the frozen verdicts that passed.
LEMMA ReportIsClean ==
    ASSUME KeptInv, CleanInv, NEW p \in Processes, WriteReport(p) PROVE CleanInv'
<1> DEFINE id == <<"report", run[p].campaign>>
           report == Report(store[SnapshotId(p)], p)
<1>1. run[p].at = "report" /\ Running(p)
      /\ Writable(id, report) /\ Stored(id, report) /\ Goto(p, "reread")
  BY PlacedIsRunning DEF WriteReport, ReportId, Identity
<1>2. CampaignTyped(run[p]) /\ CampaignsTyped /\ FrozenOf(run[p], store) /\ CleanOf(run[p], store)
  BY <1>1, CampaignAt DEF CleanInv
<1>3. ToSet(report.selected) \subseteq PassingOf(run[p].found)
  <2>1. store[SnapshotId(p)].candidates = run[p].found
    BY <1>1, <1>2 DEF FrozenOf, SnapshotId, Identity
  <2>2. report.selected = Selected(Passing(store[SnapshotId(p)]))
    BY DEF Report, Selection
  <2>3. Passing(store[SnapshotId(p)]) = PassingOf(run[p].found)
    BY <2>1 DEF Passing, PassingOf
  <2> QED BY <2>2, <2>3, SelectedPass
<1> HIDE DEF report
<1>4. id[1] # "candidate" /\ id[1] # "manifest"
  OBVIOUS
<1>5. Grows(store, store') /\ \A x \in DOMAIN store' \ DOMAIN store : FileOf(x, store')
  <2> HIDE DEF id
  <2> QED BY <1>1, <1>4, OtherFile
<1>6. id \in DOMAIN store' /\ store'[id] = report
  BY <1>1, StoreGrows
<1>7. CleanOf(run[p], store')
  BY <1>2, <1>5, GrowthKeeps
<1>8. run' = [run EXCEPT ![p] = run'[p]] /\ run'[p].at = "reread" /\ SameButPlace(run[p], run'[p])
  BY <1>1, <1>2, GotoMoves
<1>9. CleanOf(run'[p], store')
  BY <1>3, <1>6, <1>7, <1>8 DEF CleanOf, SameButPlace, FetchPlaces
<1> QED BY <1>5, <1>8, <1>9, CleanGrows

\* Writing the manifest preserves CleanInv.
LEMMA ManifestIsClean ==
    ASSUME KeptInv, CleanInv, NEW p \in Processes, WriteManifest(p) PROVE CleanInv'
<1> DEFINE id == <<"manifest", run[p].campaign>>
           manifest == Manifest(p)
<1>1. run[p].at = "verify" /\ Running(p)
      /\ Writable(id, manifest) /\ Stored(id, manifest) /\ Goto(p, "published")
  BY PlacedIsRunning DEF WriteManifest, ManifestId, Identity
<1>2. CleanOf(run[p], store) /\ CampaignTyped(run[p]) /\ CampaignsTyped
  BY <1>1, CampaignAt DEF CleanInv
<1>3. manifest.candidates = run[p].found
      /\ manifest.selected = store[<<"report", run[p].campaign>>].selected
  BY DEF Manifest, ReportId, Identity
<1> HIDE DEF manifest
<1>4. ManifestOf(manifest, store)
  BY <1>1, <1>2, <1>3 DEF ManifestOf, CleanOf, Reported
<1>5. id[1] = "manifest"
  OBVIOUS
<1> HIDE DEF id
<1>6. DOMAIN store' = DOMAIN store \cup {id} /\ store'[id] = manifest
      /\ \A x \in DOMAIN store : store'[x] = store[x]
  BY <1>1, StoreGrows
<1>7. Grows(store, store')
  BY <1>6 DEF Grows
<1>8. ManifestOf(manifest, store')
  BY <1>4, <1>7, GrowthKeeps DEF ManifestOf
<1>9. \A x \in DOMAIN store' \ DOMAIN store : FileOf(x, store')
  BY <1>5, <1>6, <1>8 DEF FileOf
<1>10. run' = [run EXCEPT ![p] = run'[p]] /\ run'[p].at = "published" /\ SameButPlace(run[p], run'[p])
  BY <1>1, <1>2, GotoMoves
<1>11. CleanOf(run[p], store')
  BY <1>2, <1>7, GrowthKeeps
<1>12. CleanOf(run'[p], store')
  BY <1>1, <1>10, <1>11 DEF CleanOf, SameButPlace, FetchPlaces, Reported
<1> QED BY <1>7, <1>9, <1>10, <1>12, CleanGrows

\* Reading what a manifest binds, and returning, preserve CleanInv.
LEMMA ReadsAreClean ==
    ASSUME KeptInv, CleanInv, NEW p \in Processes, Reads(p) \/ Returns(p) PROVE CleanInv'
<1>1. UNCHANGED store /\ Grows(store, store')
  BY ReadsMove, ReturnMoves DEF Grows
<1>2. CASE Reads(p)
  <2>1. CleanOf(run[p], store)
    BY <1>2, ReadsMove DEF CleanInv
  <2>2. CleanOf(run'[p], store')
    BY <1>1, <1>2, <2>1, ReadsMove DEF CleanOf, SameButPlace, FetchPlaces, Reported
  <2> QED BY <1>1, <1>2, <2>2, ReadsMove, CleanGrows
<1>3. CASE Returns(p)
  BY <1>1, <1>3, ReturnMoves, EndIsClean DEF Return
<1> QED BY <1>2, <1>3

\* Starting a campaign preserves CleanInv.
LEMMA StartIsClean ==
    ASSUME KeptInv, CleanInv, NEW p \in Processes, Start(p) PROVE CleanInv'
<1>1. UNCHANGED store
  BY DEF Start
<1>2. ASSUME NEW q \in Processes, Running(q)' PROVE CleanOf(run'[q], store)
  <2>1. CASE q = p
    <3>1. run'[q].at = "lookup" /\ run'[q].found = <<>>
      BY <2>1, StartMoves
    <3>2. DOMAIN run'[q].found = {}
      BY <3>1
    <3>3. SoundOf(run'[q].found, store)
      BY <3>2 DEF SoundOf
    <3> QED BY <3>1, <3>3 DEF CleanOf, FetchPlaces, Reported
  <2>2. CASE q # p
    <3>1. Running(q)
      BY <1>2, <2>2, StartMoves DEF Running
    <3>2. /\ run'[q].at = run[q].at /\ run'[q].found = run[q].found
          /\ run'[q].fetch = run[q].fetch /\ run'[q].campaign = run[q].campaign
      BY <2>2, <3>1, StartMoves
    <3>3. CleanOf(run[q], store)
      BY <3>1 DEF CleanInv
    <3> QED BY <3>2, <3>3 DEF CleanOf
  <2> QED BY <2>1, <2>2
<1> QED BY <1>1, <1>2 DEF CleanInv

\* A frame without an issue has no flaw, no duplicate, no disorder, no day too few or many.
LEMMA NoIssues ==
    ASSUME NEW frame, FrameIssues(frame) = {}
    PROVE  /\ UNION {frame[k].flaws : k \in DOMAIN frame} = {}
           /\ ~HasDuplicates(frame) /\ Increasing(frame)
           /\ MissingDays(frame) = {} /\ UnexpectedDays(frame) = {}
<1> DEFINE flaws == UNION {frame[k].flaws : k \in DOMAIN frame}
           a == Flags("DUPLICATE_TIMESTAMP", HasDuplicates(frame))
           b == Flags("NON_MONOTONIC_TIMESTAMP", ~Increasing(frame))
           c == Flags("MISSING_SESSION", MissingDays(frame) # {})
           d == Flags("UNEXPECTED_SESSION", UnexpectedDays(frame) # {})
<1>1. FrameIssues(frame) = flaws \cup a \cup b \cup c \cup d
  BY DEF FrameIssues
<1> HIDE DEF flaws, a, b, c, d
<1>2. flaws = {} /\ a = {} /\ b = {} /\ c = {} /\ d = {}
  BY <1>1
<1>3. flaws = {}
  BY <1>2
<1>4. ~HasDuplicates(frame)
  BY <1>2 DEF a, Flags
<1>5. Increasing(frame)
  BY <1>2 DEF b, Flags
<1>6. MissingDays(frame) = {}
  BY <1>2 DEF c, Flags
<1>7. UnexpectedDays(frame) = {}
  BY <1>2 DEF d, Flags
<1> QED BY <1>3, <1>4, <1>5, <1>6, <1>7 DEF flaws

\* No file and no campaign at first.
LEMMA CleanInit == Init => CleanInv
BY DEF Init, CleanInv, Running

\* Every step preserves CleanInv.
LEMMA CleanNext == KeptInv /\ CleanInv /\ [Next]_vars => CleanInv'
<1> SUFFICES ASSUME KeptInv, CleanInv, [Next]_vars PROVE CleanInv'
  OBVIOUS
<1>1. ASSUME NEW p \in Processes, Stop(p) PROVE CleanInv'
  <2>1. Running(p) /\ run' = [run EXCEPT ![p] = Idle] /\ UNCHANGED store
    BY <1>1 DEF Stop
  <2>2. Grows(store, store') /\ DOMAIN store' \ DOMAIN store = {}
    BY <2>1 DEF Grows
  <2> QED BY <2>1, <2>2, EndIsClean
<1>2. ASSUME NEW p \in Processes, Step(p) PROVE CleanInv'
  BY <1>1, <1>2, ReuseIsClean, StartFetchIsClean, AskIsClean, WritesAreClean, CalendarIsClean,
     RecordIsClean, ReportIsClean, ManifestIsClean, ReadsAreClean DEF Step, Reads, Returns
<1>3. ASSUME UNCHANGED <<store, run>> PROVE CleanInv'
  BY <1>3 DEF CleanInv, Running
<1>4. ASSUME NEW id, Damage(id) PROVE CleanInv'
  BY <1>3, <1>4 DEF Damage
<1>5. CASE UNCHANGED vars
  BY <1>3, <1>5 DEF vars
<1> QED BY <1>2, <1>4, <1>5, StartIsClean DEF Next

\* Whatever the service sends, in however many pages, and whatever was recorded before:
\* the bars of a symbol that a manifest selects are one sound row of that symbol for
\* every session, in order (campaign.py, validation.py, selection.py).
THEOREM SelectedAreClean == Spec => []SelectedIsClean
<1>1. CleanInv => SelectedIsClean
  <2> SUFFICES ASSUME CleanInv, NEW m \in Of("manifest"), NEW i \in DOMAIN store[m].candidates,
                      store[m].candidates[i].symbol \in ToSet(store[m].selected)
               PROVE  Sessionwise(Rows(store[store[m].candidates[i].raw].pages),
                                  store[m].candidates[i].symbol)
    BY DEF SelectedIsClean
  <2> DEFINE cs == store[m].candidates
             rows == Rows(store[cs[i].raw].pages)
  <2> SUFFICES Sessionwise(rows, cs[i].symbol)
    OBVIOUS
  <2>1. ManifestOf(store[m], store)
    BY DEF CleanInv, FileOf, Of
  <2>2. SoundOf(cs, store) /\ cs[i].symbol \in PassingOf(cs)
    BY <2>1 DEF ManifestOf
  <2>4. i \in DOMAIN cs
    OBVIOUS
  <2> HIDE DEF cs
  <2>3. PICK j \in DOMAIN cs : cs[j].status = "PASS" /\ cs[j].symbol = cs[i].symbol
    BY <2>2 DEF PassingOf
  <2>5. i = j
    BY <2>2, <2>3, <2>4, CampaignConstantsAssumption DEF SoundOf
  <2>6. FrameIssues(rows) = {} /\ \A k \in DOMAIN rows : rows[k].code = cs[i].symbol
    BY <2>2, <2>3, <2>5 DEF SoundOf, Sound, Bars
  <2> HIDE DEF rows
  <2>7. /\ UNION {rows[k].flaws : k \in DOMAIN rows} = {}
        /\ ~HasDuplicates(rows) /\ Increasing(rows)
        /\ MissingDays(rows) = {} /\ UnexpectedDays(rows) = {}
    BY <2>6, NoIssues
  <2>8. Days(rows) = Sessions
    BY <2>7 DEF MissingDays, UnexpectedDays
  <2>9. \A k \in DOMAIN rows : rows[k].flaws = {}
    BY <2>7
  <2>10. \A k, l \in DOMAIN rows : rows[k].day = rows[l].day => k = l
    BY <2>7 DEF HasDuplicates
  <2>11. \A k, l \in DOMAIN rows : k < l => rows[k].day <= rows[l].day
    BY <2>7 DEF Increasing
  <2> QED BY <2>6, <2>8, <2>9, <2>10, <2>11 DEF Sessionwise
<1> QED BY <1>1, CleanInit, CleanNext, KeptCorrect, PTL DEF Spec

-----------------------------------------------------------------------------
(* What a manifest rests on *)

\* What the manifest of a campaign binds, in the order in which it is verified.
ChainOf(c) == <<Identity("snapshot", c.campaign), Identity("report", c.campaign)>>
                 \o [i \in DOMAIN c.found |-> c.found[i].raw]
                 \o [i \in DOMAIN c.found |-> c.found[i].normalized]

\* Two sequences in a row: the elements of each are where one expects them.
IsJoin(a, b, w) == /\ Len(w) = Len(a) + Len(b)
                   /\ \A k \in 1..Len(a) : w[k] = a[k]
                   /\ \A i \in 1..Len(b) : w[Len(a) + i] = b[i]

LEMMA Joined ==
    ASSUME NEW T, NEW a \in Seq(T), NEW b \in Seq(T)
    PROVE  a \o b \in Seq(T) /\ IsJoin(a, b, a \o b)
  BY DEF IsJoin

\* Two elements and then two sequences.
InRow(w, s, q, n, r, z) ==
    /\ Len(w) = 2 + n + n /\ w[1] = s /\ w[2] = q
    /\ \A i \in 1..n : w[2 + i] = r[i] /\ w[2 + n + i] = z[i]

LEMMA JoinedAfterTwo ==
    ASSUME NEW T, NEW s \in T, NEW q \in T, NEW n \in Nat,
           NEW r \in [1..n -> T], NEW z \in [1..n -> T],
           NEW w, w = (<<s, q>> \o r) \o z
    PROVE  InRow(w, s, q, n, r, z)
<1>1. PICK h : h = <<s, q>>
  OBVIOUS
<1>2. h \in Seq(T)
  BY <1>1
<1>3. Len(h) = 2 /\ h[1] = s /\ h[2] = q
  BY <1>1
<1>4. r \in Seq(T) /\ z \in Seq(T)
  OBVIOUS
<1>5. Len(r) = n /\ Len(z) = n
  OBVIOUS
<1>6. PICK m : m = h \o r
  OBVIOUS
<1>7. m \in Seq(T) /\ IsJoin(h, r, m)
  BY <1>2, <1>4, <1>6, Joined
<1>8. IsJoin(m, z, w)
  BY <1>1, <1>4, <1>6, <1>7, Joined
<1>9. Len(m) = 2 + n /\ Len(w) = 2 + n + n
  BY <1>3, <1>5, <1>7, <1>8 DEF IsJoin
<1>10. w[1] = s /\ w[2] = q
  BY <1>3, <1>7, <1>8, <1>9 DEF IsJoin
<1>11. ASSUME NEW i \in 1..n PROVE w[2 + i] = r[i]
  BY <1>3, <1>5, <1>7, <1>8, <1>9 DEF IsJoin
<1>12. ASSUME NEW i \in 1..n PROVE w[2 + n + i] = z[i]
  BY <1>5, <1>8, <1>9 DEF IsJoin
<1> QED BY <1>9, <1>10, <1>11, <1>12 DEF InRow

\* The snapshot, the report, the raw evidence and the datasets are all in it.
LEMMA ChainHolds ==
    ASSUME NEW c, IsSequence(c.found)
    PROVE  /\ Len(ChainOf(c)) \in Nat /\ Len(ChainOf(c)) >= 2
           /\ ChainOf(c)[1] = Identity("snapshot", c.campaign)
           /\ ChainOf(c)[2] = Identity("report", c.campaign)
           /\ \A i \in DOMAIN c.found :
                 /\ \E k \in 1..Len(ChainOf(c)) : ChainOf(c)[k] = c.found[i].raw
                 /\ \E k \in 1..Len(ChainOf(c)) : ChainOf(c)[k] = c.found[i].normalized
<1>1. PICK n \in Nat : DOMAIN c.found = 1..n
  BY SequenceTyped
<1>2. PICK s, q : /\ s = Identity("snapshot", c.campaign)
                  /\ q = Identity("report", c.campaign)
  OBVIOUS
<1>3. PICK r, z : /\ r = [i \in 1..n |-> c.found[i].raw]
                  /\ z = [i \in 1..n |-> c.found[i].normalized]
  OBVIOUS
<1>4. PICK T : T = {s, q} \cup {c.found[i].raw : i \in 1..n}
                          \cup {c.found[i].normalized : i \in 1..n}
  OBVIOUS
<1>5. PICK w : w = (<<s, q>> \o r) \o z
  OBVIOUS
<1>6. ChainOf(c) = w
  BY <1>1, <1>2, <1>3, <1>5 DEF ChainOf
<1>7. s \in T /\ q \in T /\ r \in [1..n -> T] /\ z \in [1..n -> T]
  BY <1>3, <1>4
<1>8. /\ Len(w) = 2 + n + n /\ w[1] = s /\ w[2] = q
      /\ \A i \in 1..n : w[2 + i] = r[i] /\ w[2 + n + i] = z[i]
  <2>1. InRow(w, s, q, n, r, z)
    BY <1>5, <1>7, JoinedAfterTwo
  <2> QED BY <2>1 DEF InRow
<1>9. ASSUME NEW i \in DOMAIN c.found
      PROVE  /\ \E k \in 1..Len(w) : w[k] = c.found[i].raw
             /\ \E k \in 1..Len(w) : w[k] = c.found[i].normalized
  <2>1. i \in 1..n /\ 2 + i \in 1..Len(w) /\ 2 + n + i \in 1..Len(w)
    BY <1>1, <1>8
  <2>2. w[2 + i] = c.found[i].raw /\ w[2 + n + i] = c.found[i].normalized
    BY <1>3, <1>8, <2>1
  <2> QED BY <2>1, <2>2
<1>10. Len(w) \in Nat /\ Len(w) >= 2
  BY <1>1, <1>8
<1> QED BY <1>2, <1>6, <1>8, <1>9, <1>10

\* Nothing a campaign found was damaged when it started, and nothing it has
\* verified was when it had its report.
UnspoiltOf(c, st, dm) ==
    /\ c.spoiltAtStart \subseteq dm
    /\ \A i \in DOMAIN c.found : \A id \in Evidence(c.found[i]) \ {NoArtifact} :
          id \in DOMAIN st /\ id \notin c.spoiltAtStart
    /\ c.at = "verify" =>
          /\ c.spoiltAtStart \subseteq c.spoiltAtEnd /\ c.spoiltAtEnd \subseteq dm
          /\ c.verified \in Nat
          /\ \A k \in 1..c.verified :
                \/ ChainOf(c)[k] = NoArtifact
                \/ ChainOf(c)[k] \in DOMAIN st /\ ChainOf(c)[k] \notin c.spoiltAtEnd

UnspoiltInv == \A p \in Processes : Running(p) => UnspoiltOf(run[p], store, damaged)

\* Files stay, and damaged ones stay damaged.
LEMMA UnspoiltGrows ==
    ASSUME NEW c, NEW st, NEW after, NEW dm, NEW dm2, UnspoiltOf(c, st, dm),
           Grows(st, after), dm \subseteq dm2
    PROVE  UnspoiltOf(c, after, dm2)
<1>1. \A x \in DOMAIN st : x \in DOMAIN after
  BY DEF Grows
<1> QED BY <1>1 DEF UnspoiltOf

\* A campaign that found nothing more and verifies nothing.
SameFindings(c, d) == d.found = c.found /\ d.spoiltAtStart = c.spoiltAtStart /\ d.at # "verify"

\* What a step does to the verdicts of its campaign.
LEMMA StepMoves ==
    ASSUME KeptInv, NEW p \in Processes, Step(p)
    PROVE  /\ Running(p) /\ run' = [run EXCEPT ![p] = run'[p]] /\ Grows(store, store')
           /\ damaged' = damaged
           /\ \/ run'[p] = Idle
              \/ SameFindings(run[p], run'[p])
              \/ Reads(p)
              \/ \E candidate : /\ Settle(p, candidate) /\ run[p].at \in {"lookup", "record"}
                                /\ \A id \in Evidence(candidate) : VerifiedOrNone(id)
<1>1. Running(p)
  BY PlacedIsRunning DEF Step, Stop, Reuse, StartFetch, Ask, WriteRaw, WriteNormalized, AskCalendar,
     WriteQuarantine, WriteRecord, Freeze, WriteReport, ReadReport, VerifyNext, WriteManifest,
     ReadManifest
<1>2. CampaignTyped(run[p]) /\ CampaignsTyped /\ DOMAIN run = Processes /\ DOMAIN run[p] = Fields
  BY <1>1, CampaignAt DEF CampaignTyped
<1>3. damaged' = damaged
  BY DEF Step, Stop, Reuse, StartFetch, Ask, WriteRaw, WriteNormalized, AskCalendar,
     WriteQuarantine, WriteRecord, Freeze, WriteReport, ReadReport, VerifyNext, WriteManifest,
     ReadManifest
<1>4. ASSUME NEW id, NEW content, Writable(id, content), Stored(id, content) PROVE Grows(store, store')
  BY <1>4, StoreGrows DEF Grows
<1>5. UNCHANGED store => Grows(store, store')
  BY DEF Grows
<1>6. ASSUME NEW at, Goto(p, at), at # "verify"
      PROVE  run' = [run EXCEPT ![p] = run'[p]] /\ SameFindings(run[p], run'[p])
  BY <1>2, <1>6, GotoMoves DEF SameFindings, SameButPlace
<1>7. ASSUME NEW candidate, Settle(p, candidate) PROVE run' = [run EXCEPT ![p] = run'[p]]
  BY <1>2, <1>7, SettleMoves
<1>8. CASE Stop(p)
  BY <1>1, <1>2, <1>3, <1>5, <1>8 DEF Stop
<1>9. CASE Reuse(p)
  <2>1. Settle(p, store[FirstMatch(p)]) /\ run[p].at = "lookup" /\ UNCHANGED store
        /\ \A id \in Evidence(store[FirstMatch(p)]) : VerifiedOrNone(id)
    BY <1>9 DEF Reuse
  <2> QED BY <1>1, <1>3, <1>5, <1>7, <2>1
<1>10. CASE StartFetch(p)
  <2>1. PICK fetch, moment :
            run' = [run EXCEPT ![p].at = "fetch", ![p].moment = moment, ![p].fetch = fetch,
                               ![p].calendar = NoCalendar]
    BY <1>10 DEF StartFetch
  <2>2. run'[p] = [run[p] EXCEPT !.at = "fetch", !.moment = moment, !.fetch = fetch,
                                 !.calendar = NoCalendar]
        /\ run' = [run EXCEPT ![p] = run'[p]]
    BY <1>2, <2>1
  <2>3. SameFindings(run[p], run'[p])
    BY <1>2, <2>2 DEF SameFindings, Fields
  <2>4. UNCHANGED store
    BY <1>10 DEF StartFetch
  <2> QED BY <1>1, <1>3, <1>5, <2>2, <2>3, <2>4
<1>11. CASE Ask(p)
  <2>1. PICK answer : run' = [run EXCEPT ![p].fetch = Received(@, answer)]
    BY <1>11 DEF Ask
  <2>2. run'[p] = [run[p] EXCEPT !.fetch = Received(run[p].fetch, answer)]
        /\ run' = [run EXCEPT ![p] = run'[p]]
    BY <1>2, <2>1
  <2>3. UNCHANGED store /\ run[p].at = "fetch"
    BY <1>11 DEF Ask
  <2>4. SameFindings(run[p], run'[p])
    BY <1>2, <2>2, <2>3 DEF SameFindings, Fields
  <2> QED BY <1>1, <1>3, <1>5, <2>2, <2>3, <2>4
<1>12. CASE WriteRaw(p)
  <2> DEFINE at == IF Success(run[p].fetch) THEN "normalize" ELSE AfterJudgement(p)
  <2>1. Goto(p, at) /\ Writable(Own(p, "raw"), Raw(p)) /\ Stored(Own(p, "raw"), Raw(p))
    BY <1>12 DEF WriteRaw
  <2>2. at # "verify"
    BY AfterJudgementPlaces
  <2> HIDE DEF at
  <2> QED BY <1>1, <1>3, <1>4, <1>6, <2>1, <2>2
<1>13. CASE WriteNormalized(p)
  <2>1. Goto(p, AfterJudgement(p)) /\ Writable(Own(p, "normalized"), Normalized(p))
        /\ Stored(Own(p, "normalized"), Normalized(p)) /\ AfterJudgement(p) # "verify"
    BY <1>13, AfterJudgementPlaces DEF WriteNormalized
  <2> QED BY <1>1, <1>3, <1>4, <1>6, <2>1
<1>14. CASE AskCalendar(p)
  <2> DEFINE at == IF Judgement(p).status = "FAIL" THEN "quarantine" ELSE "record"
  <2>1. PICK answer : /\ Writable(Own(p, "calendar"), answer) /\ Stored(Own(p, "calendar"), answer)
                      /\ run' = [run EXCEPT ![p].calendar = answer, ![p].at = at]
    BY <1>14 DEF AskCalendar
  <2>2. at # "verify"
    OBVIOUS
  <2> HIDE DEF at
  <2>3. run'[p] = [run[p] EXCEPT !.calendar = answer, !.at = at]
        /\ run' = [run EXCEPT ![p] = run'[p]]
    BY <1>2, <2>1
  <2>4. SameFindings(run[p], run'[p])
    BY <1>2, <2>2, <2>3 DEF SameFindings, Fields
  <2> QED BY <1>1, <1>3, <1>4, <2>1, <2>3, <2>4
<1>15. CASE WriteQuarantine(p)
  <2>1. Goto(p, "record")
    BY <1>15 DEF WriteQuarantine
  <2>2. PICK bundle : Writable(Own(p, "quarantine"), bundle) /\ Stored(Own(p, "quarantine"), bundle)
    BY <1>15 DEF WriteQuarantine
  <2> QED BY <1>1, <1>3, <1>4, <1>6, <2>1, <2>2
<1>16. CASE WriteRecord(p)
  <2> DEFINE c == Candidate(p)
  <2>1. /\ Settle(p, c) /\ run[p].at = "record" /\ \A id \in Evidence(c) : VerifiedOrNone(id)
        /\ Writable(Own(p, "candidate"), c) /\ Stored(Own(p, "candidate"), c)
    BY <1>16 DEF WriteRecord
  <2> HIDE DEF c
  <2> QED BY <1>1, <1>3, <1>4, <1>7, <2>1
<1>17. CASE Freeze(p)
  <2>1. Goto(p, "report") /\ Writable(SnapshotId(p), Snapshot(p)) /\ Stored(SnapshotId(p), Snapshot(p))
    BY <1>17 DEF Freeze
  <2> QED BY <1>1, <1>3, <1>4, <1>6, <2>1
<1>18. CASE WriteReport(p)
  <2> DEFINE report == Report(store[SnapshotId(p)], p)
  <2>1. Goto(p, "reread") /\ Writable(ReportId(p), report) /\ Stored(ReportId(p), report)
    BY <1>18 DEF WriteReport
  <2> HIDE DEF report
  <2> QED BY <1>1, <1>3, <1>4, <1>6, <2>1
<1>19. CASE WriteManifest(p)
  <2>1. Goto(p, "published") /\ Writable(ManifestId(p), Manifest(p)) /\ Stored(ManifestId(p), Manifest(p))
    BY <1>19 DEF WriteManifest
  <2> QED BY <1>1, <1>3, <1>4, <1>6, <2>1
<1>20. CASE Reads(p)
  BY <1>1, <1>3, <1>5, <1>20, ReadsMove
<1>21. CASE Returns(p)
  BY <1>1, <1>2, <1>3, <1>5, <1>21, ReturnMoves DEF Return
<1> QED BY <1>8, <1>9, <1>10, <1>11, <1>12, <1>13, <1>14, <1>15, <1>16, <1>17, <1>18, <1>19, <1>20, <1>21
        DEF Step, Reads, Returns

\* A verdict whose evidence was just read is settled.
LEMMA SettleIsUnspoilt ==
    ASSUME KeptInv, UnspoiltInv, NEW p \in Processes, Running(p), run[p].at \in {"lookup", "record"},
           NEW candidate, Settle(p, candidate), \A id \in Evidence(candidate) : VerifiedOrNone(id)
    PROVE  UnspoiltOf(run'[p], store, damaged)
<1> DEFINE c == run[p]
           d == run'[p]
           n == Len(run[p].found)
<1>1. CampaignTyped(c) /\ CampaignsTyped /\ UnspoiltOf(c, store, damaged)
  BY CampaignAt DEF UnspoiltInv
<1>2. SettledWith(c, d, candidate)
  BY <1>1, SettleMoves
<1>3. d.found = Append(c.found, candidate) /\ d.spoiltAtStart = c.spoiltAtStart /\ d.at # "verify"
  BY <1>2 DEF SettledWith
<1>4. /\ IsSequence(c.found) /\ IsSequence(d.found) /\ n \in Nat /\ Len(d.found) = n + 1
      /\ d.found[n + 1] = candidate /\ \A i \in 1..n : d.found[i] = c.found[i]
  BY <1>1, <1>3, AppendSequence DEF CampaignTyped
<1>5. DOMAIN c.found = 1..n /\ DOMAIN d.found = 1..(n + 1)
  BY <1>4, SequenceTyped
<1>6. \A id \in Evidence(candidate) \ {NoArtifact} : id \in DOMAIN store /\ id \notin c.spoiltAtStart
  BY <1>1 DEF VerifiedOrNone, Verified, Intact, UnspoiltOf
<1> HIDE DEF c, d, n
<1>7. ASSUME NEW i \in 1..(n + 1), NEW id \in Evidence(d.found[i]) \ {NoArtifact}
      PROVE  id \in DOMAIN store /\ id \notin c.spoiltAtStart
  <2>1. CASE i = n + 1
    BY <1>4, <1>6, <1>7, <2>1
  <2>2. CASE i # n + 1
    <3>1. i \in 1..n
      BY <1>4, <1>7, <2>2
    <3> QED BY <1>1, <1>4, <1>5, <1>7, <3>1 DEF UnspoiltOf
  <2> QED BY <2>1, <2>2
<1>8. UnspoiltOf(d, store, damaged)
  BY <1>1, <1>3, <1>5, <1>7 DEF UnspoiltOf
<1> QED BY <1>8 DEF d

\* The next artifact is verified, or the first is about to be.
LEMMA ReadsUnspoilt ==
    ASSUME KeptInv, UnspoiltInv, NEW p \in Processes, Reads(p)
    PROVE  UnspoiltOf(run'[p], store, damaged)
<1> DEFINE c == run[p]
           d == run'[p]
<1>1. /\ Running(p) /\ c.at \in {"reread", "verify"} /\ d.at = "verify" /\ SameButPlace(c, d)
      /\ IF c.at = "reread" THEN d.verified = 0 /\ d.spoiltAtEnd = damaged
         ELSE d.verified = c.verified + 1 /\ d.spoiltAtEnd = c.spoiltAtEnd
  BY ReadsMove
<1>2. UnspoiltOf(c, store, damaged)
  BY <1>1 DEF UnspoiltInv
<1>3. c.at = "verify" => VerifiedOrNone(ChainOf(c)[c.verified + 1])
  <2>1. Chain(p) = ChainOf(c)
    BY DEF Chain, ChainOf, SnapshotId, ReportId
  <2>2. c.at = "verify" => VerifiedOrNone(Chain(p)[c.verified + 1])
    BY DEF Reads, VerifyNext, ReadReport
  <2> HIDE DEF c
  <2> QED BY <2>1, <2>2
<1> HIDE DEF c, d
<1>4. ChainOf(d) = ChainOf(c) /\ d.found = c.found /\ d.spoiltAtStart = c.spoiltAtStart
  BY <1>1 DEF ChainOf, SameButPlace
<1>5. CASE c.at = "reread"
  <2>1. \A k \in 1..0 : FALSE
    OBVIOUS
  <2> QED BY <1>1, <1>2, <1>4, <1>5, <2>1 DEF UnspoiltOf, d
<1>6. CASE c.at = "verify"
  <2> DEFINE n == c.verified
             ok(k) == \/ ChainOf(c)[k] = NoArtifact
                      \/ ChainOf(c)[k] \in DOMAIN store /\ ChainOf(c)[k] \notin c.spoiltAtEnd
  <2>1. /\ n \in Nat /\ c.spoiltAtEnd \subseteq damaged /\ c.spoiltAtStart \subseteq c.spoiltAtEnd
        /\ \A k \in 1..n : ok(k)
    BY <1>2, <1>6 DEF UnspoiltOf
  <2>2. ok(n + 1)
    BY <1>3, <1>6, <2>1 DEF VerifiedOrNone, Verified, Intact
  <2>3. d.verified = n + 1 /\ d.spoiltAtEnd = c.spoiltAtEnd
    BY <1>1, <1>6
  <2> HIDE DEF ok, n
  <2>4. n + 1 \in Nat /\ \A k \in 1..(n + 1) : ok(k)
    BY <2>1, <2>2
  <2>5. \A k \in 1..d.verified : \/ ChainOf(d)[k] = NoArtifact
                                 \/ ChainOf(d)[k] \in DOMAIN store /\ ChainOf(d)[k] \notin d.spoiltAtEnd
    BY <1>4, <2>3, <2>4 DEF ok
  <2>6. UnspoiltOf(d, store, damaged)
    BY <1>2, <1>4, <2>1, <2>3, <2>4, <2>5 DEF UnspoiltOf
  <2> QED BY <2>6 DEF d
<1> QED BY <1>1, <1>5, <1>6

\* Every step preserves UnspoiltInv.
LEMMA UnspoiltNext == KeptInv /\ UnspoiltInv /\ [Next]_vars => UnspoiltInv'
<1> SUFFICES ASSUME KeptInv, UnspoiltInv, [Next]_vars PROVE UnspoiltInv'
  OBVIOUS
<1>1. ASSUME NEW p \in Processes, Step(p) PROVE UnspoiltInv'
  <2>1. /\ Running(p) /\ run' = [run EXCEPT ![p] = run'[p]] /\ Grows(store, store') /\ damaged' = damaged
        /\ UnspoiltOf(run[p], store, damaged) /\ DOMAIN run = Processes
    BY <1>1, StepMoves, CampaignAt DEF UnspoiltInv
  <2>2. Running(p)' => UnspoiltOf(run'[p], store, damaged)
    <3>1. CASE run'[p] = Idle
      BY <3>1 DEF Running
    <3>2. CASE SameFindings(run[p], run'[p])
      BY <2>1, <3>2 DEF SameFindings, UnspoiltOf
    <3>3. CASE Reads(p)
      BY <3>3, ReadsUnspoilt
    <3>4. ASSUME NEW candidate, Settle(p, candidate), run[p].at \in {"lookup", "record"},
                 \A id \in Evidence(candidate) : VerifiedOrNone(id)
          PROVE  UnspoiltOf(run'[p], store, damaged)
      BY <2>1, <3>4, SettleIsUnspoilt
    <3> QED BY <1>1, <3>1, <3>2, <3>3, <3>4, StepMoves
  <2>3. ASSUME NEW q \in Processes, Running(q)' PROVE UnspoiltOf(run'[q], store, damaged)
    <3>1. CASE q = p
      BY <2>2, <2>3, <3>1
    <3>2. CASE q # p
      BY <2>1, <2>3, <3>2 DEF UnspoiltInv, Running
    <3> QED BY <3>1, <3>2
  <2>4. ASSUME NEW q \in Processes, Running(q)' PROVE UnspoiltOf(run'[q], store', damaged')
    <3>1. UnspoiltOf(run'[q], store, damaged) /\ damaged \subseteq damaged'
      BY <2>1, <2>3, <2>4
    <3> QED BY <2>1, <3>1, UnspoiltGrows
  <2> QED BY <2>4 DEF UnspoiltInv
<1>2. ASSUME NEW p \in Processes, Start(p) PROVE UnspoiltInv'
  <2>1. UNCHANGED <<store, damaged>>
    BY <1>2 DEF Start
  <2>2. ASSUME NEW q \in Processes, Running(q)' PROVE UnspoiltOf(run'[q], store, damaged)
    <3>1. CASE q = p
      <4>1. run'[q].spoiltAtStart = damaged /\ run'[q].found = <<>> /\ run'[q].at = "lookup"
        BY <1>2, <3>1, StartMoves
      <4>2. DOMAIN run'[q].found = {}
        BY <4>1
      <4> QED BY <4>1, <4>2 DEF UnspoiltOf
    <3>2. CASE q # p
      <4>1. Running(q)
        BY <1>2, <2>2, <3>2, StartMoves DEF Running
      <4>2. UnspoiltOf(run[q], store, damaged)
        BY <4>1 DEF UnspoiltInv
      <4>3. /\ run'[q].at = run[q].at /\ run'[q].found = run[q].found
            /\ run'[q].campaign = run[q].campaign /\ run'[q].verified = run[q].verified
            /\ run'[q].spoiltAtStart = run[q].spoiltAtStart
            /\ run'[q].spoiltAtEnd = run[q].spoiltAtEnd
        BY <1>2, <3>2, <4>1, StartMoves
      <4>4. ChainOf(run'[q]) = ChainOf(run[q])
        BY <4>3 DEF ChainOf
      <4> QED BY <4>2, <4>3, <4>4 DEF UnspoiltOf
    <3> QED BY <3>1, <3>2
  <2> QED BY <2>1, <2>2 DEF UnspoiltInv
<1>3. ASSUME NEW id, Damage(id) PROVE UnspoiltInv'
  <2>1. UNCHANGED <<store, run>> /\ damaged \subseteq damaged' /\ Grows(store, store')
    BY <1>3 DEF Damage, Grows
  <2>2. ASSUME NEW q \in Processes, Running(q) PROVE UnspoiltOf(run[q], store', damaged')
    BY <2>1, <2>2, UnspoiltGrows DEF UnspoiltInv
  <2> QED BY <2>1, <2>2 DEF UnspoiltInv, Running
<1>4. CASE UNCHANGED vars
  BY <1>4 DEF vars, UnspoiltInv, Running
<1> QED BY <1>1, <1>2, <1>3, <1>4 DEF Next

\* A manifest appears when its campaign writes it.
LEMMA ManifestAppears ==
    ASSUME Next, NEW m \in DOMAIN store' \ DOMAIN store, m[1] = "manifest"
    PROVE  \E p \in Processes : WriteManifest(p) /\ m = ManifestId(p)
<1>1. ASSUME NEW id, NEW content, Writable(id, content), Stored(id, content) PROVE m = id
  BY <1>1, StoreGrows
<1>2. ASSUME NEW p \in Processes, Step(p), ~WriteManifest(p) PROVE FALSE
  <2>1. ASSUME NEW kind, NEW of PROVE Identity(kind, of)[1] = kind
    BY DEF Identity
  <2>2. m[1] = "manifest" /\ DOMAIN store' # DOMAIN store
    OBVIOUS
  <2>3. ~Stop(p) /\ ~Reuse(p) /\ ~StartFetch(p) /\ ~Ask(p) /\ ~ReadReport(p) /\ ~VerifyNext(p)
      /\ ~ReadManifest(p)
    BY <2>2 DEF Stop, Reuse, StartFetch, Ask, ReadReport, VerifyNext, ReadManifest
  <2>4. ~WriteRaw(p)
    BY <1>1, <2>1, <2>2 DEF WriteRaw, Own
  <2>5. ~WriteNormalized(p)
    BY <1>1, <2>1, <2>2 DEF WriteNormalized, Own
  <2>6. ~AskCalendar(p)
    BY <1>1, <2>1, <2>2 DEF AskCalendar, Own
  <2>7. ~WriteQuarantine(p)
    <3> DEFINE bundle == [kind |-> "quarantine", symbol |-> Symbol(p), raw |-> Own(p, "raw"),
                          normalized |-> Dataset(p), issues |-> Judgement(p).issues,
                          missing |-> Judgement(p).missing, unexpected |-> Judgement(p).unexpected]
    <3>1. WriteQuarantine(p) => Writable(Own(p, "quarantine"), bundle)
                                /\ Stored(Own(p, "quarantine"), bundle)
      BY DEF WriteQuarantine
    <3> HIDE DEF bundle
    <3> QED BY <1>1, <2>1, <2>2, <3>1 DEF Own
  <2>8. ~WriteRecord(p)
    BY <1>1, <2>1, <2>2 DEF WriteRecord, Own
  <2>9. ~Freeze(p) /\ ~WriteReport(p)
    BY <1>1, <2>1, <2>2 DEF Freeze, WriteReport, SnapshotId, ReportId
  <2> QED BY <1>2, <2>3, <2>4, <2>5, <2>6, <2>7, <2>8, <2>9 DEF Step
<1>3. PICK p \in Processes : WriteManifest(p)
  BY <1>2 DEF Next, Start, Damage
<1>4. m = ManifestId(p)
  <2> DEFINE manifest == Manifest(p)
  <2>1. Writable(ManifestId(p), manifest) /\ Stored(ManifestId(p), manifest)
    BY <1>3 DEF WriteManifest
  <2> HIDE DEF manifest
  <2> QED BY <1>1, <2>1
<1> QED BY <1>3, <1>4

\* What the manifest of a campaign that has verified its chain rests on.
LEMMA VerifiedChain ==
    ASSUME KeptInv, UnspoiltInv, NEW p \in Processes, WriteManifest(p)
    PROVE  /\ Running(p) /\ run[p].spoiltAtStart \subseteq run[p].spoiltAtEnd
           /\ SnapshotId(p) \in DOMAIN store \ run[p].spoiltAtEnd
           /\ ReportId(p) \in DOMAIN store \ run[p].spoiltAtEnd
           /\ \A i \in DOMAIN run[p].found :
                 /\ \A id \in {run[p].found[i].raw, run[p].found[i].normalized} \ {NoArtifact} :
                       id \in DOMAIN store \ run[p].spoiltAtEnd
                 /\ \A id \in Evidence(run[p].found[i]) \ {NoArtifact} :
                       id \in DOMAIN store \ run[p].spoiltAtStart
<1> DEFINE c == run[p]
<1>1. c.at = "verify" /\ Running(p) /\ c.verified = Len(Chain(p))
  BY PlacedIsRunning DEF WriteManifest
<1>2. Chain(p) = ChainOf(c)
  BY DEF Chain, ChainOf, SnapshotId, ReportId
<1>3. UnspoiltOf(c, store, damaged) /\ IsSequence(c.found)
  BY <1>1, CampaignAt DEF UnspoiltInv
<1> HIDE DEF c
<1>4. /\ c.spoiltAtStart \subseteq c.spoiltAtEnd
      /\ \A k \in 1..Len(ChainOf(c)) :
            \/ ChainOf(c)[k] = NoArtifact
            \/ ChainOf(c)[k] \in DOMAIN store \ c.spoiltAtEnd
      /\ \A i \in DOMAIN c.found : \A id \in Evidence(c.found[i]) \ {NoArtifact} :
            id \in DOMAIN store \ c.spoiltAtStart
  BY <1>1, <1>2, <1>3 DEF UnspoiltOf
<1>5. Identity("snapshot", c.campaign) # NoArtifact /\ Identity("report", c.campaign) # NoArtifact
  BY DEF Identity, NoArtifact
<1>6. /\ Identity("snapshot", c.campaign) \in DOMAIN store \ c.spoiltAtEnd
      /\ Identity("report", c.campaign) \in DOMAIN store \ c.spoiltAtEnd
  <2>1. /\ 1 \in 1..Len(ChainOf(c)) /\ 2 \in 1..Len(ChainOf(c))
        /\ ChainOf(c)[1] = Identity("snapshot", c.campaign)
        /\ ChainOf(c)[2] = Identity("report", c.campaign)
    BY <1>3, ChainHolds
  <2> QED BY <1>4, <1>5, <2>1
<1>7. ASSUME NEW i \in DOMAIN c.found,
             NEW id \in {c.found[i].raw, c.found[i].normalized} \ {NoArtifact}
      PROVE  id \in DOMAIN store \ c.spoiltAtEnd
  <2>1. \E k \in 1..Len(ChainOf(c)) : ChainOf(c)[k] = id
    BY <1>3, <1>7, ChainHolds
  <2> QED BY <1>4, <1>7, <2>1
<1> QED BY <1>1, <1>4, <1>6, <1>7 DEF c, SnapshotId, ReportId

\* When a manifest appears, everything it binds is on disk; nothing of it was damaged
\* when its campaign started, and no part of the chain it verifies when it had its report;
\* for any campaigns at once, answers and damage (artifacts.py write_universe_manifest).
THEOREM ManifestClosed == Spec => ManifestIsClosed
<1> DEFINE Closed(m) ==
        \E p \in Processes :
            LET manifest == store'[m]
                verdicts == ToSet(manifest.candidates)
                chain == ({manifest.snapshot, manifest.report} \cup {c.raw : c \in verdicts}
                            \cup {c.normalized : c \in verdicts}) \ {NoArtifact}
                bound == chain \cup ((UNION {Evidence(c) : c \in verdicts}) \ {NoArtifact})
            IN  /\ Running(p) /\ run[p].campaign = m[2]
                /\ bound \subseteq DOMAIN store
                /\ bound \cap run[p].spoiltAtStart = {}
                /\ chain \cap run[p].spoiltAtEnd = {}
                /\ Cardinality(manifest.versions) = 1
<1>1. KeptInv /\ UnspoiltInv /\ [Next]_vars =>
          [\A m \in DOMAIN store' \ DOMAIN store : m[1] = "manifest" => Closed(m)]_vars
  <2> SUFFICES ASSUME KeptInv, UnspoiltInv, Next, NEW m \in DOMAIN store' \ DOMAIN store,
                      m[1] = "manifest"
               PROVE  Closed(m)
    OBVIOUS
  <2>1. PICK p \in Processes : WriteManifest(p) /\ m = ManifestId(p)
    BY ManifestAppears
  <2> DEFINE found == run[p].found
             manifest == store'[m]
             verdicts == ToSet(manifest.candidates)
             chain == ({manifest.snapshot, manifest.report} \cup {c.raw : c \in verdicts}
                         \cup {c.normalized : c \in verdicts}) \ {NoArtifact}
             bound == chain \cup ((UNION {Evidence(c) : c \in verdicts}) \ {NoArtifact})
  <2>2. manifest = Manifest(p)
    <3> DEFINE written == Manifest(p)
    <3>1. Writable(m, written) /\ Stored(m, written)
      BY <2>1 DEF WriteManifest
    <3> HIDE DEF written
    <3>2. store'[m] = written
      BY <3>1, StoreGrows
    <3> QED BY <3>2 DEF written
  <2> HIDE DEF manifest
  <2>3. /\ manifest.snapshot = SnapshotId(p) /\ manifest.report = ReportId(p)
        /\ manifest.candidates = found
        /\ manifest.versions = {found[i].version : i \in DOMAIN found}
    BY <2>2 DEF Manifest
  <2>4. verdicts = {found[i] : i \in DOMAIN found}
    BY <2>3 DEF ToSet
  <2>5. m[2] = run[p].campaign
    BY <2>1 DEF ManifestId, Identity
  <2>6. /\ Running(p) /\ run[p].spoiltAtStart \subseteq run[p].spoiltAtEnd
        /\ SnapshotId(p) \in DOMAIN store \ run[p].spoiltAtEnd
        /\ ReportId(p) \in DOMAIN store \ run[p].spoiltAtEnd
        /\ \A c \in verdicts :
              /\ \A id \in {c.raw, c.normalized} \ {NoArtifact} : id \in DOMAIN store \ run[p].spoiltAtEnd
              /\ \A id \in Evidence(c) \ {NoArtifact} : id \in DOMAIN store \ run[p].spoiltAtStart
    BY <2>1, <2>4, VerifiedChain
  <2> HIDE DEF verdicts
  <2>7. \A id \in chain : id \in DOMAIN store \ run[p].spoiltAtEnd
    BY <2>3, <2>6
  <2>8. \A id \in bound : id \in DOMAIN store \ run[p].spoiltAtStart
    BY <2>6, <2>7
  <2>9. Cardinality(manifest.versions) = 1
    <3>1. CampaignTyped(run[p]) /\ run[p].at = "verify"
      BY <2>1, <2>6, CampaignAt DEF WriteManifest
    <3>2. 1 \in DOMAIN found
      BY <2>6, <3>1, CampaignAt, PoolLength DEF CampaignTyped, EndPlaces
    <3>3. \A i \in DOMAIN found : found[i].version = run[p].version
      BY <3>1 DEF CampaignTyped, VerdictOf
    <3>4. manifest.versions = {run[p].version}
      BY <2>3, <3>2, <3>3
    <3> QED BY <3>4, FS_Singleton
  <2> HIDE DEF chain, bound
  <2>10. /\ bound \subseteq DOMAIN store /\ bound \cap run[p].spoiltAtStart = {}
         /\ chain \cap run[p].spoiltAtEnd = {}
    BY <2>7, <2>8
  <2> QED BY <2>5, <2>6, <2>9, <2>10 DEF manifest, verdicts, chain, bound
<1>2. Init => UnspoiltInv
  BY DEF Init, UnspoiltInv, Running
<1> QED BY <1>1, <1>2, UnspoiltNext, KeptCorrect, PTL DEF Spec, ManifestIsClosed
=============================================================================
