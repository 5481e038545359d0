-------------------------- MODULE Gate1Seal_proofs --------------------------
(***************************************************************************)
(* Proofs about the Gate 1 journals and their seal, for any processes,      *)
(* sealers, revisions, research plans and artifact kinds: the chains stay   *)
(* intact, a manifest on disk is complete, and the report of a seal is true.*)
(*                                                                         *)
(* The journals: the lock file makes everything between its creation and    *)
(* its unlinking exclusive (LockOwnedInside), so what the second read saw   *)
(* still holds when the line is written (Prepared) and what was written is  *)
(* still the last line when it is reported (Landed).                       *)
(*                                                                         *)
(* The seal: an append that returned found its record at the end of the     *)
(* journal, so a sealer's records stand in the journal in the order of its  *)
(* plan, with other records between them perhaps (Aligned).  A journal as    *)
(* long as the plan then holds the plan and nothing else, which is what the *)
(* record counts of the manifest check.                                    *)
(***************************************************************************)
EXTENDS Gate1Seal, TLAPS, SequenceTheorems

-----------------------------------------------------------------------------
(* The append protocol of the journals (module Gate1Journal). *)

\* A writer about to write: the file has not changed since its second read.
Prepared(w) ==
    stage[w] = "write" =>
        /\ ~file[call[w].journal].torn
        /\ ~Names(file[call[w].journal].records, call[w].entry.id)
        /\ call[w].predecessor = Terminal(file[call[w].journal].records)

\* A writer about to report: its record is still the last one.
Landed(w) ==
    stage[w] = "unlock_ok" =>
        /\ ~file[call[w].journal].torn
        /\ AlreadyTerminal(call[w].journal, call[w].entry)

Inv ==
    /\ TypeOK
    /\ LockOwnedInside
    /\ ChainIntact
    /\ \A w \in Writer : Prepared(w) /\ Landed(w)

-----------------------------------------------------------------------------
\* The digest of a chain's last record covers an entry sequence, so the next
\* record's predecessor has the type of a digest.
LEMMA TerminalType ==
    ASSUME NEW rs \in Seq(Record)
    PROVE  Terminal(rs) \in Seq(Entry)
<1>1. CASE rs = << >>
  BY <1>1 DEF Terminal, Genesis
<1>2. CASE rs # << >>
  <2>1. rs[Len(rs)] \in Record
    BY <1>2
  <2>2. rs[Len(rs)].predecessor \in Seq(Entry) /\ rs[Len(rs)].entry \in Entry
    BY <2>1 DEF Record
  <2> QED
    BY <1>2, <2>2 DEF Terminal, DigestOf
<1> QED
  BY <1>1, <1>2

\* Appending a record with a fresh id and the terminal digest keeps a chain.
LEMMA ChainGrows ==
    ASSUME NEW rs \in Seq(Record), NEW r \in Record,
           Chained(rs), ~Names(rs, r.entry.id), r.predecessor = Terminal(rs)
    PROVE  Append(rs, r) \in Seq(Record) /\ Chained(Append(rs, r))
<1> DEFINE qs == Append(rs, r)
<1>1. /\ qs \in Seq(Record) /\ Len(qs) = Len(rs) + 1 /\ Len(rs) \in Nat
      /\ DOMAIN qs = 1 .. Len(rs) + 1 /\ DOMAIN rs = 1 .. Len(rs)
      /\ qs[Len(rs) + 1] = r
      /\ \A i \in 1 .. Len(rs) : qs[i] = rs[i]
  OBVIOUS
<1>2. ASSUME NEW i \in DOMAIN qs
      PROVE  qs[i].predecessor = IF i = 1 THEN Genesis ELSE DigestOf(qs[i - 1])
  <2>1. CASE i \in DOMAIN rs
    <3>1. i # 1 => i - 1 \in 1 .. Len(rs)
      BY <2>1, <1>1
    <3>2. qs[i] = rs[i] /\ (i # 1 => qs[i - 1] = rs[i - 1])
      BY <3>1, <2>1, <1>1
    <3>3. rs[i].predecessor = IF i = 1 THEN Genesis ELSE DigestOf(rs[i - 1])
      BY <2>1 DEF Chained
    <3> QED
      BY <3>2, <3>3
  <2>2. CASE i = Len(rs) + 1
    <3>1. CASE rs = << >>
      BY <3>1, <2>2, <1>1 DEF Terminal
    <3>2. CASE rs # << >>
      <4>1. Len(rs) \in 1 .. Len(rs) /\ i # 1 /\ i - 1 = Len(rs)
        BY <3>2, <2>2, <1>1
      <4>2. qs[i - 1] = rs[Len(rs)] /\ qs[i] = r
        BY <4>1, <2>2, <1>1
      <4> QED
        BY <3>2, <4>1, <4>2 DEF Terminal
    <3> QED
      BY <3>1, <3>2
  <2> QED
    BY <2>1, <2>2, <1>1
<1>3. ASSUME NEW i \in DOMAIN qs, NEW k \in DOMAIN qs, qs[i].entry.id = qs[k].entry.id
      PROVE  i = k
  <2>1. \A n \in 1 .. Len(rs) : rs[n].entry.id # r.entry.id
    BY <1>1 DEF Names
  <2>2. i \in 1 .. Len(rs) => k \in 1 .. Len(rs)
    BY <2>1, <1>1, <1>3
  <2>3. k \in 1 .. Len(rs) => i \in 1 .. Len(rs)
    BY <2>1, <1>1, <1>3
  <2>4. CASE i \in 1 .. Len(rs) /\ k \in 1 .. Len(rs)
    BY <2>4, <1>1, <1>3 DEF Chained
  <2> QED
    BY <2>2, <2>3, <2>4, <1>1
<1> QED
  BY <1>1, <1>2, <1>3 DEF Chained

\* A line written after the second read leaves every journal a chain.
LEMMA WriteKeepsChains ==
    ASSUME Inv, NEW w \in Writer, WriteLine(w)
    PROVE  /\ file' \in [Journal -> [records : Seq(Record), torn : BOOLEAN]]
           /\ ChainIntact'
<1> DEFINE c == call[w]
           r == [entry |-> c.entry, predecessor |-> c.predecessor]
<1>1. c \in Call
  BY DEF Inv, TypeOK, WriteLine, Rest
<1>2. r \in Record /\ c.journal \in Journal
  BY <1>1 DEF Call, Record
<1>3. /\ ~Names(file[c.journal].records, r.entry.id)
      /\ r.predecessor = Terminal(file[c.journal].records)
      /\ Chained(file[c.journal].records)
      /\ file[c.journal].records \in Seq(Record)
  BY <1>2 DEF Inv, Prepared, WriteLine, ChainIntact, TypeOK
<1>4. /\ Append(file[c.journal].records, r) \in Seq(Record)
      /\ Chained(Append(file[c.journal].records, r))
  BY <1>2, <1>3, ChainGrows
<1>5. file' = [file EXCEPT ![c.journal].records = Append(file[c.journal].records, r)]
  BY DEF WriteLine
<1>6. file' \in [Journal -> [records : Seq(Record), torn : BOOLEAN]]
  BY <1>2, <1>4, <1>5 DEF Inv, TypeOK
<1>7. ASSUME NEW j \in Journal PROVE Chained(file'[j].records)
  <2>1. file'[j].records = IF j = c.journal THEN Append(file[c.journal].records, r)
                           ELSE file[j].records
    BY <1>5, <1>2 DEF Inv, TypeOK
  <2> QED
    BY <2>1, <1>4 DEF Inv, ChainIntact
<1> QED
  BY <1>6, <1>7 DEF ChainIntact

THEOREM InitInv == Init => Inv
  BY NoneAssumption DEF Init, Inv, TypeOK, LockOwnedInside, ChainIntact, Chained, Prepared,
     Landed, Rest, Inside, Record

\* Every step of every writer keeps the invariant: one step per action.
LEMMA StepInv == Inv /\ [Next]_journalVars => Inv'
<1> SUFFICES ASSUME Inv, [Next]_journalVars PROVE Inv'
  OBVIOUS
<1> USE NoneAssumption, CallAssumption
<1> USE DEF Inv, TypeOK, LockOwnedInside, MoveTo, Leave, Rest, Inside
<1>1. CASE UNCHANGED journalVars
  <2>1. /\ file' = file /\ lock' = lock /\ stage' = stage /\ call' = call
        /\ reported' = reported
    BY <1>1 DEF journalVars
  <2>2. TypeOK' /\ LockOwnedInside' /\ ChainIntact'
    BY <2>1 DEF ChainIntact
  <2>3. \A v \in Writer : Prepared(v)' /\ Landed(v)'
    BY <2>1 DEF Prepared, Landed, AlreadyTerminal
  <2> QED
    BY <2>2, <2>3
<1>2. ASSUME NEW w \in Writer, NEW j \in Journal, NEW e \in Entry, ReturnExisting(w, j, e)
      PROVE  Inv'
  <2>1. file' = file /\ call' = call /\ lock' = lock
    BY <1>2 DEF ReturnExisting
  <2>2. TypeOK' /\ LockOwnedInside'
    BY <1>2 DEF ReturnExisting
  <2>3. ChainIntact'
    BY <2>1 DEF ChainIntact
  <2>4. \A v \in Writer : stage'[v] \in Inside => stage'[v] = stage[v]
    BY <1>2 DEF ReturnExisting
  <2>5. \A v \in Writer : Prepared(v)' /\ Landed(v)'
    BY <2>1, <2>4 DEF Prepared, Landed, AlreadyTerminal
  <2> QED
    BY <2>2, <2>3, <2>5
<1>3. ASSUME NEW w \in Writer, RaiseBeforeLock(w)
      PROVE  Inv'
  BY <1>3 DEF RaiseBeforeLock, ChainIntact, Prepared, Landed, AlreadyTerminal
<1>4. ASSUME NEW w \in Writer, NEW j \in Journal, NEW e \in Entry, GoToLock(w, j, e)
      PROVE  Inv'
  <2>1. [journal |-> j, entry |-> e, predecessor |-> Genesis] \in Call
    BY DEF Call, Genesis
  <2> QED
    BY <1>4, <2>1 DEF GoToLock, ChainIntact, Prepared, Landed, AlreadyTerminal
<1>5. ASSUME NEW w \in Writer, AcquireLock(w)
      PROVE  Inv'
  BY <1>5 DEF AcquireLock, LockAvailable, ChainIntact, Prepared, Landed, AlreadyTerminal
<1>6. ASSUME NEW w \in Writer, RaiseAtLock(w)
      PROVE  Inv'
  BY <1>6 DEF RaiseAtLock, ChainIntact, Prepared, Landed, AlreadyTerminal
<1>7. ASSUME NEW w \in Writer, ReadUnderLock(w)
      PROVE  Inv'
  <2>1. call[w] \in Call /\ call[w].journal \in Journal
    BY <1>7 DEF ReadUnderLock, Call
  <2>2. Terminal(file[call[w].journal].records) \in Seq(Entry)
    BY <2>1, TerminalType
  <2>3. call'[w] \in Call /\ call'[w].journal = call[w].journal
        /\ call'[w].entry = call[w].entry
        /\ call'[w].predecessor = Terminal(file[call[w].journal].records)
    BY <1>7, <2>1, <2>2 DEF ReadUnderLock, Call
  <2>4. \A v \in Writer : v # w => call'[v] = call[v] /\ stage'[v] = stage[v]
    BY <1>7 DEF ReadUnderLock
  <2>5. TypeOK'
    BY <1>7, <2>3 DEF ReadUnderLock
  <2>6. LockOwnedInside' /\ ChainIntact'
    BY <1>7 DEF ReadUnderLock, ChainIntact
  <2>7. \A v \in Writer : Prepared(v)' /\ Landed(v)'
    BY <1>7, <2>3, <2>4 DEF ReadUnderLock, StillFresh, Readable, Prepared, Landed, AlreadyTerminal
  <2> QED
    BY <2>5, <2>6, <2>7
<1>8. ASSUME NEW w \in Writer, WriteLine(w)
      PROVE  Inv'
  <2>1. TypeOK' /\ LockOwnedInside' /\ ChainIntact'
    BY <1>8, WriteKeepsChains DEF WriteLine
  <2>2. \A v \in Writer : Prepared(v)' /\ Landed(v)'
    BY <1>8 DEF WriteLine, Prepared, Landed
  <2> QED
    BY <2>1, <2>2
<1>9. ASSUME NEW w \in Writer, TearLine(w)
      PROVE  Inv'
  <2>1. call[w].journal \in Journal
    BY <1>9 DEF TearLine, Call
  <2>2. TypeOK' /\ LockOwnedInside'
    BY <1>9, <2>1 DEF TearLine
  <2>3. \A j \in Journal : file'[j].records = file[j].records
    BY <1>9, <2>1 DEF TearLine
  <2>4. ChainIntact'
    BY <2>3 DEF ChainIntact
  <2>5. \A v \in Writer : Prepared(v)' /\ Landed(v)'
    BY <1>9 DEF TearLine, Prepared, Landed
  <2> QED
    BY <2>2, <2>4, <2>5
<1>10. ASSUME NEW w \in Writer, VerifyLine(w)
       PROVE  Inv'
  BY <1>10 DEF VerifyLine, ChainIntact, Prepared, Landed, AlreadyTerminal, Readable
<1>11. ASSUME NEW w \in Writer, RaiseInside(w)
       PROVE  Inv'
  BY <1>11 DEF RaiseInside, ChainIntact, Prepared, Landed, AlreadyTerminal
<1>12. ASSUME NEW w \in Writer, Unlock(w)
       PROVE  Inv'
  <2>1. call[w] \in Call /\ call[w].journal \in Journal /\ call[w].entry \in Entry
    BY <1>12 DEF Unlock, Call
  <2> QED
    BY <1>12, <2>1 DEF Unlock, ChainIntact, Prepared, Landed, AlreadyTerminal
<1>13. ASSUME NEW w \in Writer, UnlockFails(w)
       PROVE  Inv'
  BY <1>13 DEF UnlockFails, ChainIntact, Prepared, Landed, AlreadyTerminal
<1>14. ASSUME NEW w \in Writer, Crash(w)
       PROVE  Inv'
  BY <1>14 DEF Crash, ChainIntact, Prepared, Landed, AlreadyTerminal
<1> QED
  BY <1>1, <1>2, <1>3, <1>4, <1>5, <1>6, <1>7, <1>8, <1>9, <1>10, <1>11, <1>12, <1>13, <1>14
     DEF Next, BeginAppend, AppendStep

\* The inductive invariant holds in every reachable state.
THEOREM InvCorrect == Spec => []Inv
<1>1. Init => Inv
  BY InitInv
<1>2. Inv /\ [Next]_journalVars => Inv'
  BY StepInv
<1> QED
  BY <1>1, <1>2, PTL DEF Spec

\* The lock file belongs to a process exactly while that process is inside
\* the locked part of append.
THEOREM LockOwnership == Spec => []LockOwnedInside
  BY InvCorrect, PTL DEF Inv

\* No interleaving, torn line, failed append or crash breaks a journal's chain
\* or puts an id into it twice.
THEOREM ChainsIntact == Spec => []ChainIntact
  BY InvCorrect, PTL DEF Inv

\* Every reachable state of the append protocol is well typed.
THEOREM TypeCorrect == Spec => []TypeOK
  BY InvCorrect, PTL DEF Inv

-----------------------------------------------------------------------------
\* Refinement: WriteLine grows the log, TearLine breaks it, Unlock after a
\* verified append and ReturnExisting report, every other step stutters.
LEMMA EntriesGrow ==
    ASSUME NEW rs \in Seq(Record), NEW r \in Record
    PROVE  EntriesOf(Append(rs, r)) = Append(EntriesOf(rs), r.entry)
<1> DEFINE qs == Append(rs, r)
<1>1. /\ Len(rs) \in Nat /\ DOMAIN rs = 1 .. Len(rs) /\ DOMAIN qs = 1 .. Len(rs) + 1
      /\ qs[Len(rs) + 1] = r /\ \A i \in 1 .. Len(rs) : qs[i] = rs[i]
  OBVIOUS
<1>2. r.entry \in Entry /\ \A i \in 1 .. Len(rs) : rs[i].entry \in Entry
  <2>1. \A i \in 1 .. Len(rs) : rs[i] \in Record
    BY <1>1
  <2> QED
    BY <2>1 DEF Record
<1>3. EntriesOf(rs) \in Seq(Entry) /\ Len(EntriesOf(rs)) = Len(rs)
  BY <1>1, <1>2 DEF EntriesOf
<1>4. /\ Append(EntriesOf(rs), r.entry) \in Seq(Entry)
      /\ Len(Append(EntriesOf(rs), r.entry)) = Len(rs) + 1
      /\ Append(EntriesOf(rs), r.entry)[Len(rs) + 1] = r.entry
      /\ \A i \in 1 .. Len(rs) : Append(EntriesOf(rs), r.entry)[i] = EntriesOf(rs)[i]
  BY <1>2, <1>3
<1>5. EntriesOf(qs) \in Seq(Entry) /\ Len(EntriesOf(qs)) = Len(rs) + 1
  BY <1>1, <1>2 DEF EntriesOf
<1>6. \A i \in 1 .. Len(rs) + 1 : EntriesOf(qs)[i] = Append(EntriesOf(rs), r.entry)[i]
  BY <1>1, <1>4 DEF EntriesOf
<1> QED
  BY <1>4, <1>5, <1>6

\* An entry at the end of a journal may be reported.
LEMMA MayReport ==
    ASSUME Inv, NEW j \in Journal, NEW e \in Entry,
           ~file[j].torn, AlreadyTerminal(j, e),
           file' = file, reported' = reported \cup {<<j, e>>}
    PROVE  Log!Next
<1> DEFINE rs == file[j].records
<1>1. rs \in Seq(Record) /\ rs # << >> /\ rs[Len(rs)].entry = e
  BY DEF Inv, TypeOK, AlreadyTerminal
<1>2. DOMAIN EntriesOf(rs) = 1 .. Len(rs) /\ Len(rs) \in 1 .. Len(rs) /\ Len(rs) \in Nat
  BY <1>1 DEF EntriesOf
<1>3. EntriesOf(rs) \in Seq(Entry) /\ Len(EntriesOf(rs)) = Len(rs)
  <2>1. \A i \in 1 .. Len(rs) : rs[i] \in Record
    BY <1>1
  <2>2. \A i \in 1 .. Len(rs) : rs[i].entry \in Entry
    BY <2>1 DEF Record
  <2> QED
    BY <1>1, <1>2, <2>2 DEF EntriesOf
<1>4. EntriesOf(rs) # << >> /\ EntriesOf(rs)[Len(EntriesOf(rs))] = e
  <2>1. EntriesOf(rs)[Len(rs)] = rs[Len(rs)].entry
    BY <1>2 DEF EntriesOf
  <2>2. Len(rs) # 0
    BY <1>1
  <2> QED
    BY <1>1, <1>3, <2>1, <2>2
<1>5. Log!Report(j)
  BY <1>4 DEF Log!Report
<1> QED
  BY <1>5 DEF Log!Next

\* A step that leaves the files and the reports alone stutters in the log.
LEMMA StutterStep ==
    ASSUME file' = file, reported' = reported
    PROVE  [Log!Next]_(Log!vars)
  BY DEF Log!vars

LEMMA StepRefines == Inv /\ [Next]_journalVars => [Log!Next]_(Log!vars)
<1> SUFFICES ASSUME Inv, [Next]_journalVars PROVE [Log!Next]_(Log!vars)
  OBVIOUS
<1>1. CASE UNCHANGED journalVars
  BY <1>1, StutterStep DEF journalVars
<1>2. ASSUME NEW w \in Writer, NEW j \in Journal, NEW e \in Entry, ReturnExisting(w, j, e)
      PROVE  Log!Next
  BY <1>2, MayReport DEF ReturnExisting, Readable
<1>3. ASSUME NEW w \in Writer, WriteLine(w)
      PROVE  Log!Next
  <2> DEFINE c == call[w]
             r == [entry |-> c.entry, predecessor |-> c.predecessor]
             rs == file[c.journal].records
  <2>1. c \in Call
    BY <1>3 DEF Inv, TypeOK, WriteLine, Rest
  <2>2. r \in Record /\ r.entry = c.entry /\ c.entry \in Entry /\ c.journal \in Journal
        /\ rs \in Seq(Record)
    BY <2>1 DEF Call, Record, Inv, TypeOK
  <2>3. ~file[c.journal].torn /\ ~Names(rs, c.entry.id)
    BY <1>3 DEF WriteLine, Inv, Prepared
  <2>4. file' = [file EXCEPT ![c.journal].records = Append(rs, r)]
    BY <1>3 DEF WriteLine
  <2>5. \A i \in DOMAIN EntriesOf(rs) : EntriesOf(rs)[i].id # c.entry.id
    BY <2>3 DEF Names, EntriesOf
  <2>6. \A j \in Journal :
          /\ EntriesOf(file'[j].records) = IF j = c.journal
               THEN Append(EntriesOf(rs), c.entry) ELSE EntriesOf(file[j].records)
          /\ file'[j].torn = file[j].torn
    <3>1. TAKE j \in Journal
    <3>2. file'[j].torn = file[j].torn
          /\ file'[j].records = IF j = c.journal THEN Append(rs, r) ELSE file[j].records
      BY <2>2, <2>4 DEF Inv, TypeOK
    <3>3. EntriesOf(Append(rs, r)) = Append(EntriesOf(rs), c.entry)
      BY <2>2, EntriesGrow
    <3> QED
      BY <3>2, <3>3
  <2>7. Log!Grow(c.journal, c.entry)
    BY <1>3, <2>2, <2>3, <2>5, <2>6 DEF Log!Grow, WriteLine
  <2>8. c.entry \in Log!Entry
    BY <2>2 DEF Entry, Log!Entry
  <2> QED
    BY <2>2, <2>7, <2>8 DEF Log!Next
<1>4. ASSUME NEW w \in Writer, TearLine(w)
      PROVE  Log!Next
  <2>1. PICK j \in Journal : j = call[w].journal
    BY <1>4 DEF TearLine, Inv, TypeOK, Rest, Call
  <2>2. ~file[j].torn
    BY <1>4, <2>1 DEF TearLine, Inv, Prepared
  <2>3. \A k \in Journal :
          /\ file'[k].records = file[k].records
          /\ file'[k].torn = IF k = j THEN TRUE ELSE file[k].torn
    BY <1>4, <2>1 DEF TearLine, Inv, TypeOK
  <2>4. Log!Tear(j)
    <3>1. [k \in Journal |-> EntriesOf(file'[k].records)] = [k \in Journal |-> EntriesOf(file[k].records)]
      BY <2>3
    <3>2. [k \in Journal |-> file'[k].torn]
            = [[k \in Journal |-> file[k].torn] EXCEPT ![j] = TRUE]
      BY <2>3
    <3>3. ~[k \in Journal |-> file[k].torn][j] /\ reported' = reported
      BY <1>4, <2>2 DEF TearLine
    <3> QED
      BY <3>1, <3>2, <3>3 DEF Log!Tear
  <2> QED
    BY <2>4 DEF Log!Next
<1>5. ASSUME NEW w \in Writer, Unlock(w)
      PROVE  [Log!Next]_(Log!vars)
  <2>1. CASE stage[w] = "unlock_ok"
    <3>1. call[w].journal \in Journal /\ call[w].entry \in Entry
      BY <2>1 DEF Inv, TypeOK, Rest, Call
    <3>2. /\ ~file[call[w].journal].torn
          /\ AlreadyTerminal(call[w].journal, call[w].entry)
      BY <2>1 DEF Inv, Landed
    <3> QED
      BY <1>5, <2>1, <3>1, <3>2, MayReport DEF Unlock
  <2>2. CASE stage[w] # "unlock_ok"
    BY <1>5, <2>2, StutterStep DEF Unlock
  <2> QED
    BY <2>1, <2>2
<1>6. ASSUME NEW w \in Writer,
             \/ RaiseBeforeLock(w) \/ RaiseAtLock(w) \/ AcquireLock(w) \/ ReadUnderLock(w)
             \/ VerifyLine(w) \/ RaiseInside(w) \/ UnlockFails(w) \/ Crash(w)
      PROVE  [Log!Next]_(Log!vars)
  BY <1>6, StutterStep DEF RaiseBeforeLock, RaiseAtLock, AcquireLock, ReadUnderLock,
     VerifyLine, RaiseInside, UnlockFails, Crash
<1>7. ASSUME NEW w \in Writer, NEW j \in Journal, NEW e \in Entry, GoToLock(w, j, e)
      PROVE  [Log!Next]_(Log!vars)
  BY <1>7, StutterStep DEF GoToLock
<1> QED
  BY <1>1, <1>2, <1>3, <1>4, <1>5, <1>6, <1>7 DEF Next, BeginAppend, AppendStep

\* The step-by-step protocol implements the append-only log.
THEOREM Refinement == Spec => ImplementsAppendOnlyLog
<1>1. Init => Log!Init
  BY DEF Init, Log!Init, EntriesOf
<1>2. Inv /\ [Next]_journalVars => [Log!Next]_(Log!vars)
  BY StepRefines
<1> QED
  BY <1>1, <1>2, InvCorrect, PTL DEF Spec, ImplementsAppendOnlyLog, Log!Spec

-----------------------------------------------------------------------------
(* The seal over the journals (module Gate1Seal). *)

Held(j) == EntriesOf(file[j].records)

DistinctIds(s) == \A i, k \in DOMAIN s : s[i].id = s[k].id => i = k

\* The first k entries of a plan stand in s in their order: each at least as
\* far from the start, and from one another, as in the plan.
Aligned(s, plan, k) ==
    /\ \A i \in 1 .. k : \E p \in DOMAIN s : s[p] = plan[i]
    /\ \A i \in 1 .. k, p \in DOMAIN s : s[p] = plan[i] => p >= i
    /\ \A i, m \in 1 .. k, p, q \in DOMAIN s :
           i <= m /\ s[p] = plan[i] /\ s[q] = plan[m] => q - p >= m - i

\* A journal never loses an entry, and gets one at a time.
Grown(s, t) == t = s \/ \E e \in Entry : t = Append(s, e)

-----------------------------------------------------------------------------
SealRecord == [phase : Journal \cup PhaseNames, revision : Revision, next : Nat,
               states : [Journal -> Seq(Entry)], published : BOOLEAN]
SealType == seal \in [Writer -> SealRecord]

\* A sealer that fills a journal: what it has appended so far, and what the
\* append under way is about.
AppendOK(w) ==
    LET j    == seal[w].phase
        n    == seal[w].next
        plan == Planned(w, j)
    IN  j \in Journal =>
            /\ n \in 1 .. Len(plan) + 1
            /\ stage[w] \notin {"idle", "raised"} => n <= Len(plan)
            /\ Aligned(Held(j), plan, IF stage[w] = "returned" THEN n ELSE n - 1)
            /\ stage[w] \notin Rest => call[w].journal = j /\ call[w].entry = plan[n]

\* The state of a journal that was verified is still its beginning.
Verified(w, j) ==
    /\ IsPrefix(seal[w].states[j], Held(j))
    /\ Aligned(seal[w].states[j], Planned(w, j), Len(Planned(w, j)))

StatesOK(w) ==
    /\ seal[w].phase \in {"notes", "notes_write", "artifacts"}
           => \A j \in Journal : Verified(w, j)
    /\ \A i \in DOMAIN Phases : seal[w].phase = Phases[i]
           => \A k \in 1 .. i - 1 : Verified(w, Phases[k])

\* One sealer at a time fills the notes file, and it is whole afterwards.
NotesOK ==
    /\ \A w \in Writer : seal[w].phase = "notes_write"
           => notes = [research |-> ResearchBy(w), whole |-> FALSE]
    /\ \A w \in Writer : seal[w].phase = "artifacts" => OwnNotes(w)
    /\ \A v, w \in Writer :
           seal[v].phase = "notes_write" /\ seal[w].phase = "notes_write" => v = w

ArtifactsOK(w) ==
    seal[w].phase = "artifacts" =>
        /\ seal[w].next \in 1 .. Len(Kinds) + 1
        /\ \A k \in 1 .. seal[w].next - 1 : <<Kinds[k], ResearchBy(w)>> \in artifacts

OutsideIsIdle(w) == seal[w].phase \notin Journal => stage[w] = "idle"

ReportOK(w) ==
    /\ seal[w].published => seal[w].phase \in {"linked", "sealed"}
    /\ seal[w].phase \in {"linked", "sealed"} => ManifestOf(w) \in manifests

SealerOK(w) == /\ AppendOK(w) /\ StatesOK(w) /\ ArtifactsOK(w)
               /\ OutsideIsIdle(w) /\ ReportOK(w)

-----------------------------------------------------------------------------
(* Sequences *)

LEMMA AppendFacts ==
    ASSUME NEW s \in Seq(Entry), NEW e \in Entry
    PROVE  /\ Append(s, e) \in Seq(Entry)
           /\ Len(s) \in Nat /\ Len(Append(s, e)) = Len(s) + 1
           /\ DOMAIN s = 1 .. Len(s) /\ DOMAIN Append(s, e) = 1 .. Len(s) + 1
           /\ Append(s, e)[Len(s) + 1] = e
           /\ \A i \in 1 .. Len(s) : Append(s, e)[i] = s[i]
OBVIOUS

\* Another record of a new id moves nothing.
LEMMA AlignedGrows ==
    ASSUME NEW s \in Seq(Entry), NEW t, Grown(s, t), DistinctIds(t),
           NEW plan \in Seq(Entry), NEW k \in Nat, Aligned(s, plan, k)
    PROVE  Aligned(t, plan, k)
<1>1. CASE t = s
  BY <1>1
<1>2. ASSUME NEW e \in Entry, t = Append(s, e) PROVE Aligned(t, plan, k)
  <2>1. /\ Len(s) \in Nat /\ DOMAIN s = 1 .. Len(s) /\ DOMAIN t = 1 .. Len(s) + 1
        /\ t[Len(s) + 1] = e /\ \A i \in 1 .. Len(s) : t[i] = s[i]
    BY <1>2, AppendFacts
  <2>2. ASSUME NEW i \in 1 .. k, NEW p \in DOMAIN t, t[p] = plan[i]
        PROVE  p \in DOMAIN s /\ s[p] = plan[i]
    <3>1. PICK q \in DOMAIN s : s[q] = plan[i]
      BY DEF Aligned
    <3>2. q \in DOMAIN t /\ t[q] = t[p]
      BY <3>1, <2>1, <2>2
    <3>3. q = p
      BY <3>2, <2>2 DEF DistinctIds
    <3> QED BY <3>1, <3>3
  <2>3. \A i \in 1 .. k : \E p \in DOMAIN t : t[p] = plan[i]
    BY <2>1 DEF Aligned
  <2> QED BY <2>2, <2>3 DEF Aligned
<1> QED BY <1>1, <1>2 DEF Grown

\* A record found at the end of the journal is the next of the plan.
LEMMA AlignedAdvances ==
    ASSUME NEW s \in Seq(Entry), DistinctIds(s), s # << >>,
           NEW plan \in Seq(Entry), DistinctIds(plan),
           NEW k \in Nat, k + 1 \in DOMAIN plan,
           Aligned(s, plan, k), s[Len(s)] = plan[k + 1]
    PROVE  Aligned(s, plan, k + 1)
<1>1. /\ Len(s) \in Nat /\ Len(s) \in DOMAIN s /\ DOMAIN s = 1 .. Len(s)
      /\ DOMAIN plan = 1 .. Len(plan) /\ Len(plan) \in Nat
  OBVIOUS
<1>2. ASSUME NEW p \in DOMAIN s, s[p] = plan[k + 1] PROVE p = Len(s)
  BY <1>1, <1>2 DEF DistinctIds
<1>3. ASSUME NEW i \in 1 .. k, NEW p \in DOMAIN s, s[p] = plan[i]
      PROVE  Len(s) - p >= k + 1 - i
  <2>0. k \in 1 .. k /\ i <= k
    OBVIOUS
  <2>1. PICK q \in DOMAIN s : s[q] = plan[k]
    BY <2>0 DEF Aligned
  <2>2. q - p >= k - i
    <3>1. \A m \in 1 .. k, u, v \in DOMAIN s :
             i <= m /\ s[u] = plan[i] /\ s[v] = plan[m] => v - u >= m - i
      BY DEF Aligned
    <3> QED BY <1>3, <2>0, <2>1, <3>1
  <2>3. q # Len(s)
    <3>1. k \in DOMAIN plan /\ k # k + 1
      BY <1>1
    <3> QED BY <2>1, <3>1 DEF DistinctIds
  <2> QED BY <1>1, <2>2, <2>3
<1>4. Len(s) >= k + 1
  <2>1. CASE k = 0
    BY <2>1, <1>1
  <2>2. CASE k # 0
    <3>1. PICK q \in DOMAIN s : s[q] = plan[k]
      BY <2>2 DEF Aligned
    <3>2. q >= k
      BY <2>2, <3>1 DEF Aligned
    <3>3. Len(s) - q >= 1
      BY <1>3, <2>2, <3>1
    <3> QED BY <1>1, <3>2, <3>3
  <2> QED BY <2>1, <2>2
<1>5. \A i \in 1 .. k + 1 : i \in 1 .. k \/ i = k + 1
  OBVIOUS
<1>6. \A i \in 1 .. k + 1 : \E p \in DOMAIN s : s[p] = plan[i]
  BY <1>1, <1>5 DEF Aligned
<1>7. \A i \in 1 .. k + 1, p \in DOMAIN s : s[p] = plan[i] => p >= i
  BY <1>2, <1>4, <1>5 DEF Aligned
<1>8. ASSUME NEW i \in 1 .. k + 1, NEW m \in 1 .. k + 1, NEW p \in DOMAIN s, NEW q \in DOMAIN s,
             i <= m, s[p] = plan[i], s[q] = plan[m]
      PROVE  q - p >= m - i
  <2>1. CASE m \in 1 .. k
    <3>1. i \in 1 .. k
      BY <2>1, <1>8
    <3> QED BY <2>1, <3>1, <1>8 DEF Aligned
  <2>2. CASE m = k + 1 /\ i \in 1 .. k
    <3>1. q = Len(s)
      BY <2>2, <1>2, <1>8
    <3> QED BY <2>2, <3>1, <1>3, <1>8
  <2>3. CASE m = k + 1 /\ i = k + 1
    <3>1. q = Len(s) /\ p = Len(s)
      BY <2>3, <1>2, <1>8
    <3> QED BY <3>1, <2>3, <1>1
  <2> QED BY <2>1, <2>2, <2>3, <1>5
<1> QED BY <1>6, <1>7, <1>8 DEF Aligned

LEMMA AlignedApart ==
    ASSUME NEW s, NEW plan, NEW n, Aligned(s, plan, n),
           NEW i \in 1 .. n, NEW m \in 1 .. n, i <= m,
           NEW p \in DOMAIN s, NEW q \in DOMAIN s, s[p] = plan[i], s[q] = plan[m]
    PROVE  q - p >= m - i
BY DEF Aligned

\* As long as the plan and aligned with all of it, it is the plan.
LEMMA AlignedEverywhere ==
    ASSUME NEW s, NEW plan, NEW k \in Nat, DOMAIN s = 1 .. k, Aligned(s, plan, k),
           NEW i \in 1 .. k
    PROVE  s[i] = plan[i]
<1>1. k \in 1 .. k /\ i <= k
  OBVIOUS
<1>2. PICK p \in DOMAIN s : s[p] = plan[i]
  BY DEF Aligned
<1>3. PICK q \in DOMAIN s : s[q] = plan[k]
  BY <1>1 DEF Aligned
<1>4. p >= i
  BY <1>2 DEF Aligned
<1>5. q - p >= k - i
  BY <1>1, <1>2, <1>3, AlignedApart
<1>6. p = i
  BY <1>3, <1>4, <1>5
<1> QED BY <1>2, <1>6

LEMMA AlignedIsPlan ==
    ASSUME NEW s \in Seq(Entry), NEW plan \in Seq(Entry),
           Len(s) = Len(plan), Aligned(s, plan, Len(plan))
    PROVE  s = plan
<1>1. Len(plan) \in Nat /\ DOMAIN s = 1 .. Len(plan)
  OBVIOUS
<1>2. \A i \in 1 .. Len(plan) : s[i] = plan[i]
  BY <1>1, AlignedEverywhere
<1> QED BY <1>2

LEMMA PrefixMeans ==
    ASSUME NEW r \in Seq(Entry), NEW s \in Seq(Entry)
    PROVE  IsPrefix(r, s) <=> Len(r) <= Len(s) /\ \A i \in 1 .. Len(r) : r[i] = s[i]
<1>1. /\ SubSeq(r, 1, Len(r)) \in Seq(Entry) /\ Len(SubSeq(r, 1, Len(r))) = Len(r)
      /\ \A i \in 1 .. Len(r) : SubSeq(r, 1, Len(r))[i] = r[i]
  OBVIOUS
<1>2. CASE Len(r) <= Len(s)
  <2>1. /\ SubSeq(s, 1, Len(r)) \in Seq(Entry) /\ Len(SubSeq(s, 1, Len(r))) = Len(r)
        /\ \A i \in 1 .. Len(r) : SubSeq(s, 1, Len(r))[i] = s[i]
    BY <1>2
  <2>2. SubSeq(r, 1, Len(r)) = SubSeq(s, 1, Len(r)) <=> \A i \in 1 .. Len(r) : r[i] = s[i]
    BY <1>1, <2>1
  <2> QED BY <1>2, <2>2 DEF IsPrefix
<1>3. CASE ~(Len(r) <= Len(s))
  BY <1>3 DEF IsPrefix
<1> QED BY <1>2, <1>3

LEMMA PrefixGrows ==
    ASSUME NEW s \in Seq(Entry), NEW t, Grown(s, t), NEW r \in Seq(Entry), IsPrefix(r, s)
    PROVE  IsPrefix(r, t)
<1>1. CASE t = s
  BY <1>1
<1>2. ASSUME NEW e \in Entry, t = Append(s, e) PROVE IsPrefix(r, t)
  <2>1. Len(r) <= Len(s) /\ \A i \in 1 .. Len(r) : r[i] = s[i]
    BY PrefixMeans
  <2>2. /\ t \in Seq(Entry) /\ Len(t) = Len(s) + 1
        /\ \A i \in 1 .. Len(s) : t[i] = s[i]
    BY <1>2, AppendFacts
  <2>3. Len(r) \in Nat /\ Len(s) \in Nat
    OBVIOUS
  <2>4. Len(r) <= Len(t) /\ \A i \in 1 .. Len(r) : r[i] = t[i]
    BY <2>1, <2>2, <2>3
  <2> QED BY <2>2, <2>4, PrefixMeans
<1> QED BY <1>1, <1>2 DEF Grown

-----------------------------------------------------------------------------
(* What a step of one sealer does to the journals and to the others *)

SealStep(w) ==
    \/ \E r \in Revision : StartSeal(w, r)
    \/ \E j \in Journal : CallAppend(w, j) \/ VerifyJournal(w, j)
    \/ AppendStep(w) /\ UNCHANGED sealVars
    \/ AppendReturned(w) \/ AppendRaised(w)
    \/ NotesExist(w) \/ CreateNotes(w) \/ WriteNotes(w)
    \/ PublishArtifact(w) \/ PublishThenFail(w)
    \/ ManifestExists(w) \/ LinkManifest(w) \/ CleanUpManifest(w)
    \/ FailSeal(w) \/ CrashSealer(w)

LEMMA HeldFacts ==
    ASSUME NEW rs \in Seq(Record), Chained(rs)
    PROVE  /\ EntriesOf(rs) \in Seq(Entry) /\ Len(EntriesOf(rs)) = Len(rs)
           /\ DistinctIds(EntriesOf(rs))
           /\ rs # << >> => /\ EntriesOf(rs) # << >>
                            /\ EntriesOf(rs)[Len(EntriesOf(rs))] = rs[Len(rs)].entry
<1>1. Len(rs) \in Nat /\ DOMAIN rs = 1 .. Len(rs) /\ \A i \in 1 .. Len(rs) : rs[i].entry \in Entry
  <2>1. \A i \in 1 .. Len(rs) : rs[i] \in Record
    OBVIOUS
  <2> QED BY <2>1 DEF Record
<1>2. EntriesOf(rs) \in Seq(Entry) /\ Len(EntriesOf(rs)) = Len(rs)
      /\ DOMAIN EntriesOf(rs) = 1 .. Len(rs)
  BY <1>1 DEF EntriesOf
<1>3. DistinctIds(EntriesOf(rs))
  BY <1>1 DEF EntriesOf, DistinctIds, Chained
<1>4. ASSUME rs # << >>
      PROVE  EntriesOf(rs) # << >> /\ EntriesOf(rs)[Len(EntriesOf(rs))] = rs[Len(rs)].entry
  <2>1. Len(rs) \in DOMAIN rs /\ Len(rs) # 0
    BY <1>1, <1>4
  <2> QED BY <1>2, <2>1 DEF EntriesOf
<1> QED BY <1>2, <1>3, <1>4

LEMMA HeldType ==
    ASSUME Inv, NEW j \in Journal
    PROVE  Held(j) \in Seq(Entry) /\ DistinctIds(Held(j))
BY HeldFacts DEF Inv, TypeOK, ChainIntact, Held

LEMMA HeldTypeNext ==
    ASSUME Inv', NEW j \in Journal
    PROVE  Held(j)' \in Seq(Entry) /\ DistinctIds(Held(j)')
BY HeldFacts DEF Inv, TypeOK, ChainIntact, Held

\* A process outside append may forget how its last append ended.
Forgets(w) == /\ stage[w] \in Rest
              /\ MoveTo(w, "idle")
              /\ UNCHANGED <<file, lock, call, reported>>

LEMMA ForgettingKeeps ==
    ASSUME Inv, NEW w \in Writer, Forgets(w)
    PROVE  Inv'
BY NoneAssumption, CallAssumption
   DEF Inv, TypeOK, LockOwnedInside, ChainIntact, Prepared, Landed, AlreadyTerminal,
       Forgets, MoveTo, Rest, Inside

LEMMA PlanType ==
    ASSUME SealType, NEW w \in Writer, NEW j \in Journal
    PROVE  Planned(w, j) \in Seq(Entry) /\ DistinctIds(Planned(w, j)) /\ ResearchBy(w) \in Research
<1>1. ResearchBy(w) \in Research
  BY PlanAssumption DEF SealType, SealRecord, ResearchBy
<1>2. Plan[ResearchBy(w)][j] \in Seq(Entry)
  BY <1>1, PlanAssumption
<1> QED BY <1>1, <1>2, PlanAssumption DEF Planned, DistinctIds

LEMMA JournalSteps ==
    ASSUME SealType, \A v \in Writer : AppendOK(v), NEW w \in Writer, SealStep(w)
    PROVE  [Next]_journalVars \/ Forgets(w)
<1>1. CASE UNCHANGED journalVars
  BY <1>1
<1>2. CASE AppendStep(w)
  BY <1>2 DEF Next
<1>3. ASSUME NEW j \in Journal, CallAppend(w, j) PROVE Next
  <2>1. Planned(w, j) \in Seq(Entry) /\ seal[w].next \in 1 .. Len(Planned(w, j))
    BY <1>3, PlanType DEF CallAppend, AppendOK, SealType, SealRecord
  <2>2. Planned(w, j)[seal[w].next] \in Entry
    BY <2>1
  <2> QED BY <1>3, <2>2 DEF CallAppend, Next
<1>4. CASE AppendReturned(w) \/ AppendRaised(w)
  BY <1>4 DEF AppendReturned, AppendRaised, Forgets, Rest
<1>5. CASE CrashSealer(w)
  BY <1>5 DEF CrashSealer, CrashOutsideAppend, Forgets, Next
<1> QED BY <1>1, <1>2, <1>3, <1>4, <1>5 DEF SealStep, StartSeal, VerifyJournal, NotesExist,
       CreateNotes, WriteNotes, PublishArtifact, PublishThenFail, ManifestExists,
       LinkManifest, CleanUpManifest, FailSeal

LEMMA JournalNext ==
    ASSUME Inv, SealType, \A v \in Writer : AppendOK(v), NEW w \in Writer, SealStep(w)
    PROVE  Inv'
BY JournalSteps, StepInv, ForgettingKeeps

\* Only a written line changes what a journal holds.
LEMMA JournalsGrow ==
    ASSUME Inv, NEW w \in Writer, SealStep(w)
    PROVE  \A j \in Journal : Grown(Held(j), Held(j)')
<1>1. CASE file' = file
  BY <1>1 DEF Grown, Held
<1>2. CASE WriteLine(w)
  <2> DEFINE c == call[w]
             r == [entry |-> c.entry, predecessor |-> c.predecessor]
             rs == file[c.journal].records
  <2>1. c \in Call
    BY <1>2 DEF Inv, TypeOK, WriteLine, Rest
  <2>2. r \in Record /\ r.entry = c.entry /\ c.entry \in Entry /\ c.journal \in Journal
        /\ rs \in Seq(Record)
    BY <2>1 DEF Call, Record, Inv, TypeOK
  <2>3. EntriesOf(Append(rs, r)) = Append(EntriesOf(rs), c.entry)
    BY <2>2, EntriesGrow
  <2>4. ASSUME NEW j \in Journal PROVE Grown(Held(j), Held(j)')
    <3>1. file'[j].records = IF j = c.journal THEN Append(rs, r) ELSE file[j].records
      BY <1>2, <2>2 DEF WriteLine, Inv, TypeOK
    <3> QED BY <2>2, <2>3, <3>1 DEF Grown, Held
  <2> QED BY <2>4
<1>3. CASE TearLine(w)
  <2>1. call[w].journal \in Journal
    BY <1>3 DEF TearLine, Inv, TypeOK, Rest, Call
  <2>2. \A j \in Journal : file'[j].records = file[j].records
    BY <1>3, <2>1 DEF TearLine, Inv, TypeOK
  <2> QED BY <2>2 DEF Grown, Held
<1>4. CASE AppendStep(w) /\ ~WriteLine(w) /\ ~TearLine(w)
  BY <1>1, <1>4 DEF AppendStep, AcquireLock, RaiseAtLock, ReadUnderLock, VerifyLine, RaiseInside,
     Unlock, UnlockFails
<1>5. CASE ~AppendStep(w)
  BY <1>1, <1>5 DEF SealStep, StartSeal, CallAppend, BeginAppend, ReturnExisting, RaiseBeforeLock,
     GoToLock, VerifyJournal, AppendReturned, AppendRaised, NotesExist, CreateNotes, WriteNotes,
     PublishArtifact, PublishThenFail, ManifestExists, LinkManifest, CleanUpManifest, FailSeal,
     CrashSealer, Crash, CrashOutsideAppend, journalVars
<1> QED BY <1>2, <1>3, <1>4, <1>5

\* Nothing published goes away.
LEMMA DiskGrows ==
    ASSUME NEW w \in Writer, SealStep(w)
    PROVE  artifacts \subseteq artifacts' /\ manifests \subseteq manifests'
BY DEF SealStep, StartSeal, CallAppend, VerifyJournal, AppendReturned, AppendRaised, NotesExist,
       CreateNotes, WriteNotes, PublishArtifact, PublishThenFail, ManifestExists, LinkManifest,
       CleanUpManifest, FailSeal, CrashSealer, sealVars

LEMMA OthersStay ==
    ASSUME Inv, SealType, NEW w \in Writer, SealStep(w), NEW v \in Writer, v # w
    PROVE  seal'[v] = seal[v] /\ stage'[v] = stage[v] /\ call'[v] = call[v]
<1>1. seal'[v] = seal[v]
  BY DEF SealStep, StartSeal, CallAppend, VerifyJournal, AppendReturned, AppendRaised, NotesExist,
       CreateNotes, WriteNotes, PublishArtifact, PublishThenFail, ManifestExists, LinkManifest,
       CleanUpManifest, FailSeal, CrashSealer, sealVars, Put, SealType
<1> SUFFICES stage'[v] = stage[v] /\ call'[v] = call[v]
  BY <1>1
<1>2. /\ v \in DOMAIN stage /\ w \in DOMAIN stage
      /\ v \in DOMAIN call /\ w \in DOMAIN call
  BY DEF Inv, TypeOK
<1>3. CASE AppendStep(w)
  <2>1. CASE AcquireLock(w) \/ RaiseAtLock(w)
    BY <1>2, <2>1 DEF AcquireLock, RaiseAtLock, MoveTo, Leave
  <2>2. CASE ReadUnderLock(w)
    BY <1>2, <2>2 DEF ReadUnderLock, MoveTo
  <2>3. CASE WriteLine(w) \/ TearLine(w) \/ VerifyLine(w) \/ RaiseInside(w)
    BY <1>2, <2>3 DEF WriteLine, TearLine, VerifyLine, RaiseInside, MoveTo
  <2>4. CASE Unlock(w) \/ UnlockFails(w)
    BY <1>2, <2>4 DEF Unlock, UnlockFails, MoveTo, Leave
  <2> QED BY <1>3, <2>1, <2>2, <2>3, <2>4 DEF AppendStep
<1>4. ASSUME NEW j \in Journal, CallAppend(w, j)
      PROVE  stage'[v] = stage[v] /\ call'[v] = call[v]
  BY <1>2, <1>4 DEF CallAppend, BeginAppend, ReturnExisting, RaiseBeforeLock, GoToLock, MoveTo
<1>5. CASE CrashSealer(w)
  BY <1>2, <1>5 DEF CrashSealer, Crash, CrashOutsideAppend, MoveTo, Leave
<1>6. CASE AppendReturned(w) \/ AppendRaised(w)
  BY <1>2, <1>6 DEF AppendReturned, AppendRaised, MoveTo
<1>7. CASE UNCHANGED journalVars
  BY <1>7 DEF journalVars
<1> QED BY <1>3, <1>4, <1>5, <1>6, <1>7 DEF SealStep, StartSeal, VerifyJournal, NotesExist,
       CreateNotes, WriteNotes, PublishArtifact, PublishThenFail, ManifestExists,
       LinkManifest, CleanUpManifest, FailSeal

-----------------------------------------------------------------------------
(* Types *)

LEMMA AfterFacts ==
    ASSUME NEW j \in Journal
    PROVE  \E i \in DOMAIN Phases :
               /\ Phases[i] = j
               /\ After(j) = IF i = Len(Phases) THEN "notes" ELSE Phases[i + 1]
<1> DEFINE i == CHOOSE k \in DOMAIN Phases : Phases[k] = j
<1>1. \E k \in DOMAIN Phases : Phases[k] = j
  BY PhaseAssumption DEF Range
<1>2. i \in DOMAIN Phases /\ Phases[i] = j
  BY <1>1
<1>3. After(j) = IF i = Len(Phases) THEN "notes" ELSE Phases[i + 1]
  BY DEF After
<1> QED BY <1>2, <1>3

LEMMA AfterType ==
    ASSUME NEW j \in Journal
    PROVE  After(j) \in Journal \cup {"notes"}
<1>1. PICK i \in DOMAIN Phases : After(j) = IF i = Len(Phases) THEN "notes" ELSE Phases[i + 1]
  BY AfterFacts
<1>2. i # Len(Phases) => Phases[i + 1] \in Journal
  BY PhaseAssumption
<1> QED BY <1>1, <1>2

LEMMA ReadyType == Ready \in SealRecord /\ Ready.phase = "ready" /\ Ready.published = FALSE
<1>1. (CHOOSE r \in Revision : TRUE) \in Revision
  BY PlanAssumption
<1>2. NoStates \in [Journal -> Seq(Entry)]
  BY DEF NoStates
<1> QED BY <1>1, <1>2 DEF Ready, SealRecord, PhaseNames

LEMMA EnterType ==
    ASSUME SealType, NEW w \in Writer, NEW p \in Journal \cup PhaseNames
    PROVE  /\ Enter(w, p) \in SealRecord
           /\ [Enter(w, p) EXCEPT !.published = TRUE] \in SealRecord
           /\ [seal[w] EXCEPT !.phase = p] \in SealRecord
           /\ [seal[w] EXCEPT !.next = @ + 1] \in SealRecord
<1>1. seal[w] \in SealRecord
  BY DEF SealType
<1>2. Enter(w, p) \in SealRecord
  BY <1>1 DEF SealRecord, Enter
<1>3. [Enter(w, p) EXCEPT !.published = TRUE] \in SealRecord
  BY <1>2 DEF SealRecord
<1>4. [seal[w] EXCEPT !.phase = p] \in SealRecord
  BY <1>1 DEF SealRecord
<1>5. seal[w].next + 1 \in Nat
  BY <1>1 DEF SealRecord
<1>6. [seal[w] EXCEPT !.next = @ + 1] \in SealRecord
  BY <1>1, <1>5 DEF SealRecord
<1> QED BY <1>2, <1>3, <1>4, <1>6

LEMMA PutType ==
    ASSUME SealType, NEW w \in Writer, NEW x \in SealRecord, Put(w, x)
    PROVE  SealType'
BY DEF SealType, Put

LEMMA SealTypeNext ==
    ASSUME Inv, SealType, NEW w \in Writer, SealStep(w)
    PROVE  SealType'
<1>1. CASE UNCHANGED sealVars
  BY <1>1 DEF sealVars, SealType
<1>2. ASSUME NEW r \in Revision, StartSeal(w, r) PROVE SealType'
  <2>1. Phases[1] \in Journal
    BY PhaseAssumption
  <2>2. [Ready EXCEPT !.phase = Phases[1], !.revision = r] \in SealRecord
    BY <2>1, ReadyType DEF SealRecord
  <2> QED BY <1>2, <2>2, PutType DEF StartSeal
<1>3. ASSUME NEW j \in Journal, VerifyJournal(w, j) PROVE SealType'
  <2>1. EntriesOf(file[j].records) \in Seq(Entry)
    BY HeldType DEF Held
  <2>2. [Enter(w, After(j)) EXCEPT !.states[j] = EntriesOf(file[j].records)] \in SealRecord
    BY <2>1, AfterType DEF Enter, SealType, SealRecord, PhaseNames
  <2> QED BY <1>3, <2>2, PutType DEF VerifyJournal
<1>4. {"notes", "notes_write", "artifacts", "linked", "sealed", "failed"}
          \subseteq Journal \cup PhaseNames
  BY DEF PhaseNames
<1>5. CASE AppendReturned(w) \/ PublishArtifact(w)
  BY <1>4, <1>5, EnterType, PutType DEF AppendReturned, PublishArtifact
<1>6. CASE AppendRaised(w) \/ PublishThenFail(w) \/ FailSeal(w)
  BY <1>4, <1>6, EnterType, PutType DEF AppendRaised, PublishThenFail, FailSeal
<1>7. CASE NotesExist(w) \/ CreateNotes(w) \/ WriteNotes(w)
  BY <1>4, <1>7, EnterType, PutType DEF NotesExist, CreateNotes, WriteNotes
<1>8. CASE ManifestExists(w) \/ LinkManifest(w) \/ CleanUpManifest(w)
  BY <1>4, <1>8, EnterType, PutType
     DEF ManifestExists, LinkManifest, CleanUpManifest, OutcomeOfCleanup
<1>9. CASE CrashSealer(w)
  BY <1>9, ReadyType, PutType DEF CrashSealer
<1> QED BY <1>1, <1>2, <1>3, <1>5, <1>6, <1>7, <1>8, <1>9 DEF SealStep, CallAppend

-----------------------------------------------------------------------------
(* What the steps of others, and growth on disk, leave true *)

LEMMA VerifiedKept ==
    ASSUME Inv, SealType, NEW w \in Writer, NEW j \in Journal, Verified(w, j),
           Grown(Held(j), Held(j)'),
           seal'[w].states[j] = seal[w].states[j], seal'[w].revision = seal[w].revision
    PROVE  Verified(w, j)'
<1>1. seal[w].states[j] \in Seq(Entry) /\ Held(j) \in Seq(Entry)
  BY HeldType DEF SealType, SealRecord
<1>2. IsPrefix(seal[w].states[j], Held(j)')
  BY <1>1, PrefixGrows DEF Verified
<1>3. Planned(w, j)' = Planned(w, j)
  BY DEF Planned, ResearchBy
<1> QED BY <1>2, <1>3 DEF Verified

LEMMA SealKept ==
    ASSUME Inv, SealType, NEW w \in Writer, SealerOK(w), seal'[w] = seal[w],
           \A j \in Journal : Grown(Held(j), Held(j)'),
           artifacts \subseteq artifacts', manifests \subseteq manifests'
    PROVE  StatesOK(w)' /\ ArtifactsOK(w)' /\ ReportOK(w)'
<1>1. \A j \in Journal : Verified(w, j) => Verified(w, j)'
  BY VerifiedKept
<1>2. StatesOK(w)'
  <2>1. \A i \in DOMAIN Phases : Phases[i] \in Journal
    BY PhaseAssumption
  <2>2. \A i \in DOMAIN Phases : \A k \in 1 .. i - 1 : k \in DOMAIN Phases
    BY PhaseAssumption
  <2> QED BY <1>1, <2>1, <2>2 DEF SealerOK, StatesOK
<1>3. ArtifactsOK(w)'
  BY DEF SealerOK, ArtifactsOK, ResearchBy
<1>4. ReportOK(w)'
  BY DEF SealerOK, ReportOK, ManifestOf, ResearchBy
<1> QED BY <1>2, <1>3, <1>4

LEMMA AppendKept ==
    ASSUME Inv, Inv', SealType, NEW w \in Writer, SealerOK(w),
           seal'[w] = seal[w], stage'[w] = stage[w], call'[w] = call[w],
           \A j \in Journal : Grown(Held(j), Held(j)')
    PROVE  AppendOK(w)' /\ OutsideIsIdle(w)'
<1>1. OutsideIsIdle(w)'
  BY DEF SealerOK, OutsideIsIdle
<1>2. ASSUME NEW j \in Journal, seal[w].phase = j PROVE AppendOK(w)'
  <2> DEFINE n == seal[w].next
             k == IF stage[w] = "returned" THEN n ELSE n - 1
  <2>1. Held(j) \in Seq(Entry) /\ Planned(w, j) \in Seq(Entry) /\ DistinctIds(Held(j)')
    BY HeldType, HeldTypeNext, PlanType
  <2>2. n \in 1 .. Len(Planned(w, j)) + 1 /\ Aligned(Held(j), Planned(w, j), k)
    BY <1>2 DEF SealerOK, AppendOK
  <2>3. k \in Nat
    BY <2>1, <2>2
  <2>4. Aligned(Held(j)', Planned(w, j), k)
    BY <2>1, <2>2, <2>3, AlignedGrows
  <2> QED BY <1>2, <2>4 DEF SealerOK, AppendOK, Planned, ResearchBy
<1>3. CASE seal[w].phase \notin Journal
  BY <1>1, <1>3 DEF AppendOK
<1> QED BY <1>1, <1>2, <1>3

LEMMA OthersOK ==
    ASSUME Inv, Inv', SealType, NEW w \in Writer, SealStep(w), NEW v \in Writer, v # w, SealerOK(v)
    PROVE  SealerOK(v)'
<1>1. seal'[v] = seal[v] /\ stage'[v] = stage[v] /\ call'[v] = call[v]
  BY OthersStay
<1>2. /\ \A j \in Journal : Grown(Held(j), Held(j)')
      /\ artifacts \subseteq artifacts' /\ manifests \subseteq manifests'
  BY JournalsGrow, DiskGrows
<1>3. StatesOK(v)' /\ ArtifactsOK(v)' /\ ReportOK(v)'
  BY <1>1, <1>2, SealKept
<1>4. AppendOK(v)' /\ OutsideIsIdle(v)'
  BY <1>1, <1>2, AppendKept
<1> QED BY <1>3, <1>4 DEF SealerOK

-----------------------------------------------------------------------------
(* The sealer that takes the step *)

LEMMA Apart ==
    /\ \A j \in Journal : j \notin PhaseNames
    /\ Phases \in Seq(Journal) /\ Len(Phases) \in Nat \ {0}
    /\ \A i \in DOMAIN Phases : Phases[i] \in Journal
BY PhaseAssumption

LEMMA PutFacts ==
    ASSUME SealType, NEW w \in Writer, NEW x, Put(w, x)
    PROVE  seal'[w] = x
BY DEF SealType, Put

\* A sealer that ended, or has published its manifest.
LEMMA SettledOK ==
    ASSUME NEW w \in Writer, seal'[w].phase \in {"ready", "failed", "linked", "sealed"},
           stage'[w] = "idle", ReportOK(w)'
    PROVE  SealerOK(w)'
<1>1. seal'[w].phase \in PhaseNames
  BY DEF PhaseNames
<1>2. AppendOK(w)' /\ StatesOK(w)'
  BY <1>1, Apart DEF AppendOK, StatesOK
<1> QED BY <1>2 DEF SealerOK, ArtifactsOK, OutsideIsIdle

\* A sealer that begins a journal.
LEMMA FillingOK ==
    ASSUME NEW w \in Writer, Inv', SealType', seal'[w].phase \in Journal, seal'[w].next = 1,
           seal'[w].published = FALSE, stage'[w] = "idle", StatesOK(w)'
    PROVE  SealerOK(w)'
<1>1. seal'[w].phase \notin PhaseNames
  BY Apart
<1>2. ReportOK(w)' /\ ArtifactsOK(w)' /\ OutsideIsIdle(w)'
  BY <1>1 DEF ReportOK, ArtifactsOK, OutsideIsIdle, PhaseNames
<1>3. AppendOK(w)'
  <2>1. ResearchOf[seal'[w].revision] \in Research
    BY PlanAssumption DEF SealType, SealRecord
  <2>2. Plan[ResearchOf[seal'[w].revision]][seal'[w].phase] \in Seq(Entry)
    BY <2>1, PlanAssumption
  <2>3. \A q \in Seq(Entry) : 1 \in 1 .. Len(q) + 1
    OBVIOUS
  <2>4. \A t, q : Aligned(t, q, 0)
    BY DEF Aligned
  <2> QED BY <2>2, <2>3, <2>4 DEF AppendOK, Planned, ResearchBy, Rest
<1> QED BY <1>2, <1>3 DEF SealerOK

LEMMA StartOK ==
    ASSUME Inv', SealType, SealType', NEW w \in Writer, SealerOK(w),
           NEW r \in Revision, StartSeal(w, r)
    PROVE  SealerOK(w)'
<1>1. seal'[w] = [Ready EXCEPT !.phase = Phases[1], !.revision = r]
  BY PutFacts DEF StartSeal
<1>2. Phases[1] \in Journal /\ 1 \in DOMAIN Phases
  BY Apart
<1>3. seal'[w].phase = Phases[1] /\ seal'[w].next = 1 /\ seal'[w].published = FALSE
  BY <1>1 DEF Ready
<1>4. stage'[w] = "idle"
  <2>1. seal[w].phase \in PhaseNames
    BY DEF StartSeal, Running, PhaseNames
  <2> QED BY <2>1, Apart DEF StartSeal, SealerOK, OutsideIsIdle, journalVars
<1>5. StatesOK(w)'
  <2>1. seal'[w].phase \notin PhaseNames
    BY <1>2, <1>3, Apart
  <2>2. \A i \in DOMAIN Phases : Phases[i] = Phases[1] => i = 1
    BY <1>2, PhaseAssumption
  <2> QED BY <1>3, <2>1, <2>2 DEF StatesOK, PhaseNames
<1> QED BY <1>2, <1>3, <1>4, <1>5, FillingOK

LEMMA VerifyOK ==
    ASSUME Inv, Inv', SealType, SealType', NEW w \in Writer, SealerOK(w),
           NEW j \in Journal, VerifyJournal(w, j)
    PROVE  SealerOK(w)'
<1>1. seal'[w] = [Enter(w, After(j)) EXCEPT !.states[j] = EntriesOf(file[j].records)]
  BY PutFacts DEF VerifyJournal
<1>2. seal[w].phase = j /\ stage'[w] = "idle" /\ stage[w] = "idle" /\ file' = file
  BY DEF VerifyJournal, journalVars
<1>3. /\ seal'[w].phase = After(j) /\ seal'[w].next = 1
      /\ seal'[w].published = seal[w].published /\ seal'[w].revision = seal[w].revision
      /\ seal'[w].states = [seal[w].states EXCEPT ![j] = Held(j)]
  BY <1>1 DEF Enter, Held, SealType, SealRecord
<1>4. seal'[w].published = FALSE
  BY <1>2, <1>3, Apart DEF SealerOK, ReportOK, PhaseNames, SealType, SealRecord
<1>5. Held(j) \in Seq(Entry) /\ Planned(w, j) \in Seq(Entry)
  BY HeldType, PlanType
<1>6. Verified(w, j)'
  <2>1. seal'[w].states[j] = Held(j) /\ Held(j)' = Held(j) /\ Planned(w, j)' = Planned(w, j)
    BY <1>2, <1>3 DEF Held, Planned, ResearchBy, SealType, SealRecord
  <2>2. IsPrefix(Held(j), Held(j))
    BY <1>5, PrefixMeans
  <2>3. seal[w].next \in 1 .. Len(Planned(w, j)) + 1
        /\ Aligned(Held(j), Planned(w, j), seal[w].next - 1)
    BY <1>2 DEF SealerOK, AppendOK
  <2>4. seal[w].next > Len(Planned(w, j)) /\ Len(Planned(w, j)) \in Nat
    BY <1>5 DEF VerifyJournal
  <2>5. seal[w].next - 1 = Len(Planned(w, j))
    BY <2>3, <2>4
  <2> QED BY <2>1, <2>2, <2>3, <2>5 DEF Verified
<1>7. ASSUME NEW k \in Journal, k # j, Verified(w, k) PROVE Verified(w, k)'
  BY <1>2, <1>3, <1>7 DEF Verified, Held, Planned, ResearchBy, SealType, SealRecord
<1>8. PICK i \in DOMAIN Phases :
          Phases[i] = j /\ After(j) = IF i = Len(Phases) THEN "notes" ELSE Phases[i + 1]
  BY AfterFacts
<1>9. \A k \in 1 .. i : Phases[k] \in Journal /\ Verified(w, Phases[k])'
  <2>1. ASSUME NEW k \in 1 .. i PROVE Phases[k] \in Journal /\ Verified(w, Phases[k])'
    <3>1. k \in DOMAIN Phases /\ Phases[k] \in Journal
      BY Apart
    <3>2. CASE k = i
      BY <3>1, <3>2, <1>6, <1>8
    <3>3. CASE k \in 1 .. i - 1
      <4>1. Verified(w, Phases[k])
        BY <3>3, <1>2, <1>8 DEF SealerOK, StatesOK
      <4> QED BY <3>1, <4>1, <1>6, <1>7
    <3>4. k = i \/ k \in 1 .. i - 1
      BY Apart
    <3> QED BY <3>2, <3>3, <3>4
  <2> QED BY <2>1
<1>10. CASE i = Len(Phases)
  <2>1. seal'[w].phase = "notes"
    BY <1>3, <1>8, <1>10
  <2>2. \A k \in Journal : Verified(w, k)'
    <3>1. \A k \in Journal : \E m \in 1 .. i : Phases[m] = k
      BY <1>10, Apart, PhaseAssumption DEF Range
    <3> QED BY <3>1, <1>9
  <2>3. "notes" \in PhaseNames
    BY DEF PhaseNames
  <2>4. StatesOK(w)'
    BY <2>1, <2>2, <2>3, Apart DEF StatesOK
  <2>5. AppendOK(w)'
    BY <2>1, <2>3, Apart DEF AppendOK
  <2> QED BY <1>2, <1>4, <2>1, <2>4, <2>5 DEF SealerOK, ArtifactsOK, OutsideIsIdle, ReportOK
<1>11. CASE i # Len(Phases)
  <2>1. i + 1 \in DOMAIN Phases /\ Phases[i + 1] \in Journal
    BY <1>11, Apart
  <2>2. seal'[w].phase = Phases[i + 1]
    BY <1>3, <1>8, <1>11
  <2>3. seal'[w].phase \notin PhaseNames
    BY <2>1, <2>2, Apart
  <2>4. \A m \in DOMAIN Phases : Phases[m] = Phases[i + 1] => m - 1 = i
    BY <2>1, PhaseAssumption
  <2>5. StatesOK(w)'
    BY <2>2, <2>3, <2>4, <1>9 DEF StatesOK, PhaseNames
  <2> QED BY <1>2, <1>3, <1>4, <2>1, <2>2, <2>5, FillingOK
<1> QED BY <1>10, <1>11

\* An append in progress, and its return.
LEMMA StillFilling ==
    ASSUME NEW w \in Writer, NEW j \in Journal, SealerOK(w), seal[w].phase = j,
           seal'[w] = seal[w], StatesOK(w)' /\ ArtifactsOK(w)' /\ ReportOK(w)',
           stage'[w] \notin {"idle", "raised"} => seal[w].next <= Len(Planned(w, j)),
           Aligned(Held(j)', Planned(w, j),
                   IF stage'[w] = "returned" THEN seal[w].next ELSE seal[w].next - 1),
           stage'[w] \notin Rest => /\ call'[w].journal = j
                                    /\ call'[w].entry = Planned(w, j)[seal[w].next]
    PROVE  SealerOK(w)'
<1>1. OutsideIsIdle(w)'
  BY DEF OutsideIsIdle
<1>2. seal[w].next \in 1 .. Len(Planned(w, j)) + 1
  BY DEF SealerOK, AppendOK
<1>3. Planned(w, j)' = Planned(w, j)
  BY DEF Planned, ResearchBy
<1>4. \A n, plan : Aligned(Held(j), plan, n)' <=> Aligned(Held(j)', plan, n)
  BY DEF Aligned
<1>5. AppendOK(w)'
  BY <1>2, <1>3, <1>4 DEF AppendOK, Planned, ResearchBy
<1> QED BY <1>1, <1>5 DEF SealerOK

\* The record a sealer asked for is at the end of the journal.
LEMMA AppendLanded ==
    ASSUME Inv, SealType, NEW w \in Writer, NEW j \in Journal, NEW n \in Nat \ {0},
           n <= Len(Planned(w, j)), AlreadyTerminal(j, Planned(w, j)[n]),
           Aligned(Held(j), Planned(w, j), n - 1)
    PROVE  Aligned(Held(j), Planned(w, j), n)
<1>1. /\ Held(j) \in Seq(Entry) /\ DistinctIds(Held(j))
      /\ Planned(w, j) \in Seq(Entry) /\ DistinctIds(Planned(w, j))
  BY HeldType, PlanType
<1>2. Held(j) # << >> /\ Held(j)[Len(Held(j))] = Planned(w, j)[n]
  BY HeldFacts DEF Inv, TypeOK, ChainIntact, AlreadyTerminal, Held
<1>3. n - 1 \in Nat /\ (n - 1) + 1 = n /\ n \in DOMAIN Planned(w, j)
  BY <1>1
<1>4. Aligned(Held(j), Planned(w, j), (n - 1) + 1)
  BY <1>1, <1>2, <1>3, AlignedAdvances
<1> QED BY <1>3, <1>4

LEMMA CallOK ==
    ASSUME Inv, Inv', SealType, NEW w \in Writer, SealStep(w), SealerOK(w),
           NEW j \in Journal, CallAppend(w, j)
    PROVE  SealerOK(w)'
<1>1. seal'[w] = seal[w] /\ seal[w].phase = j /\ stage[w] = "idle" /\ Held(j)' = Held(j)
  BY DEF CallAppend, BeginAppend, ReturnExisting, RaiseBeforeLock, GoToLock, sealVars, Held
<1>2. StatesOK(w)' /\ ArtifactsOK(w)' /\ ReportOK(w)'
  BY <1>1, SealKept, JournalsGrow, DiskGrows
<1>3. /\ seal[w].next \in Nat \ {0} /\ seal[w].next <= Len(Planned(w, j))
      /\ Aligned(Held(j), Planned(w, j), seal[w].next - 1)
  BY <1>1, PlanType DEF CallAppend, SealerOK, AppendOK
<1> DEFINE e == Planned(w, j)[seal[w].next]
<1>4. CASE ReturnExisting(w, j, e)
  <2>1. Aligned(Held(j), Planned(w, j), seal[w].next)
    BY <1>3, <1>4, AppendLanded DEF ReturnExisting
  <2>2. stage'[w] = "returned"
    BY <1>4 DEF ReturnExisting, MoveTo, Inv, TypeOK
  <2> QED BY <1>1, <1>2, <1>3, <2>1, <2>2, StillFilling DEF Rest
<1>5. CASE RaiseBeforeLock(w)
  <2>1. stage'[w] = "raised"
    BY <1>5 DEF RaiseBeforeLock, MoveTo, Inv, TypeOK
  <2> QED BY <1>1, <1>2, <1>3, <2>1, StillFilling DEF Rest
<1>6. CASE GoToLock(w, j, e)
  <2>1. stage'[w] = "acquire" /\ call'[w].journal = j /\ call'[w].entry = e
    BY <1>6 DEF GoToLock, MoveTo, Inv, TypeOK
  <2> QED BY <1>1, <1>2, <1>3, <2>1, StillFilling DEF Rest
<1> QED BY <1>4, <1>5, <1>6 DEF CallAppend, BeginAppend

\* How the steps of append change its stage and its arguments.
LEMMA StepFacts ==
    ASSUME Inv, NEW w \in Writer, AppendStep(w)
    PROVE  /\ stage[w] \notin Rest
           /\ stage'[w] \notin {"idle", "returned", "raised"} =>
                  call'[w].journal = call[w].journal /\ call'[w].entry = call[w].entry
           /\ stage'[w] \in Rest => stage'[w] \in {"returned", "raised"}
           /\ stage'[w] = "returned" => stage[w] = "unlock_ok" /\ file' = file
<1> USE DEF Rest, Inv, TypeOK, MoveTo, Leave
<1>1. CASE AcquireLock(w) \/ RaiseAtLock(w)
  BY <1>1 DEF AcquireLock, RaiseAtLock
<1>2. CASE ReadUnderLock(w)
  <2>1. call[w] \in Call
    BY <1>2 DEF ReadUnderLock
  <2> QED BY <1>2, <2>1 DEF ReadUnderLock, Call
<1>3. CASE WriteLine(w) \/ TearLine(w) \/ VerifyLine(w) \/ RaiseInside(w)
  BY <1>3 DEF WriteLine, TearLine, VerifyLine, RaiseInside
<1>4. CASE Unlock(w) \/ UnlockFails(w)
  BY <1>4 DEF Unlock, UnlockFails
<1> QED BY <1>1, <1>2, <1>3, <1>4 DEF AppendStep

LEMMA AppendStepOK ==
    ASSUME Inv, Inv', SealType, NEW w \in Writer, SealStep(w), SealerOK(w),
           AppendStep(w), UNCHANGED sealVars
    PROVE  SealerOK(w)'
<1>1. seal'[w] = seal[w] /\ stage[w] \notin Rest
  BY StepFacts DEF sealVars
<1>2. StatesOK(w)' /\ ArtifactsOK(w)' /\ ReportOK(w)'
  BY <1>1, SealKept, JournalsGrow, DiskGrows
<1>3. PICK j \in Journal : seal[w].phase = j
  BY <1>1 DEF SealerOK, OutsideIsIdle, Rest
<1>4. /\ seal[w].next \in Nat \ {0} /\ seal[w].next <= Len(Planned(w, j))
      /\ Aligned(Held(j), Planned(w, j), seal[w].next - 1)
      /\ call[w].journal = j /\ call[w].entry = Planned(w, j)[seal[w].next]
  BY <1>1, <1>3, PlanType DEF SealerOK, AppendOK, Rest
<1>5. Aligned(Held(j)', Planned(w, j), seal[w].next - 1)
  BY <1>4, JournalsGrow, AlignedGrows, HeldType, HeldTypeNext, PlanType
<1>6. CASE stage'[w] = "returned"
  <2>1. AlreadyTerminal(j, Planned(w, j)[seal[w].next])
    BY <1>4, <1>6, StepFacts DEF Inv, Landed
  <2>2. Aligned(Held(j), Planned(w, j), seal[w].next)
    BY <1>4, <2>1, AppendLanded
  <2>3. Held(j)' = Held(j)
    BY <1>6, StepFacts DEF Held
  <2> QED BY <1>1, <1>2, <1>3, <1>4, <1>6, <2>2, <2>3, StillFilling DEF Rest
<1>7. CASE stage'[w] # "returned"
  <2>1. stage'[w] \notin Rest => /\ call'[w].journal = j
                                 /\ call'[w].entry = Planned(w, j)[seal[w].next]
    BY <1>4, StepFacts DEF Rest
  <2> QED BY <1>1, <1>2, <1>3, <1>4, <1>5, <1>7, <2>1, StillFilling
<1> QED BY <1>6, <1>7

LEMMA ReturnedOK ==
    ASSUME Inv, SealType, NEW w \in Writer, SealerOK(w), AppendReturned(w)
    PROVE  SealerOK(w)'
<1>1. /\ seal'[w] = [seal[w] EXCEPT !.next = @ + 1]
      /\ stage[w] = "returned" /\ stage'[w] = "idle" /\ file' = file
  BY PutFacts DEF AppendReturned, MoveTo, Inv, TypeOK
<1>2. /\ seal'[w].phase = seal[w].phase /\ seal'[w].next = seal[w].next + 1
      /\ seal'[w].states = seal[w].states /\ seal'[w].revision = seal[w].revision
      /\ seal'[w].published = seal[w].published
  BY <1>1 DEF SealType, SealRecord
<1>3. PICK j \in Journal : seal[w].phase = j
  BY <1>1 DEF SealerOK, OutsideIsIdle
<1>4. j \notin PhaseNames
  BY Apart
<1>5. /\ seal[w].next \in 1 .. Len(Planned(w, j)) /\ Len(Planned(w, j)) \in Nat
      /\ Aligned(Held(j), Planned(w, j), seal[w].next)
  BY <1>1, <1>3, PlanType DEF SealerOK, AppendOK
<1>6. AppendOK(w)'
  <2>1. Planned(w, j)' = Planned(w, j) /\ Held(j)' = Held(j)
    BY <1>1, <1>2 DEF Planned, ResearchBy, Held
  <2>2. \A n, plan : Aligned(Held(j), plan, n)' <=> Aligned(Held(j)', plan, n)
    BY DEF Aligned
  <2>3. seal'[w].next \in 1 .. Len(Planned(w, j)) + 1 /\ seal'[w].next - 1 = seal[w].next
    BY <1>2, <1>5
  <2> QED BY <1>1, <1>2, <1>3, <1>5, <2>1, <2>2, <2>3 DEF AppendOK, Rest, Planned, ResearchBy
<1>7. StatesOK(w)'
  BY <1>1, <1>2 DEF SealerOK, StatesOK, Verified, Held, Planned, ResearchBy
<1>8. ArtifactsOK(w)' /\ OutsideIsIdle(w)' /\ ReportOK(w)'
  BY <1>1, <1>2, <1>3, <1>4 DEF SealerOK, ReportOK, ArtifactsOK, OutsideIsIdle, PhaseNames
<1> QED BY <1>6, <1>7, <1>8 DEF SealerOK

\* A seal that ends before it has linked its manifest.
LEMMA AbandonedOK ==
    ASSUME Inv, SealType, NEW w \in Writer, SealerOK(w),
           AppendRaised(w) \/ PublishThenFail(w) \/ FailSeal(w) \/ CrashSealer(w)
    PROVE  SealerOK(w)'
<1>1. CASE CrashSealer(w)
  <2>1. seal'[w].phase = "ready" /\ seal'[w].published = FALSE
    BY <1>1, PutFacts, ReadyType DEF CrashSealer
  <2>2. stage'[w] = "idle"
    BY <1>1 DEF CrashSealer, Crash, CrashOutsideAppend, MoveTo, Leave, Inv, TypeOK
  <2> QED BY <2>1, <2>2, SettledOK DEF ReportOK
<1>2. CASE AppendRaised(w) \/ PublishThenFail(w) \/ FailSeal(w)
  <2>1. seal'[w] = [seal[w] EXCEPT !.phase = "failed"]
    BY <1>2, PutFacts DEF AppendRaised, PublishThenFail, FailSeal
  <2>2. seal'[w].phase = "failed" /\ seal'[w].published = seal[w].published
    BY <2>1 DEF SealType, SealRecord
  <2>3. seal[w].phase \notin {"linked", "sealed"}
    <3>1. CASE AppendRaised(w)
      BY <3>1, Apart DEF AppendRaised, SealerOK, OutsideIsIdle, PhaseNames
    <3>2. CASE PublishThenFail(w) \/ FailSeal(w)
      BY <3>2 DEF PublishThenFail, FailSeal, Running
    <3> QED BY <1>2, <3>1, <3>2
  <2>4. stage'[w] = "idle"
    <3>1. CASE AppendRaised(w)
      BY <3>1 DEF AppendRaised, MoveTo, Inv, TypeOK
    <3>2. CASE PublishThenFail(w)
      BY <3>2, Apart DEF PublishThenFail, SealerOK, OutsideIsIdle, PhaseNames, journalVars
    <3>3. CASE FailSeal(w)
      BY <3>3 DEF FailSeal, journalVars
    <3> QED BY <1>2, <3>1, <3>2, <3>3
  <2> QED BY <2>2, <2>3, <2>4, SettledOK DEF SealerOK, ReportOK
<1> QED BY <1>1, <1>2

LEMMA NotesStepOK ==
    ASSUME SealType, NEW w \in Writer, SealerOK(w),
           NotesExist(w) \/ CreateNotes(w) \/ WriteNotes(w)
    PROVE  SealerOK(w)'
<1>1. PICK p \in {"artifacts", "notes_write"} : seal'[w] = Enter(w, p)
  BY PutFacts DEF NotesExist, CreateNotes, WriteNotes
<1>2. /\ seal'[w].phase = p /\ seal'[w].next = 1 /\ seal'[w].published = seal[w].published
      /\ seal'[w].states = seal[w].states /\ seal'[w].revision = seal[w].revision
  BY <1>1 DEF Enter, SealType, SealRecord
<1>3. seal[w].phase \in {"notes", "notes_write"} /\ file' = file /\ stage' = stage
  BY DEF NotesExist, CreateNotes, WriteNotes, journalVars
<1>4. p \notin Journal /\ seal[w].phase \notin Journal
  BY <1>3, Apart DEF PhaseNames
<1>5. StatesOK(w)'
  BY <1>2, <1>3, <1>4, Apart
     DEF SealerOK, StatesOK, Verified, Held, Planned, ResearchBy
<1>6. AppendOK(w)' /\ ArtifactsOK(w)' /\ OutsideIsIdle(w)'
  BY <1>2, <1>3, <1>4, PhaseAssumption DEF SealerOK, AppendOK, ArtifactsOK, OutsideIsIdle
<1>7. ReportOK(w)'
  BY <1>2, <1>3 DEF SealerOK, ReportOK
<1> QED BY <1>5, <1>6, <1>7 DEF SealerOK

LEMMA PublishOK ==
    ASSUME SealType, NEW w \in Writer, SealerOK(w), PublishArtifact(w)
    PROVE  SealerOK(w)'
<1>1. /\ seal'[w] = [seal[w] EXCEPT !.next = @ + 1] /\ seal[w].phase = "artifacts"
      /\ seal[w].next <= Len(Kinds) /\ file' = file /\ stage' = stage
      /\ artifacts' = artifacts \cup {<<Kinds[seal[w].next], ResearchBy(w)>>}
  BY PutFacts DEF PublishArtifact, journalVars
<1>2. /\ seal'[w].phase = "artifacts" /\ seal'[w].next = seal[w].next + 1
      /\ seal'[w].published = seal[w].published
      /\ seal'[w].states = seal[w].states /\ seal'[w].revision = seal[w].revision
  BY <1>1 DEF SealType, SealRecord
<1>3. "artifacts" \notin Journal
  BY Apart DEF PhaseNames
<1>4. StatesOK(w)'
  BY <1>1, <1>2, <1>3, Apart DEF SealerOK, StatesOK, Verified, Held, Planned, ResearchBy
<1>5. ArtifactsOK(w)'
  <2>1. Len(Kinds) \in Nat /\ seal[w].next \in 1 .. Len(Kinds) + 1
    BY <1>1, PhaseAssumption DEF SealerOK, ArtifactsOK
  <2>2. seal'[w].next \in 1 .. Len(Kinds) + 1
    BY <1>1, <1>2, <2>1
  <2>3. \A k \in 1 .. seal'[w].next - 1 : k \in 1 .. seal[w].next - 1 \/ k = seal[w].next
    BY <1>2, <2>1
  <2> QED BY <1>1, <1>2, <2>2, <2>3 DEF SealerOK, ArtifactsOK, ResearchBy
<1>6. AppendOK(w)' /\ OutsideIsIdle(w)' /\ ReportOK(w)'
  BY <1>1, <1>2, <1>3 DEF SealerOK, AppendOK, OutsideIsIdle, ReportOK
<1> QED BY <1>4, <1>5, <1>6 DEF SealerOK

LEMMA CommitOK ==
    ASSUME SealType, NEW w \in Writer, SealerOK(w),
           ManifestExists(w) \/ LinkManifest(w) \/ CleanUpManifest(w)
    PROVE  SealerOK(w)'
<1>1. seal[w].phase \in {"artifacts", "linked"} /\ stage' = stage
  BY DEF ManifestExists, LinkManifest, CleanUpManifest, ReadyToCommit, journalVars
<1>2. stage'[w] = "idle"
  BY <1>1, Apart DEF SealerOK, OutsideIsIdle, PhaseNames
<1>3. PICK p \in {"linked", "sealed"}, b \in BOOLEAN :
          seal'[w] = [Enter(w, p) EXCEPT !.published = b]
  <2>1. CASE LinkManifest(w)
    BY <2>1, PutFacts DEF LinkManifest
  <2>2. CASE ManifestExists(w) \/ CleanUpManifest(w)
    <3>1. seal'[w] = Enter(w, "sealed")
      BY <2>2, PutFacts DEF ManifestExists, CleanUpManifest, OutcomeOfCleanup
    <3>2. [Enter(w, "sealed") EXCEPT !.published = seal[w].published] = Enter(w, "sealed")
          /\ seal[w].published \in BOOLEAN
      BY DEF Enter, SealType, SealRecord
    <3> QED BY <3>1, <3>2
  <2> QED BY <2>1, <2>2
<1>4. /\ seal'[w].phase = p /\ seal'[w].states = seal[w].states
      /\ seal'[w].revision = seal[w].revision
  BY <1>3 DEF Enter, SealType, SealRecord
<1>5. ManifestOf(w)' = ManifestOf(w)
  BY <1>4 DEF ManifestOf, ResearchBy
<1>6. ManifestOf(w) \in manifests'
  BY DEF ManifestExists, LinkManifest, CleanUpManifest, SealerOK, ReportOK
<1>7. ReportOK(w)'
  BY <1>4, <1>5, <1>6 DEF ReportOK
<1> QED BY <1>2, <1>4, <1>7, SettledOK

LEMMA ActorOK ==
    ASSUME Inv, Inv', SealType, SealType', NEW w \in Writer, SealStep(w), SealerOK(w)
    PROVE  SealerOK(w)'
BY StartOK, VerifyOK, CallOK, AppendStepOK, ReturnedOK, AbandonedOK, NotesStepOK, PublishOK,
   CommitOK DEF SealStep

-----------------------------------------------------------------------------
(* The notes file and the manifests *)

Whole(x) == [research |-> x, whole |-> TRUE]

\* What a step does to the notes file, and who may fill it afterwards.
LEMMA NotesStep ==
    ASSUME SealType, NEW w \in Writer, SealStep(w)
    PROVE  \/ notes' = notes /\ seal'[w].phase \notin {"notes_write", "artifacts"}
           \/ /\ notes' = notes /\ seal'[w].phase = seal[w].phase
              /\ seal'[w].revision = seal[w].revision
           \/ NotesExist(w) \/ CreateNotes(w) \/ WriteNotes(w)
<1>1. \A j \in Journal : j \notin {"notes_write", "artifacts"} /\ After(j) \notin {"notes_write", "artifacts"}
  BY Apart, AfterType DEF PhaseNames
<1>2. ASSUME NEW r \in Revision, StartSeal(w, r)
      PROVE  notes' = notes /\ seal'[w].phase \notin {"notes_write", "artifacts"}
  <2>1. Phases[1] \in Journal /\ seal'[w] = [Ready EXCEPT !.phase = Phases[1], !.revision = r]
    BY <1>2, Apart, PutFacts DEF StartSeal
  <2> QED BY <1>1, <1>2, <2>1 DEF StartSeal, Ready
<1>3. ASSUME NEW j \in Journal, VerifyJournal(w, j)
      PROVE  notes' = notes /\ seal'[w].phase \notin {"notes_write", "artifacts"}
  <2>1. seal'[w] = [Enter(w, After(j)) EXCEPT !.states[j] = EntriesOf(file[j].records)]
    BY <1>3, PutFacts DEF VerifyJournal
  <2>2. seal'[w].phase = After(j)
    BY <2>1 DEF Enter, SealType, SealRecord
  <2> QED BY <1>1, <1>3, <2>2 DEF VerifyJournal
<1>4. CASE UNCHANGED sealVars
  BY <1>4 DEF sealVars
<1>5. CASE AppendReturned(w) \/ PublishArtifact(w)
  <2>1. seal'[w] = [seal[w] EXCEPT !.next = @ + 1] /\ notes' = notes
    BY <1>5, PutFacts DEF AppendReturned, PublishArtifact
  <2> QED BY <2>1 DEF SealType, SealRecord
<1>6. CASE AppendRaised(w) \/ PublishThenFail(w) \/ FailSeal(w)
  <2>1. seal'[w] = [seal[w] EXCEPT !.phase = "failed"] /\ notes' = notes
    BY <1>6, PutFacts DEF AppendRaised, PublishThenFail, FailSeal
  <2> QED BY <2>1 DEF SealType, SealRecord
<1>7. CASE ManifestExists(w) \/ CleanUpManifest(w)
  <2>1. seal'[w] = Enter(w, "sealed") /\ notes' = notes
    BY <1>7, PutFacts DEF ManifestExists, CleanUpManifest, OutcomeOfCleanup
  <2> QED BY <2>1 DEF Enter, SealType, SealRecord
<1>8. CASE LinkManifest(w)
  <2>1. seal'[w] = [Enter(w, "linked") EXCEPT !.published = TRUE] /\ notes' = notes
    BY <1>8, PutFacts DEF LinkManifest
  <2> QED BY <2>1 DEF Enter, SealType, SealRecord
<1>9. CASE CrashSealer(w)
  BY <1>9, PutFacts, ReadyType DEF CrashSealer
<1> QED BY <1>2, <1>3, <1>4, <1>5, <1>6, <1>7, <1>8, <1>9 DEF SealStep, CallAppend

LEMMA NotesNext ==
    ASSUME Inv, SealType, NotesOK, NEW w \in Writer, SealStep(w)
    PROVE  NotesOK'
<1>1. \A v \in Writer : v # w => seal'[v] = seal[v]
  BY OthersStay
<1>2. CASE notes' = notes /\ seal'[w].phase \notin {"notes_write", "artifacts"}
  BY <1>1, <1>2 DEF NotesOK, OwnNotes, ResearchBy
<1>3. CASE /\ notes' = notes /\ seal'[w].phase = seal[w].phase
           /\ seal'[w].revision = seal[w].revision
  BY <1>1, <1>3 DEF NotesOK, OwnNotes, ResearchBy
<1>4. CASE NotesExist(w)
  <2>1. seal'[w] = Enter(w, "artifacts") /\ notes' = notes /\ OwnNotes(w)
    BY <1>4, PutFacts DEF NotesExist
  <2>2. seal'[w].phase = "artifacts" /\ seal'[w].revision = seal[w].revision
    BY <2>1 DEF Enter, SealType, SealRecord
  <2> QED BY <1>1, <2>1, <2>2 DEF NotesOK, OwnNotes, ResearchBy
<1>5. CASE CreateNotes(w)
  <2>1. /\ seal'[w] = Enter(w, "notes_write") /\ notes = NoNotes
        /\ notes' = [research |-> ResearchBy(w), whole |-> FALSE]
    BY <1>5, PutFacts DEF CreateNotes
  <2>2. seal'[w].phase = "notes_write" /\ seal'[w].revision = seal[w].revision
    BY <2>1 DEF Enter, SealType, SealRecord
  <2>3. \A v \in Writer : ResearchBy(v) \in Research
    BY PlanAssumption DEF SealType, SealRecord, ResearchBy
  <2>4. \A x \in Research, b \in BOOLEAN : NoNotes # [research |-> x, whole |-> b]
    BY PhaseAssumption
  <2>5. \A v \in Writer : seal[v].phase \notin {"notes_write", "artifacts"}
    BY <2>1, <2>3, <2>4 DEF NotesOK, OwnNotes
  <2> QED BY <1>1, <2>1, <2>2, <2>5 DEF NotesOK, OwnNotes, ResearchBy
<1>6. CASE WriteNotes(w)
  <2>1. /\ seal'[w] = Enter(w, "artifacts") /\ seal[w].phase = "notes_write"
        /\ notes' = [notes EXCEPT !.whole = TRUE]
    BY <1>6, PutFacts DEF WriteNotes
  <2>2. seal'[w].phase = "artifacts" /\ seal'[w].revision = seal[w].revision
    BY <2>1 DEF Enter, SealType, SealRecord
  <2>3. notes = [research |-> ResearchBy(w), whole |-> FALSE]
    BY <2>1 DEF NotesOK
  <2>4. notes' = [research |-> ResearchBy(w), whole |-> TRUE]
    BY <2>1, <2>3
  <2>5. \A v \in Writer : seal[v].phase # "artifacts"
    BY <2>3 DEF NotesOK, OwnNotes
  <2>6. \A v \in Writer : v # w => seal[v].phase # "notes_write"
    BY <2>1 DEF NotesOK
  <2> QED BY <1>1, <2>2, <2>4, <2>5, <2>6 DEF NotesOK, OwnNotes, ResearchBy
<1> QED BY <1>2, <1>3, <1>4, <1>5, <1>6, NotesStep

\* A notes file that is whole is never written again.
LEMMA WholeNotesStay ==
    ASSUME NotesOK, NEW w \in Writer, SealStep(w), SealType, NEW x \in Research, notes = Whole(x)
    PROVE  notes' = notes
<1>1. notes # NoNotes
  <2>1. Whole(x) \in [research : Research, whole : BOOLEAN]
    BY DEF Whole
  <2> QED BY <2>1, PhaseAssumption
<1>2. seal[w].phase # "notes_write"
  BY DEF NotesOK, Whole
<1> QED BY <1>1, <1>2, NotesStep DEF CreateNotes, WriteNotes, NotesExist

Complete(m) ==
    /\ \A j \in Journal : /\ m.states[j] = Plan[m.research][j]
                          /\ IsPrefix(m.states[j], Held(j))
    /\ notes = Whole(m.research)
    /\ \A k \in Range(Kinds) : <<k, m.research>> \in artifacts

\* A manifest is linked only when it is complete,
LEMMA LinkedIsComplete ==
    ASSUME Inv, SealType, NotesOK, NEW w \in Writer, SealerOK(w), ReadyToCommit(w)
    PROVE  Complete(ManifestOf(w)) /\ ResearchBy(w) \in Research
<1>1. seal[w].phase = "artifacts" /\ ResearchBy(w) \in Research
  BY PlanAssumption DEF ReadyToCommit, SealType, SealRecord, ResearchBy
<1>2. ASSUME NEW j \in Journal
      PROVE  seal[w].states[j] = Planned(w, j) /\ IsPrefix(seal[w].states[j], Held(j))
  <2>1. Verified(w, j)
    BY <1>1 DEF SealerOK, StatesOK
  <2>2. seal[w].states[j] \in Seq(Entry) /\ Planned(w, j) \in Seq(Entry)
    BY PlanType DEF SealType, SealRecord
  <2>3. Len(seal[w].states[j]) = Len(Planned(w, j))
    BY DEF ReadyToCommit, ManifestValid
  <2> QED BY <2>1, <2>2, <2>3, AlignedIsPlan DEF Verified
<1>3. notes = Whole(ResearchBy(w))
  BY <1>1 DEF NotesOK, OwnNotes, Whole
<1>4. ASSUME NEW k \in Range(Kinds) PROVE <<k, ResearchBy(w)>> \in artifacts
  <2>1. Len(Kinds) \in Nat /\ DOMAIN Kinds = 1 .. Len(Kinds)
    BY PhaseAssumption
  <2>2. PICK i \in 1 .. Len(Kinds) : Kinds[i] = k
    BY <2>1 DEF Range
  <2>3. seal[w].next \in 1 .. Len(Kinds) + 1 /\ seal[w].next > Len(Kinds)
        /\ \A n \in 1 .. seal[w].next - 1 : <<Kinds[n], ResearchBy(w)>> \in artifacts
    BY <1>1 DEF ReadyToCommit, SealerOK, ArtifactsOK
  <2>4. i \in 1 .. seal[w].next - 1
    BY <2>1, <2>3
  <2> QED BY <2>2, <2>3, <2>4
<1> QED BY <1>1, <1>2, <1>3, <1>4 DEF Complete, ManifestOf, Planned

\* and stays so.
LEMMA CompleteStays ==
    ASSUME Inv, SealType, NotesOK, NEW w \in Writer, SealStep(w),
           NEW m, Complete(m), m.research \in Research
    PROVE  Complete(m)'
<1>1. \A j \in Journal : m.states[j] \in Seq(Entry)
  BY PlanAssumption DEF Complete
<1>2. \A j \in Journal : IsPrefix(m.states[j], Held(j)')
  BY <1>1, JournalsGrow, HeldType, PrefixGrows DEF Complete
<1>3. notes' = notes
  BY WholeNotesStay DEF Complete
<1>4. artifacts \subseteq artifacts'
  BY DiskGrows
<1> QED BY <1>2, <1>3, <1>4 DEF Complete

ManifestsOK == \A m \in manifests : Complete(m) /\ m.research \in Research

LEMMA ManifestsMeans == ManifestsOK => ManifestIsComplete
BY DEF ManifestsOK, ManifestIsComplete, Complete, Whole, Held

LEMMA ManifestsNext ==
    ASSUME Inv, SealType, NotesOK, ManifestsOK, NEW w \in Writer, SealerOK(w), SealStep(w)
    PROVE  ManifestsOK'
<1>1. \A m \in manifests : Complete(m)' /\ m.research \in Research
  BY CompleteStays DEF ManifestsOK
<1>2. CASE LinkManifest(w)
  <2>1. manifests' = manifests \cup {ManifestOf(w)} /\ ReadyToCommit(w)
    BY <1>2 DEF LinkManifest
  <2>2. Complete(ManifestOf(w)) /\ ResearchBy(w) \in Research
    BY <2>1, LinkedIsComplete
  <2>3. ManifestOf(w).research \in Research
    BY <2>2 DEF ManifestOf
  <2>4. \A m : m = ManifestOf(w) => Complete(m)' /\ m.research \in Research
    BY <2>2, <2>3, CompleteStays
  <2> QED BY <1>1, <2>1, <2>4 DEF ManifestsOK
<1>3. CASE ~LinkManifest(w)
  <2>1. manifests' = manifests
    BY <1>3 DEF SealStep, StartSeal, CallAppend, VerifyJournal, AppendReturned, AppendRaised,
       NotesExist, CreateNotes, WriteNotes, PublishArtifact, PublishThenFail, ManifestExists,
       CleanUpManifest, FailSeal, CrashSealer, sealVars
  <2> QED BY <1>1, <2>1 DEF ManifestsOK
<1> QED BY <1>2, <1>3


-----------------------------------------------------------------------------
SealInv == /\ Inv /\ SealType /\ NotesOK /\ ManifestsOK
           /\ \A w \in Writer : SealerOK(w)

LEMMA SealInvInit == SealInit => SealInv
<1> SUFFICES ASSUME SealInit PROVE SealInv
  OBVIOUS
<1>1. Inv
  BY InitInv DEF SealInit
<1>2. \A w \in Writer : seal[w] = Ready /\ stage[w] = "idle"
  BY DEF SealInit, Init
<1>3. SealType /\ ManifestsOK
  BY <1>2, ReadyType DEF SealInit, SealType, ManifestsOK
<1>4. "ready" \notin Journal /\ \A i \in DOMAIN Phases : Phases[i] # "ready"
  BY Apart DEF PhaseNames
<1>5. NotesOK
  BY <1>2, ReadyType DEF NotesOK
<1>6. ASSUME NEW w \in Writer PROVE SealerOK(w)
  BY <1>2, <1>4, ReadyType DEF SealerOK, AppendOK, StatesOK, ArtifactsOK, OutsideIsIdle, ReportOK
<1> QED BY <1>1, <1>3, <1>5, <1>6 DEF SealInv

LEMMA SealInvNext == SealInv /\ [SealNext]_vars => SealInv'
<1> SUFFICES ASSUME SealInv, [SealNext]_vars PROVE SealInv'
  OBVIOUS
<1> USE DEF SealInv
<1>1. ASSUME NEW w \in Writer, SealStep(w) PROVE SealInv'
  <2>1. Inv'
    BY <1>1, JournalNext DEF SealerOK
  <2>2. SealType' /\ NotesOK' /\ ManifestsOK'
    BY <1>1, SealTypeNext, NotesNext, ManifestsNext
  <2>3. ASSUME NEW v \in Writer PROVE SealerOK(v)'
    BY <1>1, <2>1, <2>2, ActorOK, OthersOK
  <2> QED BY <2>1, <2>2, <2>3
<1>2. CASE UNCHANGED vars
  <2>1. Inv'
    BY <1>2, StepInv DEF vars
  <2>2. SealType' /\ NotesOK'
    BY <1>2 DEF vars, sealVars, SealType, NotesOK, OwnNotes, ResearchBy
  <2>3. /\ \A j \in Journal : Grown(Held(j), Held(j)')
        /\ artifacts \subseteq artifacts' /\ manifests \subseteq manifests'
    BY <1>2 DEF vars, journalVars, sealVars, Grown, Held
  <2>4. ManifestsOK'
    BY <1>2 DEF vars, journalVars, sealVars, ManifestsOK, Complete, Whole, Held
  <2>5. ASSUME NEW v \in Writer PROVE SealerOK(v)'
    <3>1. seal'[v] = seal[v] /\ stage'[v] = stage[v] /\ call'[v] = call[v]
      BY <1>2 DEF vars, journalVars, sealVars
    <3> QED BY <2>1, <2>3, <3>1, SealKept, AppendKept DEF SealerOK
  <2> QED BY <2>1, <2>2, <2>4, <2>5
<1> QED BY <1>1, <1>2 DEF SealNext, SealStep

\* Journals, sealers, notes and manifests keep the invariant, whoever races,
\* fails, dies and starts again (seal_preverified_gate1).
THEOREM SealInvCorrect == SealSpec => []SealInv
BY SealInvInit, SealInvNext, PTL DEF SealSpec

\* A manifest on disk is complete for ever: the states it binds are its
\* research and still begin the journals, its notes are whole and every
\* artifact is there (seal.py, the manifest's own digests).
THEOREM ManifestsComplete == SealSpec => []ManifestIsComplete
<1>1. SealInv => ManifestIsComplete
  BY ManifestsMeans DEF SealInv
<1> QED BY SealInvCorrect, <1>1, PTL

\* A seal that published its manifest never reports a failure, and one that
\* reports success has left its manifest on disk (seal.py).
THEOREM ReportsTrue == SealSpec => []SealReportIsTrue
<1>1. SealInv => SealReportIsTrue
  BY DEF SealInv, SealerOK, ReportOK, SealReportIsTrue
<1> QED BY SealInvCorrect, <1>1, PTL

\* The sealers use the journals as their specification allows, so what is
\* proved of the journals holds with them: chains stay intact.
THEOREM SealedChainsIntact == SealSpec => []ChainIntact
BY SealInvCorrect, PTL DEF SealInv, Inv

\* With sealers in place of arbitrary callers the journals still implement the
\* append-only log.
THEOREM SealedRefinement == SealSpec => ImplementsAppendOnlyLog
<1>1. SealInit => Log!Init
  BY DEF SealInit, Init, Log!Init, EntriesOf
<1>2. SealInv /\ [SealNext]_vars => [Log!Next]_(Log!vars)
  <2> SUFFICES ASSUME SealInv, [SealNext]_vars PROVE [Log!Next]_(Log!vars)
    OBVIOUS
  <2>1. ASSUME NEW w \in Writer, SealStep(w) PROVE [Log!Next]_(Log!vars)
    <3>1. CASE [Next]_journalVars
      BY <3>1, StepRefines DEF SealInv
    <3>2. CASE Forgets(w)
      BY <3>2, StutterStep DEF Forgets
    <3> QED BY <2>1, <3>1, <3>2, JournalSteps DEF SealInv, SealerOK
  <2>2. CASE UNCHANGED vars
    BY <2>2, StutterStep DEF vars, journalVars
  <2> QED BY <2>1, <2>2 DEF SealNext, SealStep
<1> QED BY <1>1, <1>2, SealInvCorrect, PTL DEF SealSpec, ImplementsAppendOnlyLog, Log!Spec

-----------------------------------------------------------------------------
(* The types of what is on disk *)

StoreType ==
    /\ notes \in [research : Research, whole : BOOLEAN] \cup {NoNotes}
    /\ artifacts \subseteq Range(Kinds) \X Research
    /\ \A m \in manifests : ResearchOf[m.revision] = m.research
    /\ \A w \in Writer : seal[w].phase \in {"notes", "notes_write", "linked"} => seal[w].next = 1

LEMMA StoreNext ==
    ASSUME SealInv, StoreType, NEW w \in Writer, SealStep(w)
    PROVE  StoreType'
<1> USE DEF StoreType
<1>1. /\ SealType /\ SealerOK(w) /\ ResearchBy(w) \in Research
      /\ \A v \in Writer : v # w => seal'[v] = seal[v]
  BY OthersStay, PlanAssumption DEF SealInv, SealType, SealRecord, ResearchBy
<1>2. CASE UNCHANGED sealVars
  BY <1>2 DEF sealVars
<1>3. ASSUME NEW r \in Revision, StartSeal(w, r) PROVE StoreType'
  <2>1. seal'[w] = [Ready EXCEPT !.phase = Phases[1], !.revision = r]
    BY <1>1, <1>3, PutFacts DEF StartSeal
  <2>2. seal'[w].next = 1
    BY <2>1 DEF Ready
  <2> QED BY <1>1, <1>3, <2>2 DEF StartSeal
<1>4. ASSUME NEW j \in Journal, VerifyJournal(w, j) PROVE StoreType'
  <2>1. seal'[w] = [Enter(w, After(j)) EXCEPT !.states[j] = EntriesOf(file[j].records)]
    BY <1>1, <1>4, PutFacts DEF VerifyJournal
  <2>2. seal'[w].next = 1
    BY <1>1, <2>1 DEF Enter, SealType, SealRecord
  <2> QED BY <1>1, <1>4, <2>2 DEF VerifyJournal
<1>5. CASE AppendReturned(w)
  <2>1. seal'[w] = [seal[w] EXCEPT !.next = @ + 1] /\ seal[w].phase \notin PhaseNames
    BY <1>1, <1>5, PutFacts, Apart DEF AppendReturned, SealerOK, OutsideIsIdle
  <2>2. seal'[w].phase \notin {"notes", "notes_write", "linked"}
    BY <1>1, <2>1 DEF SealType, SealRecord, PhaseNames
  <2> QED BY <1>1, <1>5, <2>2 DEF AppendReturned
<1>6. CASE AppendRaised(w) \/ FailSeal(w)
  <2>1. seal'[w] = [seal[w] EXCEPT !.phase = "failed"]
    BY <1>1, <1>6, PutFacts DEF AppendRaised, FailSeal
  <2>2. seal'[w].phase = "failed"
    BY <1>1, <2>1 DEF SealType, SealRecord
  <2> QED BY <1>1, <1>6, <2>2 DEF AppendRaised, FailSeal
<1>7. CASE PublishArtifact(w) \/ PublishThenFail(w)
  <2>1. seal'[w].phase \in {"artifacts", "failed"}
    <3>1. CASE PublishArtifact(w)
      BY <1>1, <3>1, PutFacts DEF PublishArtifact, SealType, SealRecord
    <3>2. CASE PublishThenFail(w)
      BY <1>1, <3>2, PutFacts DEF PublishThenFail, SealType, SealRecord
    <3> QED BY <1>7, <3>1, <3>2
  <2>2. Kinds[seal[w].next] \in Range(Kinds)
    <3>1. seal[w].next \in 1 .. Len(Kinds) + 1 /\ seal[w].next <= Len(Kinds)
      BY <1>1, <1>7 DEF PublishArtifact, PublishThenFail, SealerOK, ArtifactsOK
    <3> QED BY <3>1, PhaseAssumption DEF Range
  <2>3. artifacts' \subseteq Range(Kinds) \X Research
    BY <1>1, <1>7, <2>2 DEF PublishArtifact, PublishThenFail
  <2> QED BY <1>1, <1>7, <2>1, <2>3 DEF PublishArtifact, PublishThenFail
<1>8. CASE NotesExist(w) \/ CreateNotes(w) \/ WriteNotes(w)
  <2>1. seal'[w].next = 1
    BY <1>1, <1>8, PutFacts DEF NotesExist, CreateNotes, WriteNotes, Enter, SealType, SealRecord
  <2>2. notes' \in [research : Research, whole : BOOLEAN] \cup {NoNotes}
    <3>1. CASE NotesExist(w)
      BY <3>1 DEF NotesExist
    <3>2. CASE CreateNotes(w)
      <4>1. notes' = [research |-> ResearchBy(w), whole |-> FALSE]
        BY <3>2 DEF CreateNotes
      <4> QED BY <1>1, <4>1
    <3>3. CASE WriteNotes(w)
      <4>1. notes' = [notes EXCEPT !.whole = TRUE]
            /\ notes = [research |-> ResearchBy(w), whole |-> FALSE]
        BY <3>3 DEF WriteNotes, SealInv, NotesOK
      <4>2. notes' = [research |-> ResearchBy(w), whole |-> TRUE]
        BY <4>1
      <4> QED BY <1>1, <4>2
    <3> QED BY <1>8, <3>1, <3>2, <3>3
  <2> QED BY <1>1, <1>8, <2>1, <2>2 DEF NotesExist, CreateNotes, WriteNotes
<1>9. CASE ManifestExists(w) \/ CleanUpManifest(w) \/ LinkManifest(w)
  <2>1. seal'[w].next = 1
    BY <1>1, <1>9, PutFacts DEF ManifestExists, CleanUpManifest, OutcomeOfCleanup, LinkManifest,
       Enter, SealType, SealRecord
  <2>2. ResearchOf[ManifestOf(w).revision] = ManifestOf(w).research
    BY DEF ManifestOf, ResearchBy
  <2> QED BY <1>1, <1>9, <2>1, <2>2 DEF ManifestExists, CleanUpManifest, LinkManifest
<1>10. CASE CrashSealer(w)
  BY <1>1, <1>10, PutFacts, ReadyType DEF CrashSealer
<1> QED BY <1>2, <1>3, <1>4, <1>5, <1>6, <1>7, <1>8, <1>9, <1>10 DEF SealStep, CallAppend

LEMMA StoreTypeMeans == SealInv /\ StoreType => SealTypeOK
<1> SUFFICES ASSUME SealInv, StoreType PROVE SealTypeOK
  OBVIOUS
<1>1. ASSUME NEW w \in Writer, Running(w) PROVE seal[w].next \in 1 .. Items(w) + 1
  <2>1. CASE seal[w].phase \in Journal
    BY <2>1 DEF SealInv, SealerOK, AppendOK, Items
  <2>2. CASE seal[w].phase \in PhaseNames
    <3>1. Items(w) = Len(Kinds) /\ Len(Kinds) \in Nat
      BY <2>2, Apart, PhaseAssumption DEF Items
    <3>2. seal[w].phase = "artifacts" \/ seal[w].next = 1
      BY <1>1, <2>2 DEF StoreType, Running, PhaseNames
    <3>3. seal[w].phase = "artifacts" => seal[w].next \in 1 .. Len(Kinds) + 1
      BY DEF SealInv, SealerOK, ArtifactsOK
    <3> QED BY <3>1, <3>2, <3>3
  <2> QED BY <2>1, <2>2 DEF SealInv, SealType, SealRecord
<1>2. \A w \in Writer : /\ seal[w].revision \in Revision /\ seal[w].published \in BOOLEAN
                        /\ seal[w].states \in [Journal -> Seq(Entry)]
  BY DEF SealInv, SealType, SealRecord
<1>3. TypeOK
  BY DEF SealInv, Inv
<1> QED BY <1>1, <1>2, <1>3 DEF SealTypeOK, StoreType

\* Sealers, notes, artifacts and manifests keep their types, and a seal never
\* runs past the end of what it writes (seal.py).
THEOREM SealTypeCorrect == SealSpec => []SealTypeOK
<1>1. SealInit => StoreType
  BY ReadyType DEF SealInit, StoreType
<1>2. SealInv /\ StoreType /\ [SealNext]_vars => StoreType'
  <2> SUFFICES ASSUME SealInv, StoreType, [SealNext]_vars PROVE StoreType'
    OBVIOUS
  <2>1. ASSUME NEW w \in Writer, SealStep(w) PROVE StoreType'
    BY <2>1, StoreNext
  <2>2. CASE UNCHANGED vars
    BY <2>2 DEF vars, sealVars, StoreType
  <2> QED BY <2>1, <2>2 DEF SealNext, SealStep
<1> QED BY <1>1, <1>2, SealInvCorrect, StoreTypeMeans, PTL DEF SealSpec
=============================================================================
