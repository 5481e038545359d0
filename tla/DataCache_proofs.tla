-------------------------- MODULE DataCache_proofs --------------------------
(***************************************************************************)
(* Proofs about the market-data cache.  The inductive invariant says what  *)
(* a task knows at each stage, that a process that is writing or cleaning  *)
(* up owns a temporary directory, and that no two processes own the same.  *)
(* A second one, SearchInv, follows the two searches of the cache: a version *)
(* that was there when a search began is still to be opened, is being read,  *)
(* or has been found or compared.                                          *)
(***************************************************************************)
EXTENDS DataCache, TLAPS

Owning(t) == t.stage \in {"write", "cleanup"}

OwnTemporary(t) ==
    /\ t.at \in Path
    /\ disk[t.at.dir] \in Dataset
    /\ disk[t.at.dir].place = "temporary"
    /\ t.stage = "write" =>
          /\ disk[t.at.dir].bars \in {"absent", "partial", "whole"}
          /\ disk[t.at.dir].metadata \in {"absent", "partial", "whole"}

TaskSound(t) ==
    /\ t.stage = "admit" => t.content \in Content
    /\ t.stage \in {"lookup", "peek", "make"} => t.content \in Clean
    /\ t.stage \in {"peek", "read_metadata", "read_bars"} => t.at \in Path
    /\ t.stage = "returned" => t.loaded \in Clean
    /\ \A f \in t.found : f.loaded \in Clean
    /\ Owning(t) => OwnTemporary(t)

OwnersApart ==
    \A p, q \in Process :
        p # q /\ Owning(task[p]) /\ Owning(task[q]) => task[p].at.dir # task[q].at.dir

\* The inductive invariant.
Inv ==
    /\ TypeOK
    /\ \A p \in Process : TaskSound(task[p])
    /\ OwnersApart

-----------------------------------------------------------------------------
\* The task of a process that does nothing is well formed and sound.
LEMMA IdleSound == Idle \in Task /\ TaskSound(Idle) /\ ~Owning(Idle)
  BY DEF Idle, Task, Stage, Reason, Nowhere, TaskSound, Owning

\* So is the task of one that raised.
LEMMA RaisedSound ==
    LET r == [Idle EXCEPT !.stage = "raised"]
    IN  r \in Task /\ TaskSound(r) /\ ~Owning(r)
  BY DEF Idle, Task, Stage, Reason, Nowhere, TaskSound, Owning

\* Initially the invariant holds.
LEMMA InitInv == Init => Inv
<1> SUFFICES ASSUME Init PROVE Inv
  OBVIOUS
<1>1. TypeOK
  BY IdleSound DEF Init, TypeOK
<1>2. \A p \in Process : TaskSound(task[p]) /\ ~Owning(task[p])
  BY IdleSound DEF Init
<1> QED BY <1>1, <1>2 DEF Inv, OwnersApart

\* A step that only gives a process another sound task keeps the invariant,
\* provided that it owns nothing new.
LEMMA TaskStep ==
    ASSUME Inv, NEW p \in Process, NEW t \in Task, TaskSound(t), Put(p, t),
           Owning(t) => Owning(task[p]) /\ t.at = task[p].at,
           UNCHANGED <<disk, clock, powerLosses>>,
           quarantine' \subseteq Content \ Clean
    PROVE  Inv'
<1>0. task \in [Process -> Task] /\ task'[p] = t
      /\ \A q \in Process : q # p => task'[q] = task[q]
  BY DEF Inv, TypeOK, Put
<1>1. TypeOK'
  BY <1>0 DEF Inv, TypeOK, Put
<1>2. \A q \in Process : TaskSound(task'[q])
  BY <1>0 DEF Inv
<1>3. \A q \in Process : TaskSound(task[q])'
  BY <1>2 DEF TaskSound, OwnTemporary, Owning
<1>4. OwnersApart'
  BY <1>0 DEF Inv, OwnersApart, Owning
<1> QED BY <1>1, <1>3, <1>4 DEF Inv

\* A step of a process to one directory, its own or a new one, keeps what all
\* the other processes know.
LEMMA DirectoryStep ==
    ASSUME Inv, NEW p \in Process, NEW t \in Task, NEW d \in Dir, NEW s \in Dataset,
           task' = [task EXCEPT ![p] = t], disk' = [disk EXCEPT ![d] = s],
           TaskSound(t)', Owning(t) => t.at.dir = d,
           ~Made(d) \/ (Owning(task[p]) /\ task[p].at.dir = d),
           UNCHANGED <<quarantine, clock, powerLosses>>
    PROVE  Inv'
<1>0. /\ disk \in [Dir -> Dataset \cup {NoDataset}]
      /\ task \in [Process -> Task]
      /\ task'[p] = t
      /\ \A q \in Process : q # p => task'[q] = task[q]
      /\ disk'[d] = s
      /\ \A e \in Dir : e # d => disk'[e] = disk[e]
  BY DEF Inv, TypeOK
<1>1. TypeOK'
  BY <1>0 DEF Inv, TypeOK
<1>2. \A q \in Process : q # p /\ Owning(task[q]) => task[q].at.dir \in Dir /\ task[q].at.dir # d
  <2> SUFFICES ASSUME NEW q \in Process, q # p, Owning(task[q])
               PROVE  task[q].at.dir \in Dir /\ task[q].at.dir # d
    OBVIOUS
  <2>1. OwnTemporary(task[q])
    BY DEF Inv, TaskSound
  <2>2. Made(task[q].at.dir) /\ task[q].at.dir \in Dir
    BY <2>1, NoDatasetAssumption DEF OwnTemporary, Made, Path
  <2> QED BY <2>2 DEF Inv, OwnersApart
<1>3. \A q \in Process : TaskSound(task[q])'
  <2> SUFFICES ASSUME NEW q \in Process, q # p PROVE TaskSound(task[q])'
    BY <1>0
  <2>1. TaskSound(task[q]) /\ task'[q] = task[q]
    BY <1>0 DEF Inv
  <2>2. Owning(task[q]) => disk'[task[q].at.dir] = disk[task[q].at.dir]
    BY <1>0, <1>2
  <2> QED BY <2>1, <2>2 DEF TaskSound, OwnTemporary, Owning
<1>4. OwnersApart'
  BY <1>0, <1>2 DEF Inv, OwnersApart, Owning
<1> QED BY <1>1, <1>3, <1>4 DEF Inv

\* Every step of a process that leaves the directories alone keeps it.
LEMMA ReadingStepInv ==
    ASSUME Inv, NEW p \in Process,
           \/ \E refresh \in BOOLEAN : Load(p, refresh)
           \/ \E a \in Path : SkipDirectory(p, a) \/ OpenDirectory(p, a)
           \/ FindReturns(p) \/ FindMisses(p)
           \/ \E c \in Content : Fetch(p, c)
           \/ Quarantine(p) \/ Admit(p)
           \/ PeekOther(p) \/ PeekSame(p) \/ PeekRaises(p) \/ LookupMisses(p)
           \/ WriteFails(p) \/ ReadMetadata(p) \/ ReadBars(p)
           \/ Fail(p) \/ Finish(p) \/ Crash(p)
    PROVE  Inv'
<1>0. /\ TypeOK
      /\ task[p] \in Task
      /\ TaskSound(task[p])
      /\ quarantine \subseteq Content \ Clean
  BY DEF Inv, TypeOK
<1>raised. Raise(p) /\ UNCHANGED <<disk, clock, powerLosses>>
           /\ quarantine' \subseteq Content \ Clean => Inv'
  BY RaisedSound, TaskStep DEF Raise
<1>idle. Put(p, Idle) /\ UNCHANGED <<disk, quarantine, clock, powerLosses>> => Inv'
  BY <1>0, IdleSound, TaskStep
<1>1. ASSUME NEW refresh \in BOOLEAN, Load(p, refresh) PROVE Inv'
  <2> DEFINE t == IF refresh THEN [Idle EXCEPT !.stage = "fetch"]
                  ELSE [Idle EXCEPT !.stage = "find", !.todo = Listing, !.seen = Versions]
  <2>1. Listing \in SUBSET Path /\ Versions \in SUBSET Dir
    BY DEF Listing, Versions
  <2>2. t \in Task /\ TaskSound(t) /\ ~Owning(t)
    BY <2>1 DEF Idle, Nowhere, Task, Stage, Reason, TaskSound, Owning, OwnTemporary
  <2>3. Put(p, t) /\ UNCHANGED <<disk, quarantine, clock, powerLosses>>
    BY <1>1 DEF Load
  <2> HIDE DEF t
  <2> QED BY <1>0, <2>2, <2>3, TaskStep
<1>2. ASSUME NEW a \in Path, SkipDirectory(p, a) PROVE Inv'
  <2> DEFINE t == [task[p] EXCEPT !.todo = @ \ {a}]
  <2>1. t \in Task /\ TaskSound(t) /\ (Owning(t) => Owning(task[p]) /\ t.at = task[p].at)
    BY <1>0, <1>2 DEF Task, Stage, Reason, TaskSound, Owning, OwnTemporary, SkipDirectory
  <2>2. Put(p, t) /\ UNCHANGED <<disk, clock, powerLosses>> /\ quarantine' \subseteq Content \ Clean
    BY <1>0, <1>2 DEF SkipDirectory
  <2> HIDE DEF t
  <2> QED BY <2>1, <2>2, TaskStep
<1>3. ASSUME NEW a \in Path, OpenDirectory(p, a) PROVE Inv'
  <2> DEFINE t == [task[p] EXCEPT !.todo = @ \ {a}, !.at = a, !.reason = task[p].stage,
                  !.stage = IF @ = "find" THEN "read_metadata" ELSE "peek"]
  <2>1. /\ t \in Task /\ t.stage \in {"read_metadata", "peek"}
        /\ t.at = a /\ t.found = task[p].found /\ t.content = task[p].content
        /\ t.stage = "peek" => task[p].stage = "lookup"
    BY <1>0, <1>3 DEF Task, Stage, Reason, OpenDirectory
  <2>2. Put(p, t) /\ UNCHANGED <<disk, clock, powerLosses>> /\ quarantine' \subseteq Content \ Clean
    BY <1>0, <1>3 DEF OpenDirectory
  <2> HIDE DEF t
  <2>3. TaskSound(t) /\ ~Owning(t)
    BY <1>0, <2>1 DEF TaskSound, Owning
  <2> QED BY <2>1, <2>2, <2>3, TaskStep
<1>4. ASSUME FindReturns(p) PROVE Inv'
  <2>1. PICK f \in task[p].found :
           Put(p, [task[p] EXCEPT !.stage = "returned", !.at = f.at, !.loaded = f.loaded])
    BY <1>4 DEF FindReturns, Newest
  <2> DEFINE t == [task[p] EXCEPT !.stage = "returned", !.at = f.at, !.loaded = f.loaded]
  <2>2. f.at \in Path /\ f.loaded \in Content \cup {Corrupt} /\ f.loaded \in Clean
    BY <1>0 DEF Task, Found, TaskSound
  <2>3. /\ t \in Task /\ t.stage = "returned" /\ t.loaded = f.loaded
        /\ t.found = task[p].found
    BY <1>0, <2>2 DEF Task, Stage
  <2>4. Put(p, t) /\ UNCHANGED <<disk, quarantine, clock, powerLosses>>
    BY <1>4, <2>1 DEF FindReturns
  <2> HIDE DEF t
  <2>5. TaskSound(t) /\ ~Owning(t)
    BY <1>0, <2>2, <2>3 DEF TaskSound, Owning
  <2> QED BY <1>0, <2>3, <2>4, <2>5, TaskStep
<1>5. ASSUME FindMisses(p) PROVE Inv'
  <2> DEFINE t == [Idle EXCEPT !.stage = "fetch"]
  <2>1. t \in Task /\ TaskSound(t) /\ ~Owning(t)
    BY DEF Idle, Nowhere, Task, Stage, Reason, TaskSound, Owning, OwnTemporary
  <2>2. Put(p, t) /\ UNCHANGED <<disk, quarantine, clock, powerLosses>>
    BY <1>5 DEF FindMisses
  <2> HIDE DEF t
  <2> QED BY <1>0, <2>1, <2>2, TaskStep
<1>6. ASSUME NEW c \in Content, Fetch(p, c) PROVE Inv'
  <2> DEFINE t == [Idle EXCEPT !.stage = "admit", !.content = c]
  <2>1. t \in Task /\ TaskSound(t) /\ ~Owning(t)
    BY DEF Idle, Nowhere, Task, Stage, Reason, TaskSound, Owning, OwnTemporary
  <2>2. Put(p, t) /\ UNCHANGED <<disk, quarantine, clock, powerLosses>>
    BY <1>6 DEF Fetch
  <2> HIDE DEF t
  <2> QED BY <1>0, <2>1, <2>2, TaskStep
<1>7. ASSUME Quarantine(p) PROVE Inv'
  <2>1. task[p].content \in Content \ Clean
    <3>1. task[p].content \in Content \cup {NoContent} /\ task[p].content \notin Clean
      BY <1>0, <1>7 DEF Quarantine, ReportClean, Task
    <3>2. task[p].content \in Content
      BY <1>0, <1>7 DEF Quarantine, TaskSound
    <3> QED BY <3>1, <3>2
  <2> QED BY <1>0, <1>7, <2>1, <1>raised DEF Quarantine
<1>8. ASSUME Admit(p) PROVE Inv'
  <2> DEFINE t == [task[p] EXCEPT !.stage = "lookup", !.moment = clock,
                                  !.todo = Listing, !.seen = Versions]
  <2>1. Listing \in SUBSET Path /\ Versions \in SUBSET Dir /\ clock \in Nat
    BY <1>0 DEF Listing, Versions, TypeOK
  <2>2. t \in Task /\ TaskSound(t) /\ ~Owning(t)
    BY <1>0, <1>8, <2>1 DEF Admit, ReportClean, Task, Stage, Reason, TaskSound, Owning, OwnTemporary
  <2>3. Put(p, t) /\ UNCHANGED <<disk, quarantine, clock, powerLosses>>
    BY <1>8 DEF Admit
  <2> HIDE DEF t
  <2> QED BY <1>0, <2>2, <2>3, TaskStep
<1>9. ASSUME PeekOther(p) PROVE Inv'
  <2> DEFINE t == [task[p] EXCEPT !.stage = "lookup", !.at = Nowhere, !.reason = "none"]
  <2>1. t \in Task /\ TaskSound(t) /\ (Owning(t) => Owning(task[p]) /\ t.at = task[p].at)
    BY <1>0, <1>9 DEF Task, Stage, Reason, TaskSound, Owning, OwnTemporary, PeekOther
  <2>2. Put(p, t) /\ UNCHANGED <<disk, clock, powerLosses>> /\ quarantine' \subseteq Content \ Clean
    BY <1>0, <1>9 DEF PeekOther
  <2> HIDE DEF t
  <2> QED BY <2>1, <2>2, TaskStep
<1>10. ASSUME PeekSame(p) PROVE Inv'
  <2> DEFINE t == [task[p] EXCEPT !.stage = "read_metadata"]
  <2>1. t \in Task /\ TaskSound(t) /\ (Owning(t) => Owning(task[p]) /\ t.at = task[p].at)
    BY <1>0, <1>10 DEF Task, Stage, Reason, TaskSound, Owning, OwnTemporary, PeekSame
  <2>2. Put(p, t) /\ UNCHANGED <<disk, clock, powerLosses>> /\ quarantine' \subseteq Content \ Clean
    BY <1>0, <1>10 DEF PeekSame
  <2> HIDE DEF t
  <2> QED BY <2>1, <2>2, TaskStep
<1>11. ASSUME PeekRaises(p) PROVE Inv'
  BY <1>0, <1>11, <1>raised DEF PeekRaises
<1>12. ASSUME LookupMisses(p) PROVE Inv'
  <2> DEFINE t == [task[p] EXCEPT !.stage = "make"]
  <2>1. CASE Raise(p)
    BY <1>0, <1>12, <2>1, <1>raised DEF LookupMisses
  <2>2. CASE Put(p, t)
    <3>1. t \in Task /\ TaskSound(t) /\ ~Owning(t)
      BY <1>0, <1>12 DEF LookupMisses, Task, Stage, Reason, TaskSound, Owning, OwnTemporary
    <3>2. UNCHANGED <<disk, quarantine, clock, powerLosses>>
      BY <1>12 DEF LookupMisses
    <3> HIDE DEF t
    <3> QED BY <1>0, <2>2, <3>1, <3>2, TaskStep
  <2> QED BY <1>12, <2>1, <2>2 DEF LookupMisses
<1>13. ASSUME WriteFails(p) PROVE Inv'
  <2> DEFINE t == [task[p] EXCEPT !.stage = "cleanup"]
  <2>1. t \in Task /\ TaskSound(t) /\ (Owning(t) => Owning(task[p]) /\ t.at = task[p].at)
    BY <1>0, <1>13 DEF Task, Stage, Reason, TaskSound, Owning, OwnTemporary, WriteFails
  <2>2. Put(p, t) /\ UNCHANGED <<disk, clock, powerLosses>> /\ quarantine' \subseteq Content \ Clean
    BY <1>0, <1>13 DEF WriteFails
  <2> HIDE DEF t
  <2> QED BY <2>1, <2>2, TaskStep
<1>14. ASSUME ReadMetadata(p) PROVE Inv'
  <2> DEFINE t == [task[p] EXCEPT !.stage = "read_bars"]
  <2>1. CASE Raise(p)
    BY <1>0, <1>14, <2>1, <1>raised DEF ReadMetadata
  <2>2. CASE Put(p, t)
    <3>1. t \in Task /\ TaskSound(t) /\ ~Owning(t)
      BY <1>0, <1>14 DEF ReadMetadata, Task, Stage, Reason, TaskSound, Owning, OwnTemporary
    <3>2. UNCHANGED <<disk, quarantine, clock, powerLosses>>
      BY <1>14 DEF ReadMetadata
    <3> HIDE DEF t
    <3> QED BY <1>0, <2>2, <3>1, <3>2, TaskStep
  <2> QED BY <1>14, <2>1, <2>2 DEF ReadMetadata, RaiseFromRead
<1>15. ASSUME ReadBars(p) PROVE Inv'
  <2> DEFINE a == task[p].at
             found == [task[p] EXCEPT !.stage = "find", !.at = Nowhere, !.reason = "none",
                          !.found = @ \cup {[at |-> a, loaded |-> LoadedFrom(a.dir)]}]
             returned == [task[p] EXCEPT !.stage = "returned", !.loaded = LoadedFrom(a.dir)]
  <2>0. UNCHANGED <<disk, quarantine, clock, powerLosses>> /\ task[p].stage = "read_bars" /\ a \in Path
    BY <1>0, <1>15 DEF ReadBars, TaskSound
  <2>1. Readable(a) => LoadedFrom(a.dir) \in Clean
    <3> SUFFICES ASSUME Readable(a) PROVE LoadedFrom(a.dir) \in Clean
      OBVIOUS
    <3>1. disk[a.dir] \in Dataset
      BY <1>0, <2>0 DEF Readable, Exists, Made, TypeOK, Path
    <3> QED BY <3>1 DEF Readable, HashMatches, Dataset
  <2>2. CASE Raise(p)
    BY <1>0, <2>0, <2>2, <1>raised
  <2>3. CASE Readable(a) /\ Put(p, found)
    <3>1. [at |-> a, loaded |-> LoadedFrom(a.dir)] \in Found
      BY <2>0, <2>1, <2>3, CleanAssumption DEF Found
    <3>2. found \in Task
      BY <1>0, <3>1 DEF Task, Stage, Reason
    <3>3. TaskSound(found) /\ ~Owning(found)
      BY <1>0, <2>1, <2>3 DEF Task, TaskSound, Owning
    <3> HIDE DEF found
    <3> QED BY <1>0, <2>0, <2>3, <3>2, <3>3, TaskStep
  <2>4. CASE Readable(a) /\ Put(p, returned)
    <3>1. returned \in Task /\ TaskSound(returned) /\ ~Owning(returned)
      BY <1>0, <2>0, <2>1, <2>4, CleanAssumption DEF Task, Stage, Reason, TaskSound, Owning, OwnTemporary
    <3> HIDE DEF returned
    <3> QED BY <1>0, <2>0, <2>4, <3>1, TaskStep
  <2> QED BY <1>15, <2>2, <2>3, <2>4 DEF ReadBars, RaiseFromRead
<1>16. ASSUME Fail(p) PROVE Inv'
  BY <1>0, <1>16, <1>raised DEF Fail
<1>17. ASSUME Finish(p) \/ Crash(p) PROVE Inv'
  BY <1>0, <1>17, <1>idle DEF Finish, Crash
<1> QED BY <1>1, <1>2, <1>3, <1>4, <1>5, <1>6, <1>7, <1>8, <1>9, <1>10, <1>11, <1>12,
           <1>13, <1>14, <1>15, <1>16, <1>17

\* What a process that writes or cleans up knows about its directory.
LEMMA OwnDirectory ==
    ASSUME Inv, NEW p \in Process, Owning(task[p])
    PROVE  LET d == task[p].at.dir
           IN  /\ d \in Dir /\ disk[d] \in Dataset /\ Made(d)
               /\ task[p] \in Task /\ task[p].at = [dir |-> d, place |-> task[p].at.place]
               /\ task[p].at \in Path
               /\ TaskSound(task[p]) /\ OwnTemporary(task[p])
  BY NoDatasetAssumption DEF Inv, TypeOK, TaskSound, OwnTemporary, Path, Made

\* The steps of a process that change a directory keep the invariant.
LEMMA WritingStepInv ==
    ASSUME Inv, NEW p \in Process,
           \/ \E d \in Dir : MakeTemporary(p, d)
           \/ WriteMore(p) \/ Publish(p) \/ RemoveFile(p) \/ RemoveTemporary(p)
    PROVE  Inv'
<1>0. /\ task \in [Process -> Task]
      /\ disk \in [Dir -> Dataset \cup {NoDataset}]
      /\ task[p] \in Task
      /\ TaskSound(task[p])
  BY DEF Inv, TypeOK
<1>1. ASSUME NEW d \in Dir, MakeTemporary(p, d) PROVE Inv'
  <2>1. PICK s \in Dataset :
           s = [place |-> "temporary", moment |-> task[p].moment,
                content |-> task[p].content, bars |-> "absent", metadata |-> "absent"]
    BY <1>0, <1>1 DEF MakeTemporary, TaskSound, Task, Dataset, FileState
  <2>2. PICK t \in Task :
           t = [task[p] EXCEPT !.stage = "write",
                   !.at = [dir |-> d, place |-> "temporary"], !.reason = "publish"]
    BY <1>0 DEF Task, Stage, Reason, Path
  <2>3. t.at.dir = d /\ t.at \in Path /\ t.stage = "write" /\ t.found = task[p].found
    BY <1>0, <2>2 DEF Task, Path
  <2>4. disk' = [disk EXCEPT ![d] = s] /\ task' = [task EXCEPT ![p] = t] /\ ~Made(d)
        /\ UNCHANGED <<quarantine, clock, powerLosses>>
    BY <1>1, <2>1, <2>2 DEF MakeTemporary, Put
  <2>5. disk'[d] = s
    BY <1>0, <2>4
  <2>6. TaskSound(t)'
    BY <1>0, <2>1, <2>3, <2>5 DEF TaskSound, Owning, OwnTemporary
  <2> QED BY <2>3, <2>4, <2>6, DirectoryStep
<1>2. ASSUME WriteMore(p) PROVE Inv'
  <2>1. Owning(task[p]) /\ task[p].stage = "write"
    BY <1>2 DEF WriteMore, Owning
  <2>2. PICK d \in Dir : d = task[p].at.dir
    BY <2>1, OwnDirectory
  <2>3. PICK t \in Task : t = task[p]
    BY <1>0
  <2>4. disk[d] \in Dataset /\ TaskSound(t) /\ OwnTemporary(t) /\ t.at.dir = d
    BY <2>1, <2>2, <2>3, OwnDirectory
  <2>5. PICK s \in Dataset :
           /\ disk' = [disk EXCEPT ![d] = s]
           /\ s.place = "temporary"
           /\ s.bars \in {"absent", "partial", "whole"}
           /\ s.metadata \in {"absent", "partial", "whole"}
    <3>1. /\ disk[d].place = "temporary"
          /\ disk[d].bars \in {"absent", "partial", "whole"}
          /\ disk[d].metadata \in {"absent", "partial", "whole"}
      BY <2>1, <2>3, <2>4 DEF OwnTemporary
    <3>2. CASE disk[d].bars # "whole" /\ disk' = [disk EXCEPT ![d].bars = Further[@]]
      <4>1. Further[disk[d].bars] \in {"partial", "whole"}
        BY <3>1, <3>2 DEF Further
      <4> DEFINE s == [disk[d] EXCEPT !.bars = Further[disk[d].bars]]
      <4>2. s \in Dataset /\ s.place = "temporary" /\ s.bars \in {"partial", "whole"}
            /\ s.metadata = disk[d].metadata
        BY <2>4, <3>1, <4>1 DEF Dataset, FileState
      <4>3. disk' = [disk EXCEPT ![d] = s]
        BY <3>2
      <4> QED BY <3>1, <4>2, <4>3
    <3>3. CASE disk[d].metadata # "whole" /\ disk' = [disk EXCEPT ![d].metadata = Further[@]]
      <4>1. Further[disk[d].metadata] \in {"partial", "whole"}
        BY <3>1, <3>3 DEF Further
      <4> DEFINE s == [disk[d] EXCEPT !.metadata = Further[disk[d].metadata]]
      <4>2. s \in Dataset /\ s.place = "temporary" /\ s.metadata \in {"partial", "whole"}
            /\ s.bars = disk[d].bars
        BY <2>4, <3>1, <4>1 DEF Dataset, FileState
      <4>3. disk' = [disk EXCEPT ![d] = s]
        BY <3>3
      <4> QED BY <3>1, <4>2, <4>3
    <3> QED BY <1>2, <2>2, <3>2, <3>3 DEF WriteMore
  <2>6. disk'[d] = s /\ task' = [task EXCEPT ![p] = t]
        /\ UNCHANGED <<quarantine, clock, powerLosses>>
    BY <1>0, <1>2, <2>3, <2>5 DEF WriteMore
  <2>7. TaskSound(t)'
    BY <2>4, <2>5, <2>6 DEF TaskSound, Owning, OwnTemporary
  <2> QED BY <2>1, <2>2, <2>4, <2>5, <2>6, <2>7, DirectoryStep
<1>3. ASSUME Publish(p) PROVE Inv'
  <2>1. Owning(task[p]) /\ task[p].stage = "write"
    BY <1>3 DEF Publish, Written, Owning
  <2>2. PICK d \in Dir : d = task[p].at.dir
    BY <2>1, OwnDirectory
  <2>3. disk[d] \in Dataset /\ task[p].at \in Path
    BY <2>1, <2>2, OwnDirectory
  <2>4. PICK s \in Dataset : s = [disk[d] EXCEPT !.place = "published"]
    BY <2>3 DEF Dataset
  <2>5. PICK t \in Task :
           t = [task[p] EXCEPT !.stage = "read_metadata", !.at.place = "published"]
    BY <1>0, <2>3 DEF Task, Stage, Path
  <2>6. t.at \in Path /\ t.stage = "read_metadata" /\ t.found = task[p].found
    BY <1>0, <2>3, <2>5 DEF Task, Path
  <2>7. TaskSound(t)' /\ ~Owning(t)
    BY <1>0, <2>6 DEF TaskSound, Owning
  <2>8. disk' = [disk EXCEPT ![d] = s] /\ task' = [task EXCEPT ![p] = t]
        /\ UNCHANGED <<quarantine, clock, powerLosses>>
    BY <1>3, <2>2, <2>4, <2>5 DEF Publish, Put
  <2> QED BY <2>1, <2>2, <2>7, <2>8, DirectoryStep
<1>4. ASSUME RemoveFile(p) PROVE Inv'
  <2>1. Owning(task[p]) /\ task[p].stage = "cleanup"
    BY <1>4 DEF RemoveFile, Owning
  <2>2. PICK d \in Dir : d = task[p].at.dir
    BY <2>1, OwnDirectory
  <2>3. PICK t \in Task : t = task[p]
    BY <1>0
  <2>4. disk[d] \in Dataset /\ TaskSound(t) /\ OwnTemporary(t) /\ t.at.dir = d
    BY <2>1, <2>2, <2>3, OwnDirectory
  <2>5. PICK s \in Dataset : s.place = "temporary" /\ disk' = [disk EXCEPT ![d] = s]
    <3>1. [disk[d] EXCEPT !.bars = "absent"] \in Dataset
          /\ [disk[d] EXCEPT !.bars = "absent"].place = "temporary"
      BY <2>4 DEF Dataset, FileState, OwnTemporary
    <3>2. [disk[d] EXCEPT !.metadata = "absent"] \in Dataset
          /\ [disk[d] EXCEPT !.metadata = "absent"].place = "temporary"
      BY <2>4 DEF Dataset, FileState, OwnTemporary
    <3> QED BY <1>4, <2>2, <3>1, <3>2 DEF RemoveFile
  <2>6. disk'[d] = s /\ task' = [task EXCEPT ![p] = t]
        /\ UNCHANGED <<quarantine, clock, powerLosses>>
    BY <1>0, <1>4, <2>3, <2>5 DEF RemoveFile
  <2>7. TaskSound(t)'
    BY <2>1, <2>3, <2>4, <2>5, <2>6 DEF TaskSound, Owning, OwnTemporary
  <2> QED BY <2>1, <2>2, <2>4, <2>5, <2>6, <2>7, DirectoryStep
<1>5. ASSUME RemoveTemporary(p) PROVE Inv'
  <2>1. Owning(task[p])
    BY <1>5 DEF RemoveTemporary, Owning
  <2>2. PICK d \in Dir : d = task[p].at.dir
    BY <2>1, OwnDirectory
  <2>3. disk[d] \in Dataset
    BY <2>1, <2>2, OwnDirectory
  <2>4. PICK s \in Dataset : s = [disk[d] EXCEPT !.place = "removed"]
    BY <2>3 DEF Dataset
  <2>5. PICK t \in Task : t = [Idle EXCEPT !.stage = "raised"]
    BY RaisedSound
  <2>6. ~Owning(t) /\ TaskSound(t)'
    BY <2>5, RaisedSound DEF TaskSound, Owning
  <2>7. disk' = [disk EXCEPT ![d] = s] /\ task' = [task EXCEPT ![p] = t]
        /\ UNCHANGED <<quarantine, clock, powerLosses>>
    BY <1>5, <2>2, <2>4, <2>5 DEF RemoveTemporary, Raise, Put
  <2> QED BY <2>1, <2>2, <2>6, <2>7, DirectoryStep
<1> QED BY <1>1, <1>2, <1>3, <1>4, <1>5

\* Every step keeps the invariant.
LEMMA StepInv == Inv /\ [Next]_vars => Inv'
<1> SUFFICES ASSUME Inv, [Next]_vars PROVE Inv'
  OBVIOUS
<1>1. CASE UNCHANGED vars
  BY <1>1 DEF vars, Inv, TypeOK, TaskSound, Owning, OwnTemporary, OwnersApart
<1>2. CASE Tick
  BY <1>2 DEF Tick, Inv, TypeOK, TaskSound, Owning, OwnTemporary, OwnersApart
<1>3. ASSUME NEW d \in Dir, PowerLoss(d) PROVE Inv'
  <2>1. disk' \in [Dir -> Dataset \cup {NoDataset}]
    <3>1. disk[d] \in Dataset /\ disk \in [Dir -> Dataset \cup {NoDataset}]
      BY <1>3 DEF PowerLoss, Made, Inv, TypeOK
    <3>2. [disk[d] EXCEPT !.bars = "torn"] \in Dataset /\ [disk[d] EXCEPT !.metadata = "partial"] \in Dataset
      BY <3>1 DEF Dataset, FileState
    <3> QED BY <1>3, <3>1, <3>2 DEF PowerLoss
  <2>2. \A p \in Process : task'[p] = Idle
    BY <1>3 DEF PowerLoss
  <2>3. TypeOK'
    BY <1>3, <2>1, IdleSound DEF PowerLoss, Inv, TypeOK
  <2>4. \A p \in Process : TaskSound(task[p])' /\ ~Owning(task'[p])
    BY <2>2 DEF Idle, TaskSound, Owning
  <2> QED BY <2>3, <2>4 DEF Inv, OwnersApart, Owning
<1>4. ASSUME NEW p \in Process, Step(p) PROVE Inv'
  BY <1>4, ReadingStepInv, WritingStepInv DEF Step
<1> QED BY <1>1, <1>2, <1>3, <1>4 DEF Next

\* The invariant holds in every reachable state.
THEOREM InvCorrect == Spec => []Inv
<1>1. Init => Inv
  BY InitInv
<1>2. Inv /\ [Next]_vars => Inv'
  BY StepInv
<1> QED BY <1>1, <1>2, PTL DEF Spec

\* For every set of processes, directories and contents: the state is well
\* typed, so a dataset directory only ever holds content that validated clean.
THEOREM TypeCorrect == Spec => []TypeOK
<1>1. Inv => TypeOK
  BY DEF Inv
<1> QED BY <1>1, InvCorrect, PTL

\* A load never returns damaged, quarantined or half-written data
\* (ImmutableParquetCache._read_dataset's hash check and admit's report check).
THEOREM CleanLoads == Spec => []LoadedIsClean
<1>1. Inv => LoadedIsClean
  BY DEF Inv, TaskSound, LoadedIsClean
<1> QED BY <1>1, InvCorrect, PTL

\* A step of a process changes no published directory.
LEMMA StepKeepsVersions ==
    ASSUME Inv, NEW p \in Process, Step(p), NEW d \in Versions
    PROVE  disk'[d] = disk[d]
<1>1. d \in Dir /\ Made(d) /\ disk[d].place = "published" /\ disk \in [Dir -> Dataset \cup {NoDataset}]
  BY DEF Versions, Published, Inv, TypeOK
<1>2. Owning(task[p]) => task[p].at.dir # d
  BY <1>1, OwnDirectory DEF OwnTemporary
<1>3. CASE \E e \in Dir : MakeTemporary(p, e)
  BY <1>1, <1>3 DEF MakeTemporary
<1>4. CASE WriteMore(p) \/ Publish(p) \/ RemoveFile(p) \/ RemoveTemporary(p)
  BY <1>1, <1>2, <1>4 DEF WriteMore, Publish, Written, RemoveFile, RemoveTemporary, Owning
<1>5. CASE UNCHANGED disk
  BY <1>5
<1>6. Step(p) => \/ \E e \in Dir : MakeTemporary(p, e)
                 \/ WriteMore(p) \/ Publish(p) \/ RemoveFile(p) \/ RemoveTemporary(p)
                 \/ UNCHANGED disk
  BY DEF Step, Load, SkipDirectory, OpenDirectory, FindReturns, FindMisses, Fetch,
         Quarantine, Admit, PeekOther, PeekSame, PeekRaises, LookupMisses, WriteFails,
         ReadMetadata, ReadBars, Fail, Finish, Crash
<1> QED BY <1>3, <1>4, <1>5, <1>6

\* Published versions survive every interleaving, failure and crash unchanged;
\* only a power loss can damage their files (os.replace in admit).
THEOREM Immutability == Spec => VersionsImmutable
<1> DEFINE Kept == \A d \in Versions :
              /\ disk'[d].place = "published"
              /\ disk'[d].moment = disk[d].moment
              /\ disk'[d].content = disk[d].content
              /\ disk'[d] # disk[d] => powerLosses' # powerLosses
<1>1. Inv /\ [Next]_vars => Kept
  <2> SUFFICES ASSUME Inv, [Next]_vars, NEW d \in Versions
               PROVE  /\ disk'[d].place = "published"
                      /\ disk'[d].moment = disk[d].moment
                      /\ disk'[d].content = disk[d].content
                      /\ disk'[d] # disk[d] => powerLosses' # powerLosses
    OBVIOUS
  <2>1. d \in Dir /\ disk[d].place = "published" /\ disk[d] \in Dataset
        /\ disk \in [Dir -> Dataset \cup {NoDataset}] /\ powerLosses \in Nat
    BY DEF Versions, Published, Made, Inv, TypeOK
  <2>2. ASSUME NEW p \in Process, Step(p) PROVE disk'[d] = disk[d]
    BY <2>2, StepKeepsVersions
  <2>3. CASE Tick \/ UNCHANGED vars
    BY <2>1, <2>3 DEF Tick, vars
  <2>4. ASSUME NEW e \in Dir, PowerLoss(e)
        PROVE  /\ disk'[d].place = "published"
               /\ disk'[d].moment = disk[d].moment
               /\ disk'[d].content = disk[d].content
               /\ powerLosses' # powerLosses
    BY <2>1, <2>4 DEF PowerLoss, Dataset
  <2> QED BY <2>1, <2>2, <2>3, <2>4 DEF Next
<1>2. Inv /\ [Next]_vars => [Kept]_vars
  BY <1>1
<1> QED BY <1>2, InvCorrect, PTL DEF Spec, VersionsImmutable

-----------------------------------------------------------------------------
(* The searches of find and _find_by_hash: the versions that were there when *)
(* a search began are not missed, although directories come, move and go     *)
(* while it reads.                                                         *)

MadeIn(files, d)      == files[d] # NoDataset
PublishedIn(files, d) == MadeIn(files, d) /\ files[d].place = "published"

Searching(t) == \/ t.stage = "find"
                \/ t.stage \in {"read_metadata", "read_bars"} /\ t.reason = "find"

\* A version is still to be opened, or it is being read ...
Ahead(t, d) == \/ [dir |-> d, place |-> "published"] \in t.todo
               \/ t.stage # "find" /\ t.stage # "lookup" /\ t.at.dir = d
\* ... or it was found, or its content is another one.
WasFound(t, d) == \E f \in t.found : f.at.dir = d
Differs(t, files, d) == files[d].content # t.content

SearchSound(t, files) ==
    /\ \A d \in t.seen : PublishedIn(files, d)
    /\ \A f \in t.found : MadeIn(files, f.at.dir)
    /\ t.stage = "peek" => t.reason = "lookup"
    /\ t.stage \in {"read_metadata", "read_bars"} => t.reason # "none"
    /\ t.stage \in {"find", "admit", "lookup", "make"} => t.reason = "none"
    /\ Searching(t) => \A d \in t.seen : Ahead(t, d) \/ WasFound(t, d)
    /\ t.stage \in {"lookup", "peek"} => \A d \in t.seen : Ahead(t, d) \/ Differs(t, files, d)
    /\ t.stage = "make" \/ t.reason = "publish" => \A d \in t.seen : Differs(t, files, d)
    /\ t.stage = "write" => /\ t.reason = "publish"
                            /\ files[t.at.dir].moment = t.moment
                            /\ files[t.at.dir].content = t.content
    /\ t.stage = "returned" /\ t.reason = "none" =>
          /\ t.at \in Path /\ MadeIn(files, t.at.dir)
          /\ \A d \in t.seen : files[d].moment <= files[t.at.dir].moment

\* A published version has a metadata file, so that a search does not skip it.
VersionsHaveMetadata == \A d \in Versions : disk[d].metadata # "absent"

SearchInv == /\ Inv
             /\ VersionsHaveMetadata /\ VersionNamesUnique
             /\ \A p \in Process : SearchSound(task[p], disk)

-----------------------------------------------------------------------------
\* Whatever is made stays, with its moment and its content, and what is
\* published stays published.
MovesOn(files, later) ==
    \A d \in Dir : MadeIn(files, d) =>
        /\ MadeIn(later, d)
        /\ later[d].moment = files[d].moment /\ later[d].content = files[d].content
        /\ files[d].place = "published" => later[d].place = "published"

LEMMA WritesMoveOn ==
    ASSUME Inv, NEW p \in Process, Step(p)
    PROVE  MovesOn(disk, disk')
<1>1. disk \in [Dir -> Dataset \cup {NoDataset}]
  BY DEF Inv, TypeOK
<1>2. CASE UNCHANGED disk
  BY <1>2 DEF MovesOn, MadeIn
<1>3. ASSUME NEW d \in Dir, NEW s \in Dataset, disk' = [disk EXCEPT ![d] = s],
             MadeIn(disk, d) => /\ s.moment = disk[d].moment /\ s.content = disk[d].content
                                /\ disk[d].place # "published"
      PROVE  MovesOn(disk, disk')
  BY <1>1, <1>3, NoDatasetAssumption DEF MovesOn, MadeIn
<1>4. ASSUME NEW d \in Dir, MakeTemporary(p, d) PROVE MovesOn(disk, disk')
  BY <1>1, <1>4 DEF MakeTemporary, Made, MovesOn, MadeIn
<1>5. CASE WriteMore(p) \/ Publish(p) \/ RemoveFile(p) \/ RemoveTemporary(p)
  <2>1. Owning(task[p])
    BY <1>5 DEF WriteMore, Publish, Written, RemoveFile, RemoveTemporary, Owning
  <2>2. PICK d \in Dir : d = task[p].at.dir
    BY <2>1, OwnDirectory
  <2>3. disk[d] \in Dataset /\ disk[d].place = "temporary"
    BY <2>1, <2>2, OwnDirectory DEF OwnTemporary
  <2>4. ASSUME NEW place, disk' = [disk EXCEPT ![d].place = place],
               place \in {"published", "removed"}
        PROVE  MovesOn(disk, disk')
    <3> DEFINE s == [disk[d] EXCEPT !.place = place]
    <3>1. s \in Dataset /\ s.moment = disk[d].moment /\ s.content = disk[d].content
      BY <2>3, <2>4 DEF Dataset
    <3>2. disk' = [disk EXCEPT ![d] = s]
      BY <2>4
    <3> HIDE DEF s
    <3> QED BY <1>3, <2>3, <3>1, <3>2
  <2>5. ASSUME NEW bars \in FileState, disk' = [disk EXCEPT ![d].bars = bars]
        PROVE  MovesOn(disk, disk')
    <3> DEFINE s == [disk[d] EXCEPT !.bars = bars]
    <3>1. s \in Dataset /\ s.moment = disk[d].moment /\ s.content = disk[d].content
      BY <2>3, <2>5 DEF Dataset
    <3>2. disk' = [disk EXCEPT ![d] = s]
      BY <2>5
    <3> HIDE DEF s
    <3> QED BY <1>3, <2>3, <3>1, <3>2
  <2>6. ASSUME NEW metadata \in FileState, disk' = [disk EXCEPT ![d].metadata = metadata]
        PROVE  MovesOn(disk, disk')
    <3> DEFINE s == [disk[d] EXCEPT !.metadata = metadata]
    <3>1. s \in Dataset /\ s.moment = disk[d].moment /\ s.content = disk[d].content
      BY <2>3, <2>6 DEF Dataset
    <3>2. disk' = [disk EXCEPT ![d] = s]
      BY <2>6
    <3> HIDE DEF s
    <3> QED BY <1>3, <2>3, <3>1, <3>2
  <2>7. CASE WriteMore(p)
    <3>1. /\ disk[d].bars \in {"absent", "partial", "whole"}
          /\ disk[d].metadata \in {"absent", "partial", "whole"}
      BY <2>1, <2>2, <2>7, OwnDirectory DEF OwnTemporary, WriteMore
    <3>2. /\ disk[d].bars # "whole" => Further[disk[d].bars] \in FileState
          /\ disk[d].metadata # "whole" => Further[disk[d].metadata] \in FileState
      BY <3>1 DEF Further, FileState
    <3>3. \/ /\ disk[d].bars # "whole"
             /\ disk' = [disk EXCEPT ![d].bars = Further[disk[d].bars]]
          \/ /\ disk[d].metadata # "whole"
             /\ disk' = [disk EXCEPT ![d].metadata = Further[disk[d].metadata]]
      BY <2>2, <2>7 DEF WriteMore
    <3> QED BY <2>5, <2>6, <3>2, <3>3
  <2>8. CASE Publish(p)
    BY <2>2, <2>4, <2>8 DEF Publish
  <2>9. CASE RemoveFile(p)
    BY <2>2, <2>5, <2>6, <2>9 DEF RemoveFile, FileState
  <2>10. CASE RemoveTemporary(p)
    BY <2>2, <2>4, <2>10 DEF RemoveTemporary
  <2> QED BY <1>5, <2>7, <2>8, <2>9, <2>10
<1>6. \/ \E d \in Dir : MakeTemporary(p, d)
      \/ WriteMore(p) \/ Publish(p) \/ RemoveFile(p) \/ RemoveTemporary(p)
      \/ UNCHANGED disk
  BY DEF Step, Load, SkipDirectory, OpenDirectory, FindReturns, FindMisses, Fetch,
         Quarantine, Admit, PeekOther, PeekSame, PeekRaises, LookupMisses, WriteFails,
         ReadMetadata, ReadBars, Fail, Finish, Crash
<1> QED BY <1>2, <1>4, <1>5, <1>6

\* A search that goes on knows what it knew, whatever the others did.
LEMMA SearchKept ==
    ASSUME NEW t \in Task, NEW files, NEW later, SearchSound(t, files), MovesOn(files, later),
           Owning(t) => MadeIn(files, t.at.dir) /\ t.at.dir \in Dir
    PROVE  SearchSound(t, later)
<1>1. t.seen \subseteq Dir /\ \A f \in t.found : f.at.dir \in Dir
  BY DEF Task, Found, Path
<1>2. \A d \in t.seen : /\ later[d].moment = files[d].moment
                        /\ later[d].content = files[d].content /\ PublishedIn(later, d)
  BY <1>1 DEF SearchSound, MovesOn, PublishedIn
<1>3. \A f \in t.found : MadeIn(later, f.at.dir)
  BY <1>1 DEF SearchSound, MovesOn
<1>4. \A d \in t.seen : Differs(t, files, d) => Differs(t, later, d)
  BY <1>2 DEF Differs
<1>5. t.stage = "write" => /\ later[t.at.dir].moment = t.moment
                           /\ later[t.at.dir].content = t.content
  BY DEF SearchSound, MovesOn, Owning
<1>6. t.stage = "returned" /\ t.reason = "none" =>
          /\ t.at \in Path /\ MadeIn(later, t.at.dir)
          /\ \A d \in t.seen : later[d].moment <= later[t.at.dir].moment
  BY <1>2 DEF SearchSound, MovesOn, Path
<1> QED BY <1>2, <1>3, <1>4, <1>5, <1>6 DEF SearchSound

\* A process at rest, or one that raised, has forgotten its search.
LEMMA RestIsSound ==
    /\ SearchSound(Idle, disk)
    /\ SearchSound([Idle EXCEPT !.stage = "raised"], disk)
    /\ SearchSound([Idle EXCEPT !.stage = "fetch"], disk)
    /\ \A c \in Content : SearchSound([Idle EXCEPT !.stage = "admit", !.content = c], disk)
BY DEF Idle, SearchSound, Searching

\* A listing holds every version, each under its published path.
LEMMA ListingIsComplete ==
    \A d \in Versions : [dir |-> d, place |-> "published"] \in Listing
BY DEF Versions, Published, Listing, Path

LEMMA SearchStep ==
    ASSUME SearchInv, NEW p \in Process, Step(p), UNCHANGED disk
    PROVE  SearchSound(task'[p], disk)
<1> DEFINE t == task[p]
<1>1. /\ t \in Task /\ TaskSound(t) /\ SearchSound(t, disk) /\ task \in [Process -> Task]
      /\ disk \in [Dir -> Dataset \cup {NoDataset}] /\ Inv
  BY DEF SearchInv, Inv, TypeOK
<1>2. \A u : Put(p, u) => task'[p] = u
  BY <1>1 DEF Put
<1>3. Raise(p) => SearchSound(task'[p], disk)
  BY <1>2, RestIsSound DEF Raise
<1>4. t.seen \subseteq Dir /\ t.found \subseteq Found /\ t.todo \subseteq Path
  BY <1>1 DEF Task
<1>5. ASSUME NEW refresh \in BOOLEAN, Load(p, refresh) PROVE SearchSound(task'[p], disk)
  <2>1. CASE refresh
    BY <1>2, <1>5, <2>1, RestIsSound DEF Load
  <2>2. CASE ~refresh
    <3> DEFINE u == [Idle EXCEPT !.stage = "find", !.todo = Listing, !.seen = Versions]
    <3>1. /\ u.stage = "find" /\ u.todo = Listing /\ u.seen = Versions /\ u.found = {}
          /\ u.reason = "none"
      BY DEF Idle
    <3>2. task'[p] = u
      BY <1>2, <1>5, <2>2 DEF Load
    <3> HIDE DEF u
    <3>3. SearchSound(u, disk)
      BY <3>1, ListingIsComplete
         DEF SearchSound, Searching, Ahead, Versions, Published, PublishedIn, MadeIn, Made
    <3> QED BY <3>2, <3>3
  <2> QED BY <2>1, <2>2
<1>6. ASSUME NEW a \in Path, SkipDirectory(p, a) PROVE SearchSound(task'[p], disk)
  <2> DEFINE u == [t EXCEPT !.todo = @ \ {a}]
  <2>1. /\ u.stage = t.stage /\ u.todo = t.todo \ {a} /\ u.seen = t.seen /\ u.found = t.found
        /\ u.reason = t.reason /\ u.content = t.content /\ u.at = t.at /\ u.moment = t.moment
        /\ t.stage \in {"find", "lookup"} /\ task'[p] = u
    BY <1>1, <1>2, <1>6 DEF SkipDirectory, Task
  <2>2. \A d \in t.seen : a # [dir |-> d, place |-> "published"]
    <3> SUFFICES ASSUME NEW d \in t.seen, a = [dir |-> d, place |-> "published"] PROVE FALSE
      OBVIOUS
    <3>1. PublishedIn(disk, d) /\ d \in Dir
      BY <1>1, <1>4 DEF SearchSound
    <3>2. Exists(a) /\ d \in Versions
      BY <3>1 DEF Exists, PublishedIn, MadeIn, Made, Versions, Published
    <3>3. disk[d].metadata = "absent"
      BY <1>6, <3>2 DEF SkipDirectory
    <3> QED BY <3>2, <3>3 DEF SearchInv, VersionsHaveMetadata
  <2> HIDE DEF u
  <2>3. \A d \in t.seen : /\ Ahead(t, d) => Ahead(u, d)
                          /\ WasFound(t, d) => WasFound(u, d)
                          /\ Differs(t, disk, d) => Differs(u, disk, d)
    BY <2>1, <2>2 DEF Ahead, WasFound, Differs
  <2> QED BY <1>1, <2>1, <2>3 DEF SearchSound, Searching
<1>7. ASSUME NEW a \in Path, OpenDirectory(p, a) PROVE SearchSound(task'[p], disk)
  <2> DEFINE u == [t EXCEPT !.todo = @ \ {a}, !.at = a, !.reason = t.stage,
                      !.stage = IF @ = "find" THEN "read_metadata" ELSE "peek"]
  <2>1. /\ u.stage = (IF t.stage = "find" THEN "read_metadata" ELSE "peek")
        /\ u.todo = t.todo \ {a} /\ u.seen = t.seen /\ u.found = t.found
        /\ u.reason = t.stage /\ u.content = t.content /\ u.at = a /\ u.moment = t.moment
        /\ t.stage \in {"find", "lookup"} /\ task'[p] = u
    BY <1>1, <1>2, <1>7 DEF OpenDirectory, Task
  <2> HIDE DEF u
  <2>2. \A d \in t.seen : /\ Ahead(t, d) => Ahead(u, d)
                          /\ WasFound(t, d) => WasFound(u, d)
                          /\ Differs(t, disk, d) => Differs(u, disk, d)
    BY <2>1 DEF Ahead, WasFound, Differs
  <2> QED BY <1>1, <2>1, <2>2 DEF SearchSound, Searching
<1>8. ASSUME FindReturns(p) PROVE SearchSound(task'[p], disk)
  <2>1. PICK f \in t.found :
            /\ Put(p, [t EXCEPT !.stage = "returned", !.at = f.at, !.loaded = f.loaded])
            /\ \A g \in t.found : disk[g.at.dir].moment <= disk[f.at.dir].moment
    BY <1>8 DEF FindReturns, Newest
  <2> DEFINE u == [t EXCEPT !.stage = "returned", !.at = f.at, !.loaded = f.loaded]
  <2>2. /\ u.stage = "returned" /\ u.seen = t.seen /\ u.found = t.found /\ u.reason = t.reason
        /\ u.at = f.at /\ task'[p] = u /\ t.stage = "find" /\ t.todo = {} /\ f.at \in Path
        /\ t.reason = "none"
    BY <1>1, <1>2, <1>4, <1>8, <2>1 DEF FindReturns, Task, Found, SearchSound
  <2> HIDE DEF u
  <2>3. ASSUME NEW d \in t.seen PROVE disk[d].moment <= disk[u.at.dir].moment
    <3>1. WasFound(t, d)
      BY <1>1, <2>2 DEF SearchSound, Searching, Ahead
    <3> QED BY <2>1, <2>2, <3>1 DEF WasFound
  <2>4. MadeIn(disk, u.at.dir)
    BY <1>1, <2>1, <2>2 DEF SearchSound
  <2> QED BY <1>1, <2>2, <2>3, <2>4 DEF SearchSound, Searching
<1>9. CASE FindMisses(p) \/ (\E c \in Content : Fetch(p, c)) \/ Finish(p) \/ Crash(p)
  BY <1>2, <1>9, RestIsSound DEF FindMisses, Fetch, Finish, Crash
<1>10. CASE Quarantine(p) \/ PeekRaises(p) \/ Fail(p)
  BY <1>3, <1>10 DEF Quarantine, PeekRaises, Fail
<1>11. ASSUME Admit(p) PROVE SearchSound(task'[p], disk)
  <2> DEFINE u == [t EXCEPT !.stage = "lookup", !.moment = clock,
                            !.todo = Listing, !.seen = Versions]
  <2>1. /\ u.stage = "lookup" /\ u.todo = Listing /\ u.seen = Versions /\ u.found = t.found
        /\ u.reason = t.reason /\ task'[p] = u
    BY <1>1, <1>2, <1>11 DEF Admit, Task
  <2>2. t.reason = "none"
    BY <1>1, <1>11 DEF Admit, SearchSound
  <2> HIDE DEF u
  <2> QED BY <1>1, <2>1, <2>2, ListingIsComplete
          DEF SearchSound, Searching, Ahead, Versions, Published, PublishedIn, MadeIn, Made
<1>12. ASSUME PeekOther(p) PROVE SearchSound(task'[p], disk)
  <2> DEFINE u == [t EXCEPT !.stage = "lookup", !.at = Nowhere, !.reason = "none"]
  <2>1. /\ u.stage = "lookup" /\ u.todo = t.todo /\ u.seen = t.seen /\ u.found = t.found
        /\ u.reason = "none" /\ u.content = t.content /\ task'[p] = u /\ t.stage = "peek"
        /\ disk[t.at.dir].content # t.content
    BY <1>1, <1>2, <1>12 DEF PeekOther, SameContent, Task
  <2> HIDE DEF u
  <2>2. \A d \in t.seen : Ahead(u, d) \/ Differs(u, disk, d)
    BY <1>1, <2>1 DEF SearchSound, Ahead, Differs
  <2> QED BY <1>1, <2>1, <2>2 DEF SearchSound, Searching
<1>13. ASSUME PeekSame(p) PROVE SearchSound(task'[p], disk)
  <2> DEFINE u == [t EXCEPT !.stage = "read_metadata"]
  <2>1. /\ u.stage = "read_metadata" /\ u.seen = t.seen /\ u.found = t.found
        /\ u.reason = t.reason /\ task'[p] = u /\ t.stage = "peek"
    BY <1>1, <1>2, <1>13 DEF PeekSame, Task
  <2> HIDE DEF u
  <2> QED BY <1>1, <2>1 DEF SearchSound, Searching
<1>14. ASSUME LookupMisses(p) PROVE SearchSound(task'[p], disk)
  <2> DEFINE u == [t EXCEPT !.stage = "make"]
  <2>1. CASE Put(p, u)
    <3>1. /\ u.stage = "make" /\ u.seen = t.seen /\ u.found = t.found /\ u.content = t.content
          /\ u.reason = t.reason /\ task'[p] = u /\ t.stage = "lookup" /\ t.todo = {}
      BY <1>1, <1>2, <1>14, <2>1 DEF LookupMisses, Task
    <3> HIDE DEF u
    <3>2. \A d \in t.seen : Differs(u, disk, d)
      BY <1>1, <3>1 DEF SearchSound, Ahead, Differs
    <3> QED BY <1>1, <3>1, <3>2 DEF SearchSound, Searching
  <2> QED BY <1>3, <1>14, <2>1 DEF LookupMisses
<1>15. ASSUME WriteFails(p) PROVE SearchSound(task'[p], disk)
  <2> DEFINE u == [t EXCEPT !.stage = "cleanup"]
  <2>1. /\ u.stage = "cleanup" /\ u.seen = t.seen /\ u.found = t.found /\ u.content = t.content
        /\ u.reason = t.reason /\ task'[p] = u
    BY <1>1, <1>2, <1>15 DEF WriteFails, Task
  <2> HIDE DEF u
  <2> QED BY <1>1, <2>1 DEF SearchSound, Searching, Differs
<1>16. ASSUME ReadMetadata(p) PROVE SearchSound(task'[p], disk)
  <2> DEFINE u == [t EXCEPT !.stage = "read_bars"]
  <2>1. CASE Put(p, u)
    <3>1. /\ u.stage = "read_bars" /\ u.seen = t.seen /\ u.found = t.found
          /\ u.content = t.content /\ u.todo = t.todo /\ u.at = t.at
          /\ u.reason = t.reason /\ task'[p] = u /\ t.stage = "read_metadata"
      BY <1>1, <1>2, <1>16, <2>1 DEF ReadMetadata, Task
    <3> HIDE DEF u
    <3>2. \A d \in t.seen : /\ Ahead(t, d) => Ahead(u, d)
                            /\ WasFound(t, d) => WasFound(u, d)
                            /\ Differs(t, disk, d) => Differs(u, disk, d)
      BY <3>1 DEF Ahead, WasFound, Differs
    <3> QED BY <1>1, <3>1, <3>2 DEF SearchSound, Searching
  <2> QED BY <1>3, <1>16, <2>1 DEF ReadMetadata, RaiseFromRead
<1>17. ASSUME ReadBars(p) PROVE SearchSound(task'[p], disk)
  <2> DEFINE a == t.at
             new == [at |-> a, loaded |-> LoadedFrom(a.dir)]
             u == [t EXCEPT !.stage = "find", !.at = Nowhere, !.reason = "none",
                       !.found = @ \cup {new}]
             v == [t EXCEPT !.stage = "returned", !.loaded = LoadedFrom(a.dir)]
  <2>1. CASE Readable(a) /\ t.reason = "find" /\ Put(p, u)
    <3>1. /\ u.stage = "find" /\ u.seen = t.seen /\ u.found = t.found \cup {new}
          /\ u.todo = t.todo /\ u.reason = "none" /\ task'[p] = u /\ t.stage = "read_bars"
          /\ new.at = t.at
      BY <1>1, <1>2, <1>17, <2>1 DEF ReadBars, Task
    <3>2. MadeIn(disk, new.at.dir)
      BY <2>1, <3>1 DEF Readable, Exists, Made, MadeIn
    <3> HIDE DEF new, u
    <3>3. \A d \in t.seen : Ahead(u, d) \/ WasFound(u, d)
      <4> SUFFICES ASSUME NEW d \in t.seen PROVE Ahead(u, d) \/ WasFound(u, d)
        OBVIOUS
      <4>1. Ahead(t, d) \/ WasFound(t, d)
        BY <1>1, <2>1, <3>1 DEF SearchSound, Searching
      <4>2. CASE WasFound(t, d)
        BY <3>1, <4>2 DEF WasFound
      <4>3. CASE Ahead(t, d)
        <5>1. [dir |-> d, place |-> "published"] \in t.todo \/ t.at.dir = d
          BY <4>3 DEF Ahead
        <5>2. new.at.dir = t.at.dir /\ new \in u.found
          BY <3>1
        <5> QED BY <3>1, <5>1, <5>2 DEF Ahead, WasFound
      <4> QED BY <4>1, <4>2, <4>3
    <3>4. \A f \in u.found : MadeIn(disk, f.at.dir)
      BY <1>1, <3>1, <3>2 DEF SearchSound
    <3>5. \A d \in u.seen : PublishedIn(disk, d)
      BY <1>1, <3>1 DEF SearchSound
    <3> QED BY <3>1, <3>3, <3>4, <3>5 DEF SearchSound
  <2>2. CASE t.reason # "find" /\ Put(p, v)
    <3>1. /\ v.stage = "returned" /\ v.seen = t.seen /\ v.found = t.found
          /\ v.content = t.content /\ v.reason = t.reason /\ task'[p] = v
          /\ t.stage = "read_bars"
      BY <1>1, <1>2, <1>17, <2>2 DEF ReadBars, Task
    <3> HIDE DEF v
    <3> QED BY <1>1, <3>1 DEF SearchSound, Searching, Differs
  <2> QED BY <1>3, <1>17, <2>1, <2>2 DEF ReadBars, RaiseFromRead
<1>18. CASE \/ \E d \in Dir : MakeTemporary(p, d)
            \/ WriteMore(p) \/ Publish(p) \/ RemoveFile(p) \/ RemoveTemporary(p)
  <2>1. CASE RemoveTemporary(p)
    BY <1>3, <2>1 DEF RemoveTemporary
  <2>2. CASE WriteMore(p) \/ RemoveFile(p)
    BY <1>1, <2>2 DEF WriteMore, RemoveFile
  <2>3. ASSUME NEW d \in Dir, MakeTemporary(p, d) PROVE FALSE
    <3>1. disk[d] = [place |-> "temporary", moment |-> task[p].moment,
                     content |-> task[p].content, bars |-> "absent", metadata |-> "absent"]
      BY <1>1, <2>3 DEF MakeTemporary
    <3>2. disk[d] \in Dataset
      BY <1>1, <2>3, <3>1 DEF MakeTemporary, TaskSound, Task, Dataset, FileState
    <3> QED BY <2>3, <3>2, NoDatasetAssumption DEF MakeTemporary, Made
  <2>4. CASE Publish(p)
    <3>1. Owning(t) /\ t.stage = "write"
      BY <2>4 DEF Publish, Written, Owning
    <3>2. /\ t.at.dir \in Dir /\ disk[t.at.dir] \in Dataset
          /\ disk[t.at.dir].place = "temporary"
      BY <1>1, <3>1, OwnDirectory DEF OwnTemporary
    <3>3. disk'[t.at.dir].place = "published"
      BY <1>1, <2>4, <3>2 DEF Publish, Dataset
    <3> QED BY <3>2, <3>3
  <2> QED BY <1>18, <2>1, <2>2, <2>3, <2>4
<1> QED BY <1>5, <1>6, <1>7, <1>8, <1>9, <1>10, <1>11, <1>12, <1>13, <1>14, <1>15,
           <1>16, <1>17, <1>18 DEF Step

\* The same of the steps that write.
LEMMA SearchWrite ==
    ASSUME SearchInv, NEW p \in Process,
           \/ \E d \in Dir : MakeTemporary(p, d)
           \/ WriteMore(p) \/ Publish(p) \/ RemoveFile(p) \/ RemoveTemporary(p)
    PROVE  SearchSound(task'[p], disk')
<1> DEFINE t == task[p]
<1>1. /\ t \in Task /\ TaskSound(t) /\ SearchSound(t, disk) /\ task \in [Process -> Task]
      /\ disk \in [Dir -> Dataset \cup {NoDataset}] /\ Inv
  BY DEF SearchInv, Inv, TypeOK
<1>2. MovesOn(disk, disk')
  BY <1>1, WritesMoveOn DEF Step
<1>3. \A u : Put(p, u) => task'[p] = u
  BY <1>1 DEF Put
<1>4. PICK old, new : old = disk /\ new = disk'
  OBVIOUS
<1>5. Owning(t) => MadeIn(disk, t.at.dir) /\ t.at.dir \in Dir
  BY <1>1, OwnDirectory DEF MadeIn, Made
<1>6. SearchSound(t, disk')
  <2>1. PICK u \in Task : u = t
    BY <1>1
  <2>2. SearchSound(u, old) /\ MovesOn(old, new) /\ (Owning(u) => MadeIn(old, u.at.dir) /\ u.at.dir \in Dir)
    BY <1>1, <1>2, <1>4, <1>5, <2>1
  <2>3. SearchSound(u, new)
    BY <2>2, SearchKept
  <2> QED BY <1>4, <2>1, <2>3
<1>7. ASSUME NEW d \in Dir, MakeTemporary(p, d) PROVE SearchSound(task'[p], disk')
  <2> DEFINE u == [t EXCEPT !.stage = "write",
                      !.at = [dir |-> d, place |-> "temporary"], !.reason = "publish"]
  <2>1. /\ u.stage = "write" /\ u.seen = t.seen /\ u.found = t.found /\ u.content = t.content
        /\ u.moment = t.moment /\ u.at.dir = d /\ u.reason = "publish" /\ task'[p] = u
        /\ t.stage = "make"
    BY <1>1, <1>3, <1>7 DEF MakeTemporary, Task
  <2>2. disk'[d].moment = t.moment /\ disk'[d].content = t.content
    BY <1>1, <1>7 DEF MakeTemporary
  <2> HIDE DEF u
  <2> QED BY <1>6, <2>1, <2>2 DEF SearchSound, Searching, Differs
<1>8. CASE WriteMore(p) \/ RemoveFile(p)
  BY <1>6, <1>8 DEF WriteMore, RemoveFile
<1>9. CASE Publish(p)
  <2> DEFINE u == [t EXCEPT !.stage = "read_metadata", !.at.place = "published"]
  <2>1. /\ u.stage = "read_metadata" /\ u.seen = t.seen /\ u.found = t.found
        /\ u.content = t.content /\ u.reason = t.reason /\ task'[p] = u /\ t.stage = "write"
    BY <1>1, <1>3, <1>9 DEF Publish, Written, Task
  <2>2. t.reason = "publish"
    BY <1>1, <2>1 DEF SearchSound
  <2> HIDE DEF u
  <2> QED BY <1>6, <2>1, <2>2 DEF SearchSound, Searching, Differs
<1>10. CASE RemoveTemporary(p)
  <2>1. task'[p] = [Idle EXCEPT !.stage = "raised"]
    BY <1>3, <1>10 DEF RemoveTemporary, Raise
  <2> QED BY <2>1 DEF Idle, SearchSound, Searching
<1> QED BY <1>7, <1>8, <1>9, <1>10

\* A published version gets its metadata before its name, and a name once.
LEMMA VersionsKept ==
    ASSUME SearchInv, NEW p \in Process, Step(p)
    PROVE  VersionsHaveMetadata' /\ VersionNamesUnique'
<1>1. /\ Inv /\ VersionsHaveMetadata /\ VersionNamesUnique /\ SearchSound(task[p], disk)
      /\ disk \in [Dir -> Dataset \cup {NoDataset}]
  BY DEF SearchInv, Inv, TypeOK
<1>2. CASE Versions' \subseteq Versions
  <2>1. \A d \in Versions : disk'[d] = disk[d]
    BY <1>1, StepKeepsVersions
  <2> QED BY <1>1, <1>2, <2>1 DEF VersionsHaveMetadata, VersionNamesUnique
<1>3. CASE Publish(p)
  <2>1. Owning(task[p]) /\ task[p].stage = "write"
    BY <1>3 DEF Publish, Written, Owning
  <2>2. PICK d \in Dir : d = task[p].at.dir
    BY <1>1, <2>1, OwnDirectory
  <2>3. /\ disk[d].moment = task[p].moment /\ disk[d].content = task[p].content
        /\ disk[d] \in Dataset /\ disk[d].metadata = "whole"
    BY <1>1, <1>3, <2>1, <2>2, OwnDirectory DEF SearchSound, Publish, Written
  <2>4. \A e \in Versions : ~(disk[e].moment = disk[d].moment /\ disk[e].content = disk[d].content)
    BY <1>3, <2>3 DEF Publish, RenameAllowed, FinalExists
  <2>5. disk' = [disk EXCEPT ![d].place = "published"]
    BY <1>3, <2>2 DEF Publish
  <2>6. /\ Versions' \subseteq Versions \cup {d}
        /\ \A e \in Versions : e # d => disk'[e] = disk[e]
        /\ disk'[d].moment = disk[d].moment /\ disk'[d].content = disk[d].content
        /\ disk'[d].metadata = disk[d].metadata
    BY <1>1, <2>3, <2>5 DEF Versions, Published, Made, Dataset
  <2> QED BY <1>1, <2>3, <2>4, <2>6 DEF VersionsHaveMetadata, VersionNamesUnique
<1>4. ~Publish(p) => Versions' \subseteq Versions
  <2> SUFFICES ASSUME ~Publish(p) PROVE Versions' \subseteq Versions
    OBVIOUS
  <2>1. CASE UNCHANGED disk
    BY <2>1 DEF Versions, Published, Made
  <2>2. ASSUME NEW d \in Dir, MakeTemporary(p, d) PROVE Versions' \subseteq Versions
    BY <1>1, <2>2 DEF MakeTemporary, Versions, Published, Made
  <2>3. CASE WriteMore(p) \/ RemoveFile(p) \/ RemoveTemporary(p)
    <3>1. Owning(task[p])
      BY <2>3 DEF WriteMore, RemoveFile, RemoveTemporary, Owning
    <3>2. PICK d \in Dir : d = task[p].at.dir
      BY <1>1, <3>1, OwnDirectory
    <3>3. disk[d] \in Dataset /\ disk[d].place = "temporary"
      BY <1>1, <3>1, <3>2, OwnDirectory DEF OwnTemporary
    <3>4. /\ \A e \in Dir : e # d => disk'[e] = disk[e]
          /\ disk'[d].place # "published"
      BY <1>1, <2>3, <3>2, <3>3 DEF WriteMore, RemoveFile, RemoveTemporary, Dataset
    <3> QED BY <3>4 DEF Versions, Published, Made
  <2>4. \/ \E d \in Dir : MakeTemporary(p, d)
        \/ WriteMore(p) \/ RemoveFile(p) \/ RemoveTemporary(p) \/ UNCHANGED disk
    BY DEF Step, Load, SkipDirectory, OpenDirectory, FindReturns, FindMisses, Fetch,
           Quarantine, Admit, PeekOther, PeekSame, PeekRaises, LookupMisses, WriteFails,
           ReadMetadata, ReadBars, Fail, Finish, Crash
  <2> QED BY <2>1, <2>2, <2>3, <2>4
<1> QED BY <1>2, <1>3, <1>4

LEMMA SearchStepInv == SearchInv /\ [Next]_vars => SearchInv'
<1> SUFFICES ASSUME SearchInv, [Next]_vars PROVE SearchInv'
  OBVIOUS
<1>1. /\ Inv /\ Inv' /\ VersionsHaveMetadata /\ VersionNamesUnique
      /\ task \in [Process -> Task] /\ disk \in [Dir -> Dataset \cup {NoDataset}]
  BY StepInv DEF SearchInv, Inv, TypeOK
<1>2. CASE UNCHANGED <<disk, task>>
  BY <1>1, <1>2
     DEF SearchInv, VersionsHaveMetadata, VersionNamesUnique, Versions, Published, Made
<1>3. ASSUME NEW d \in Dir, PowerLoss(d) PROVE SearchInv'
  <2>1. \A p \in Process : SearchSound(task'[p], disk')
    BY <1>3 DEF PowerLoss, Idle, SearchSound, Searching
  <2>2. disk[d] \in Dataset
    BY <1>1, <1>3 DEF PowerLoss, Made
  <2>3. /\ \A e \in Dir : e # d => disk'[e] = disk[e]
        /\ disk'[d].place = disk[d].place /\ disk'[d].moment = disk[d].moment
        /\ disk'[d].content = disk[d].content
        /\ disk[d].metadata # "absent" => disk'[d].metadata # "absent"
    BY <1>1, <1>3, <2>2 DEF PowerLoss, Dataset
  <2>4. Versions' \subseteq Versions
    BY <1>3, <2>3 DEF Versions, Published, PowerLoss, Made
  <2> QED BY <1>1, <2>1, <2>3, <2>4
          DEF SearchInv, VersionsHaveMetadata, VersionNamesUnique, Versions
<1>4. ASSUME NEW p \in Process, Step(p) PROVE SearchInv'
  <2>1. SearchSound(task'[p], disk')
    <3>1. CASE \/ \E d \in Dir : MakeTemporary(p, d)
               \/ WriteMore(p) \/ Publish(p) \/ RemoveFile(p) \/ RemoveTemporary(p)
      BY <3>1, SearchWrite
    <3>2. CASE UNCHANGED disk
      <4>1. SearchSound(task'[p], disk)
        BY <1>4, <3>2, SearchStep
      <4> QED BY <3>2, <4>1
    <3> QED BY <1>4, <3>1, <3>2
            DEF Step, Load, SkipDirectory, OpenDirectory, FindReturns, FindMisses, Fetch,
                Quarantine, Admit, PeekOther, PeekSame, PeekRaises, LookupMisses, WriteFails,
                ReadMetadata, ReadBars, Fail, Finish, Crash
  <2>2. ASSUME NEW q \in Process, q # p PROVE SearchSound(task'[q], disk')
    <3>1. task'[q] = task[q]
      BY <1>1, <1>4, <2>2
         DEF Step, Load, SkipDirectory, OpenDirectory, FindReturns, FindMisses, Fetch,
             Quarantine, Admit, PeekOther, PeekSame, PeekRaises, LookupMisses, WriteFails,
             ReadMetadata, ReadBars, Fail, Finish, Crash, MakeTemporary, WriteMore, Publish,
             RemoveFile, RemoveTemporary, Put, Raise, RaiseFromRead
    <3>2. PICK u \in Task, old \in {disk}, new \in {disk'} : u = task[q]
      BY <1>1
    <3>3. /\ SearchSound(u, old) /\ MovesOn(old, new)
          /\ Owning(u) => MadeIn(old, u.at.dir) /\ u.at.dir \in Dir
      BY <1>1, <1>4, <3>2, WritesMoveOn, OwnDirectory DEF SearchInv, MadeIn, Made
    <3>4. SearchSound(u, new)
      BY <3>3, SearchKept
    <3> QED BY <3>1, <3>2, <3>4
  <2>3. VersionsHaveMetadata' /\ VersionNamesUnique'
    BY <1>4, VersionsKept
  <2> QED BY <1>1, <2>1, <2>2, <2>3 DEF SearchInv
<1>5. CASE Tick
  BY <1>2, <1>5 DEF Tick
<1> QED BY <1>2, <1>3, <1>4, <1>5 DEF Next, vars

\* What a search has seen was published, it is considered before find answers,
\* and _find_by_hash has compared it before a new version is made.
THEOREM SearchInvCorrect == Spec => []SearchInv
<1>1. Init => SearchInv
  <2> SUFFICES ASSUME Init PROVE SearchInv
    OBVIOUS
  <2>1. Inv
    BY InitInv
  <2>2. VersionsHaveMetadata /\ VersionNamesUnique
    BY DEF Init, VersionsHaveMetadata, VersionNamesUnique, Versions, Published, Made
  <2>3. \A p \in Process : task[p] = Idle
    BY DEF Init
  <2> QED BY <2>1, <2>2, <2>3, RestIsSound DEF SearchInv
<1>2. SearchInv /\ [Next]_vars => SearchInv'
  BY SearchStepInv
<1> QED BY <1>1, <1>2, PTL DEF Spec

\* Property FindIsFresh: a cache hit is at least as new as every version that
\* was published when the search began (ImmutableParquetCache.find), however
\* other admissions, failures and crashes interleave with the listing.
THEOREM FreshFinds == Spec => []FindIsFresh
<1>1. SearchInv => FindIsFresh
  BY DEF SearchInv, SearchSound, FindIsFresh
<1> QED BY <1>1, SearchInvCorrect, PTL

\* A refresh makes no second version of content that was published before its
\* search for an equivalent began (ImmutableParquetCache._find_by_hash), and no
\* two published versions share a name.
THEOREM OneVersion == Spec => [](RefreshReusesVersion /\ VersionNamesUnique)
<1>1. SearchInv => RefreshReusesVersion /\ VersionNamesUnique
  BY DEF SearchInv, SearchSound, RefreshReusesVersion, Differs
<1> QED BY <1>1, SearchInvCorrect, PTL
=============================================================================
