------------------------------ MODULE DataCache ------------------------------
(***************************************************************************)
(* The immutable market-data cache of one request and the repository that  *)
(* fills it (quant/data/cache.py, quant/data/repository.py).               *)
(*                                                                         *)
(* A dataset version is a directory with two files, bars and metadata.  It *)
(* is written in a temporary directory beside the published versions and   *)
(* renamed to <moment>_<content hash>.  Several processes load the request *)
(* at once; the listing of the versions is taken in one step, their files  *)
(* are read one by one afterwards.  glob("*/metadata.json") of pathlib     *)
(* matches the temporary directories too.                                  *)
(*                                                                         *)
(* A process may die at any step.  Nothing is synced, so a power loss can  *)
(* damage any file that was written.                                       *)
(***************************************************************************)
EXTENDS Integers, FiniteSets

CONSTANTS
    Process, Dir,      \* who loads, and the directories that can be made
    Content, Clean,    \* what the provider may answer, what validates clean
    NoDataset, NoDir, NoContent, Corrupt,
    MaxMoment, MaxPowerLosses  \* bounds on the clock and on power losses

ASSUME CleanAssumption == Clean \subseteq Content
ASSUME NoneAssumption  == NoContent \notin Content /\ Corrupt \notin Content

FileState == {"absent", "partial", "torn", "whole"}
Dataset   == [place : {"temporary", "published", "removed"}, moment : Nat,
              content : Clean, bars : FileState, metadata : FileState]

ASSUME NoDatasetAssumption == NoDataset \notin Dataset

Path    == [dir : Dir, place : {"temporary", "published"}]
Found   == [at : Path, loaded : Content \cup {Corrupt}]
Nowhere == [dir |-> NoDir, place |-> "nowhere"]

Stage  == {"idle", "find", "fetch", "admit", "lookup", "peek", "make", "write",
           "cleanup", "read_metadata", "read_bars", "returned", "raised"}
Reason == {"none", "find", "lookup", "publish"}

Task == [stage : Stage, reason : Reason, todo : SUBSET Path, found : SUBSET Found,
         seen : SUBSET Dir, at : Path \cup {Nowhere}, content : Content \cup {NoContent},
         moment : Nat, loaded : Content \cup {NoContent, Corrupt}]

VARIABLES
    disk,        \* the directories of the request
    task,        \* what each process is doing
    quarantine,  \* the contents quarantine records were written for
    clock,
    powerLosses

vars == <<disk, task, quarantine, clock, powerLosses>>

Idle == [stage |-> "idle", reason |-> "none", todo |-> {}, found |-> {},
         seen |-> {}, at |-> Nowhere, content |-> NoContent, moment |-> 0,
         loaded |-> NoContent]

Init ==
    /\ disk = [d \in Dir |-> NoDataset]
    /\ task = [p \in Process |-> Idle]
    /\ quarantine = {}
    /\ clock = 1
    /\ powerLosses = 0

-----------------------------------------------------------------------------
Made(d)      == disk[d] # NoDataset
Published(d) == Made(d) /\ disk[d].place = "published"
Versions     == {d \in Dir : Published(d)}

\* What a listing of the request's directory shows.
Listing == {a \in Path : Made(a.dir) /\ disk[a.dir].place = a.place}

Exists(a) == Made(a.dir) /\ disk[a.dir].place = a.place

FinalExists(moment, content) ==
    \E d \in Versions : disk[d].moment = moment /\ disk[d].content = content

Put(p, t) == task' = [task EXCEPT ![p] = t]

Raise(p) == Put(p, [Idle EXCEPT !.stage = "raised"])

\* Mutant of RaiseFromRead: a new version that cannot be verified is removed.
RaiseAndCleanUp(p) ==
    IF task[p].reason = "publish" THEN Put(p, [task[p] EXCEPT !.stage = "cleanup"])
                                  ELSE Raise(p)
RaiseFromRead(p) == Raise(p)

\* load: look into the cache unless a refresh is asked for.
Load(p, refresh) ==
    /\ task[p].stage = "idle"
    /\ Put(p, IF refresh THEN [Idle EXCEPT !.stage = "fetch"]
              ELSE [Idle EXCEPT !.stage = "find", !.todo = Listing, !.seen = Versions])
    /\ UNCHANGED <<disk, quarantine, clock, powerLosses>>

\* The next listed directory without a metadata file, or gone by now.
SkipDirectory(p, a) ==
    /\ task[p].stage \in {"find", "lookup"}
    /\ a \in task[p].todo
    /\ Exists(a) => disk[a.dir].metadata = "absent"
    /\ Put(p, [task[p] EXCEPT !.todo = @ \ {a}])
    /\ UNCHANGED <<disk, quarantine, clock, powerLosses>>

\* The next listed directory with one: find reads the dataset, _find_by_hash
\* first looks at the hash in its metadata.
OpenDirectory(p, a) ==
    /\ task[p].stage \in {"find", "lookup"}
    /\ a \in task[p].todo
    /\ Exists(a)
    /\ disk[a.dir].metadata # "absent"
    /\ Put(p, [task[p] EXCEPT !.todo = @ \ {a}, !.at = a, !.reason = task[p].stage,
                  !.stage = IF @ = "find" THEN "read_metadata" ELSE "peek"])
    /\ UNCHANGED <<disk, quarantine, clock, powerLosses>>

AnyFound(found) == found  \* mutant: the newest version is not looked for
Newest(found) ==
    {f \in found : \A g \in found : disk[g.at.dir].moment <= disk[f.at.dir].moment}

FindReturns(p) ==
    /\ task[p].stage = "find"
    /\ task[p].todo = {}
    /\ \E f \in Newest(task[p].found) :
          Put(p, [task[p] EXCEPT !.stage = "returned", !.at = f.at, !.loaded = f.loaded])
    /\ UNCHANGED <<disk, quarantine, clock, powerLosses>>

FindMisses(p) ==
    /\ task[p].stage = "find"
    /\ task[p].todo = {}
    /\ task[p].found = {}
    /\ Put(p, [Idle EXCEPT !.stage = "fetch"])
    /\ UNCHANGED <<disk, quarantine, clock, powerLosses>>

\* The provider answers, and the validator reports on the answer.
Fetch(p, content) ==
    /\ task[p].stage = "fetch"
    /\ Put(p, [Idle EXCEPT !.stage = "admit", !.content = content])
    /\ UNCHANGED <<disk, quarantine, clock, powerLosses>>

AnyReport(content) == TRUE  \* mutant: a dirty report is not looked at
ReportClean(content) == content \in Clean

\* admit of a dirty frame: a quarantine record, then DataQualityError.
Quarantine(p) ==
    /\ task[p].stage = "admit"
    /\ ~ReportClean(task[p].content)
    /\ quarantine' = quarantine \cup {task[p].content}
    /\ Raise(p)
    /\ UNCHANGED <<disk, clock, powerLosses>>

Admit(p) ==
    /\ task[p].stage = "admit"
    /\ ReportClean(task[p].content)
    /\ Put(p, [task[p] EXCEPT !.stage = "lookup", !.moment = clock,
                              !.todo = Listing, !.seen = Versions])
    /\ UNCHANGED <<disk, quarantine, clock, powerLosses>>

-----------------------------------------------------------------------------
\* Mutant: the same content of another moment counts as different.
SameVersion(p, d) ==
    disk[d].content = task[p].content /\ disk[d].moment = task[p].moment
SameContent(p, d) == disk[d].content = task[p].content

\* _find_by_hash on one metadata file: another hash, the same hash, or a file
\* that is gone or cannot be parsed.
PeekOther(p) ==
    LET a == task[p].at IN
    /\ task[p].stage = "peek"
    /\ Exists(a) /\ disk[a.dir].metadata = "whole"
    /\ ~SameContent(p, a.dir)
    /\ Put(p, [task[p] EXCEPT !.stage = "lookup", !.at = Nowhere, !.reason = "none"])
    /\ UNCHANGED <<disk, quarantine, clock, powerLosses>>

PeekSame(p) ==
    LET a == task[p].at IN
    /\ task[p].stage = "peek"
    /\ Exists(a) /\ disk[a.dir].metadata = "whole"
    /\ SameContent(p, a.dir)
    /\ Put(p, [task[p] EXCEPT !.stage = "read_metadata"])
    /\ UNCHANGED <<disk, quarantine, clock, powerLosses>>

PeekRaises(p) ==
    /\ task[p].stage = "peek"
    /\ Raise(p)
    /\ UNCHANGED <<disk, quarantine, clock, powerLosses>>

LookupMisses(p) ==
    /\ task[p].stage = "lookup"
    /\ task[p].todo = {}
    /\ IF FinalExists(task[p].moment, task[p].content)
       THEN Raise(p) ELSE Put(p, [task[p] EXCEPT !.stage = "make"])
    /\ UNCHANGED <<disk, quarantine, clock, powerLosses>>

MakeTemporary(p, d) ==
    /\ task[p].stage = "make"
    /\ ~Made(d)
    /\ disk' = [disk EXCEPT ![d] =
          [place |-> "temporary", moment |-> task[p].moment,
           content |-> task[p].content, bars |-> "absent", metadata |-> "absent"]]
    /\ Put(p, [task[p] EXCEPT !.stage = "write",
                  !.at = [dir |-> d, place |-> "temporary"], !.reason = "publish"])
    /\ UNCHANGED <<quarantine, clock, powerLosses>>

Further == [absent |-> "partial", partial |-> "whole"]

\* The bars are created and filled, then the metadata.
WriteMore(p) ==
    LET d == task[p].at.dir IN
    /\ task[p].stage = "write"
    /\ \/ /\ disk[d].bars # "whole"
          /\ disk' = [disk EXCEPT ![d].bars = Further[@]]
       \/ /\ disk[d].bars = "whole"
          /\ disk[d].metadata # "whole"
          /\ disk' = [disk EXCEPT ![d].metadata = Further[@]]
    /\ UNCHANGED <<task, quarantine, clock, powerLosses>>

Written(p) == task[p].stage = "write" /\ disk[task[p].at.dir].metadata = "whole"

RenameOver(p) == TRUE  \* mutant: the rename replaces a version of that name
RenameAllowed(p) == ~FinalExists(task[p].moment, task[p].content)

\* os.replace onto the final name, then the version is read back.
Publish(p) ==
    LET d == task[p].at.dir IN
    /\ Written(p)
    /\ RenameAllowed(p)
    /\ disk' = [disk EXCEPT ![d].place = "published"]
    /\ Put(p, [task[p] EXCEPT !.stage = "read_metadata", !.at.place = "published"])
    /\ UNCHANGED <<quarantine, clock, powerLosses>>

\* Any write may fail, and the rename fails on a final name that is taken.
WriteFails(p) ==
    /\ task[p].stage = "write"
    /\ Put(p, [task[p] EXCEPT !.stage = "cleanup"])
    /\ UNCHANGED <<disk, quarantine, clock, powerLosses>>

\* shutil.rmtree: the files in any order, then the directory.
RemoveFile(p) ==
    LET d == task[p].at.dir IN
    /\ task[p].stage = "cleanup"
    /\ \/ disk[d].bars # "absent" /\ disk' = [disk EXCEPT ![d].bars = "absent"]
       \/ disk[d].metadata # "absent" /\ disk' = [disk EXCEPT ![d].metadata = "absent"]
    /\ UNCHANGED <<task, quarantine, clock, powerLosses>>

RemoveTemporary(p) ==
    LET d == task[p].at.dir IN
    /\ task[p].stage = "cleanup"
    /\ disk[d].bars = "absent" /\ disk[d].metadata = "absent"
    /\ disk' = [disk EXCEPT ![d].place = "removed"]
    /\ Raise(p)
    /\ UNCHANGED <<quarantine, clock, powerLosses>>

-----------------------------------------------------------------------------
\* _read_dataset: the metadata first, then the bars and their hash.  Either
\* read may also fail by itself.
ReadMetadata(p) ==
    LET a == task[p].at IN
    /\ task[p].stage = "read_metadata"
    /\ \/ RaiseFromRead(p)
       \/ /\ Exists(a) /\ disk[a.dir].metadata = "whole"
          /\ Put(p, [task[p] EXCEPT !.stage = "read_bars"])
    /\ UNCHANGED <<disk, quarantine, clock, powerLosses>>

\* Torn bars may still parse, with other rows in them.
Parses(d)    == disk[d].bars \in {"torn", "whole"}
LoadedFrom(d) == IF disk[d].bars = "whole" THEN disk[d].content ELSE Corrupt

RowsCounted(d) == TRUE  \* mutant: only the row count is compared
HashMatches(d) == LoadedFrom(d) = disk[d].content

Readable(a) == Exists(a) /\ Parses(a.dir) /\ HashMatches(a.dir)

ReadBars(p) ==
    LET a == task[p].at
        t == task[p]
    IN
    /\ t.stage = "read_bars"
    /\ \/ RaiseFromRead(p)
       \/ /\ Readable(a)
          /\ t.reason = "find"
          /\ Put(p, [t EXCEPT !.stage = "find", !.at = Nowhere, !.reason = "none",
                 !.found = @ \cup {[at |-> a, loaded |-> LoadedFrom(a.dir)]}])
       \/ /\ Readable(a)
          /\ t.reason # "find"
          /\ Put(p, [t EXCEPT !.stage = "returned", !.loaded = LoadedFrom(a.dir)])
    /\ UNCHANGED <<disk, quarantine, clock, powerLosses>>

\* Any other call may raise: the listing, the provider, the validator, mkdtemp.
Fail(p) ==
    /\ task[p].stage \in {"find", "fetch", "admit", "lookup", "make"}
    /\ Raise(p)
    /\ UNCHANGED <<disk, quarantine, clock, powerLosses>>

Finish(p) ==
    /\ task[p].stage \in {"returned", "raised"}
    /\ Put(p, Idle)
    /\ UNCHANGED <<disk, quarantine, clock, powerLosses>>

Crash(p) ==
    /\ task[p].stage \notin {"idle", "returned", "raised"}
    /\ Put(p, Idle)
    /\ UNCHANGED <<disk, quarantine, clock, powerLosses>>

PowerLoss(d) ==
    /\ powerLosses < MaxPowerLosses
    /\ Made(d)
    /\ \/ disk[d].bars # "absent" /\ disk' = [disk EXCEPT ![d].bars = "torn"]
       \/ disk[d].metadata # "absent" /\ disk' = [disk EXCEPT ![d].metadata = "partial"]
    /\ powerLosses' = powerLosses + 1
    /\ task' = [p \in Process |-> Idle]
    /\ UNCHANGED <<quarantine, clock>>

Tick ==
    /\ clock < MaxMoment
    /\ clock' = clock + 1
    /\ UNCHANGED <<disk, task, quarantine, powerLosses>>

Step(p) ==
    \/ \E refresh \in BOOLEAN : Load(p, refresh)
    \/ \E a \in Path : SkipDirectory(p, a) \/ OpenDirectory(p, a)
    \/ FindReturns(p) \/ FindMisses(p)
    \/ \E c \in Content : Fetch(p, c)
    \/ Quarantine(p) \/ Admit(p)
    \/ PeekOther(p) \/ PeekSame(p) \/ PeekRaises(p) \/ LookupMisses(p)
    \/ \E d \in Dir : MakeTemporary(p, d)
    \/ WriteMore(p) \/ Publish(p) \/ WriteFails(p)
    \/ RemoveFile(p) \/ RemoveTemporary(p)
    \/ ReadMetadata(p) \/ ReadBars(p)
    \/ Fail(p) \/ Finish(p) \/ Crash(p)

Next ==
    \/ Tick
    \/ \E d \in Dir : PowerLoss(d)
    \/ \E p \in Process : Step(p)

Spec == Init /\ [][Next]_vars

-----------------------------------------------------------------------------
\* Every directory holds clean content, and every task is well formed.
TypeOK ==
    /\ disk \in [Dir -> Dataset \cup {NoDataset}]
    /\ task \in [Process -> Task]
    /\ quarantine \subseteq Content \ Clean
    /\ clock \in Nat
    /\ powerLosses \in Nat

\* What load returns is content that validated clean, as it was admitted: not
\* a damaged file, not a quarantined answer, not a dataset half written or
\* half removed.
LoadedIsClean ==
    \A p \in Process : task[p].stage = "returned" => task[p].loaded \in Clean

\* A cache hit is at least as new as every version that was published when
\* the search began, however the listing interleaves with other admissions.
FindIsFresh ==
    \A p \in Process :
        task[p].stage = "returned" /\ task[p].reason = "none" =>
            \A d \in task[p].seen : disk[d].moment <= disk[task[p].at.dir].moment

\* A refresh makes no second version of content that was published before
\* its search for an equivalent began.
RefreshReusesVersion ==
    \A p \in Process : task[p].reason = "publish" =>
        \A d \in task[p].seen \ {task[p].at.dir} : disk[d].content # task[p].content

\* Two published versions never share a name.
VersionNamesUnique ==
    \A d, e \in Versions :
        disk[d].moment = disk[e].moment /\ disk[d].content = disk[e].content => d = e

\* A published version is never moved, removed or rewritten, whoever fails,
\* retries or dies; only a power loss can damage its files.
VersionsImmutable ==
    [][\A d \in Versions :
          /\ disk'[d].place = "published"
          /\ disk'[d].moment = disk[d].moment
          /\ disk'[d].content = disk[d].content
          /\ disk'[d] # disk[d] => powerLosses' # powerLosses]_vars

\* The documented atomic admission: what load returns is a published version,
\* never a directory that another process is still filling.
LoadedIsPublished ==
    \A p \in Process : task[p].stage = "returned" => task[p].at.place = "published"
=============================================================================
