---------------------------- MODULE Gate1Journal ----------------------------
(***************************************************************************)
(* The hash-chained research journals of Gate 1 (preregistration/          *)
(* journal.py, class Gate1Journal): two files of records, one lock file    *)
(* for both, and any number of processes that call append.                 *)
(*                                                                         *)
(* append is the sequence of file-system steps of the code, and other      *)
(* processes run between any two of them: read and verify the journal,     *)
(* create the lock file exclusively, read again, append one line, read it  *)
(* back, unlink the lock.  Any step may raise an I/O error, a write may    *)
(* stop in the middle of its line, and a process may die at any point,     *)
(* which leaves its lock file behind.                                      *)
(*                                                                         *)
(* SHA-256 is taken to be injective: the digest of a record is the whole   *)
(* sequence of entries it covers.                                          *)
(***************************************************************************)
EXTENDS Naturals, Sequences, FiniteSets

CONSTANTS Writer, Journal, Id, Body, NoCall, Free, Leaked

ASSUME NoneAssumption == Free \notin Writer /\ Leaked \notin Writer /\ Free # Leaked

Entry   == [id : Id, body : Body]
Genesis == << >>
Record  == [entry : Entry, predecessor : Seq(Entry)]
Call    == [journal : Journal, entry : Entry, predecessor : Seq(Entry)]

ASSUME CallAssumption == NoCall \notin Call

VARIABLES
    file,     \* what each journal file holds: records, and a partial tail
    lock,     \* who created the lock file; Leaked when nobody will unlink it
    stage,    \* where in append each writer is
    call,     \* the arguments of that append, and the predecessor it read
    reported  \* history: every <<journal, entry>> an append returned

journalVars == <<file, lock, stage, call, reported>>

Rest   == {"idle", "returned", "raised"}
Inside == {"locked", "write", "verify", "unlock_ok", "unlock_failed"}

Init ==
    /\ file = [j \in Journal |-> [records |-> << >>, torn |-> FALSE]]
    /\ lock = Free
    /\ stage = [w \in Writer |-> "idle"]
    /\ call = [w \in Writer |-> NoCall]
    /\ reported = {}

-----------------------------------------------------------------------------
DigestOf(r) == Append(r.predecessor, r.entry)

TerminalId(rs) == IF rs = << >> THEN Genesis ELSE rs[Len(rs)].entry.id  \* mutant: chains on ids
Terminal(rs) == IF rs = << >> THEN Genesis ELSE DigestOf(rs[Len(rs)])

Names(rs, id) == \E i \in DOMAIN rs : rs[i].entry.id = id

Chained(rs) ==
    /\ \A i \in DOMAIN rs :
          rs[i].predecessor = IF i = 1 THEN Genesis ELSE DigestOf(rs[i - 1])
    /\ \A i, k \in DOMAIN rs : rs[i].entry.id = rs[k].entry.id => i = k

\* _read_records accepts a file of whole lines that form one chain.
Readable(j) == ~file[j].torn /\ Chained(file[j].records)

\* Mutant: the entry may be anywhere in the journal, not only at its end.
AnywhereInJournal(j, e) == \E i \in DOMAIN file[j].records : file[j].records[i].entry = e

\* append's idempotency: the very same record is already the last one.
AlreadyTerminal(j, e) ==
    LET rs == file[j].records IN rs # << >> /\ rs[Len(rs)].entry = e

MoveTo(w, s) == stage' = [stage EXCEPT ![w] = s]

Leave(w, s) == MoveTo(w, s) /\ call' = [call EXCEPT ![w] = NoCall]

-----------------------------------------------------------------------------
\* The read before the lock: returns the existing record,
ReturnExisting(w, j, e) ==
    /\ stage[w] \in Rest
    /\ Readable(j)
    /\ AlreadyTerminal(j, e)
    /\ MoveTo(w, "returned")
    /\ reported' = reported \cup {<<j, e>>}
    /\ UNCHANGED <<file, lock, call>>

\* or raises: the journal is torn, its chain is broken, the id is taken by
\* anything but that record, or the file cannot be read,
RaiseBeforeLock(w) ==
    /\ stage[w] \in Rest
    /\ MoveTo(w, "raised")
    /\ UNCHANGED <<file, lock, call, reported>>

\* or goes on to the lock.
GoToLock(w, j, e) ==
    /\ stage[w] \in Rest
    /\ Readable(j)
    /\ ~Names(file[j].records, e.id)
    /\ MoveTo(w, "acquire")
    /\ call' = [call EXCEPT ![w] = [journal |-> j, entry |-> e, predecessor |-> Genesis]]
    /\ UNCHANGED <<file, lock, reported>>

BeginAppend(w, j, e) ==
    ReturnExisting(w, j, e) \/ RaiseBeforeLock(w) \/ GoToLock(w, j, e)

LockIgnored == TRUE  \* mutant: O_EXCL is forgotten
LockAvailable == lock = Free

AcquireLock(w) ==
    /\ stage[w] = "acquire"
    /\ LockAvailable
    /\ lock' = w
    /\ MoveTo(w, "locked")
    /\ UNCHANGED <<file, call, reported>>

\* The lock is held, by a live process or by one that is gone, or the lock
\* file cannot be created.
RaiseAtLock(w) ==
    /\ stage[w] = "acquire"
    /\ Leave(w, "raised")
    /\ UNCHANGED <<file, lock, reported>>

StillReadable(w) == Readable(call[w].journal)  \* mutant: ids are not looked at again
StillFresh(w) ==
    /\ Readable(call[w].journal)
    /\ ~Names(file[call[w].journal].records, call[w].entry.id)

\* The second read, under the lock, decides the predecessor digest.
ReadUnderLock(w) ==
    /\ stage[w] = "locked"
    /\ StillFresh(w)
    /\ call' = [call EXCEPT ![w].predecessor = Terminal(file[call[w].journal].records)]
    /\ MoveTo(w, "write")
    /\ UNCHANGED <<file, lock, reported>>

\* One whole O_APPEND line, or a part of one.
WriteLine(w) ==
    LET c == call[w]
        r == [entry |-> c.entry, predecessor |-> c.predecessor]
    IN  /\ stage[w] = "write"
        /\ file' = [file EXCEPT ![c.journal].records = Append(@, r)]
        /\ MoveTo(w, "verify")
        /\ UNCHANGED <<lock, call, reported>>

TearLine(w) ==
    /\ stage[w] = "write"
    /\ file' = [file EXCEPT ![call[w].journal].torn = TRUE]
    /\ MoveTo(w, "unlock_failed")
    /\ UNCHANGED <<lock, call, reported>>

\* The read-back finds the new record at the end of a verified chain.
VerifyLine(w) ==
    /\ stage[w] = "verify"
    /\ Readable(call[w].journal)
    /\ AlreadyTerminal(call[w].journal, call[w].entry)
    /\ MoveTo(w, "unlock_ok")
    /\ UNCHANGED <<file, lock, call, reported>>

\* Anything inside the lock may raise: a duplicate id, an unreadable file, an
\* I/O error of the lock file, the journal, its fsync or its read-back.
RaiseInside(w) ==
    /\ stage[w] \in {"locked", "write", "verify"}
    /\ MoveTo(w, "unlock_failed")
    /\ UNCHANGED <<file, lock, call, reported>>

\* The finally clause unlinks the lock file.
Unlock(w) ==
    /\ stage[w] \in {"unlock_ok", "unlock_failed"}
    /\ lock' = Free
    /\ Leave(w, IF stage[w] = "unlock_ok" THEN "returned" ELSE "raised")
    /\ reported' = IF stage[w] = "unlock_ok"
                   THEN reported \cup {<<call[w].journal, call[w].entry>>}
                   ELSE reported
    /\ UNCHANGED file

\* It cannot: append raises, even for a record that was appended and verified.
UnlockFails(w) ==
    /\ stage[w] \in {"unlock_ok", "unlock_failed"}
    /\ lock' = Leaked
    /\ Leave(w, "raised")
    /\ UNCHANGED <<file, reported>>

\* The process dies inside append and is started again.
Crash(w) ==
    /\ stage[w] \notin Rest
    /\ lock' = IF lock = w THEN Leaked ELSE lock
    /\ Leave(w, "idle")
    /\ UNCHANGED <<file, reported>>

AppendStep(w) ==
    \/ AcquireLock(w) \/ RaiseAtLock(w)
    \/ ReadUnderLock(w) \/ WriteLine(w) \/ TearLine(w) \/ VerifyLine(w)
    \/ RaiseInside(w)
    \/ Unlock(w) \/ UnlockFails(w)

Next ==
    \E w \in Writer :
        \/ \E j \in Journal, e \in Entry : BeginAppend(w, j, e)
        \/ AppendStep(w)
        \/ Crash(w)

Spec == Init /\ [][Next]_journalVars

-----------------------------------------------------------------------------
TypeOK ==
    /\ file \in [Journal -> [records : Seq(Record), torn : BOOLEAN]]
    /\ lock \in Writer \cup {Free, Leaked}
    /\ stage \in [Writer -> Rest \cup Inside \cup {"acquire"}]
    /\ call \in [Writer -> Call \cup {NoCall}]
    /\ \A w \in Writer : stage[w] \in Rest \/ call[w] # NoCall
    /\ reported \subseteq Journal \X Entry

\* The lock file is one process's from the moment it creates it until its
\* append ends, however it ends, and no process outside append owns it.
LockOwnedInside == \A w \in Writer : stage[w] \in Inside <=> lock = w

\* Whatever processes do between one another's steps, the whole lines of a
\* journal form one chain from genesis in which no id appears twice.
ChainIntact == \A j \in Journal : Chained(file[j].records)

EntriesOf(rs) == [i \in DOMAIN rs |-> rs[i].entry]

\* Each journal is an append-only log that reports only what it really holds:
\* a record reported appended was the last one when it was reported, is never
\* removed, and a torn journal is never written again.
Log == INSTANCE AppendOnlyLog
         WITH log <- [j \in Journal |-> EntriesOf(file[j].records)],
              broken <- [j \in Journal |-> file[j].torn]
ImplementsAppendOnlyLog == Log!Spec
=============================================================================
