----------------------------- MODULE FileStore -----------------------------
(***************************************************************************)
(* src/FileStore.cs: one file per key under a folder, an asynchronous      *)
(* reader/writer lock, and every file access a step of its own.  Processes *)
(* (Procs) call the operations that take the lock; Scanners enumerate      *)
(* Values, which takes no lock at all.  The lock is Nito's                 *)
(* AsyncReaderWriterLock (external): any waiter may be granted it once it  *)
(* is free, the order among waiters is left open.                          *)
(*                                                                         *)
(* File.Create opens with FileShare.None and File.OpenRead with            *)
(* FileShare.Read: opening a file that is open for writing throws, and so  *)
(* does creating one that is open for reading.                             *)
(***************************************************************************)
EXTENDS Naturals, FiniteSets

CONSTANTS
  Keys, Values, Procs, Scanners,
  Absent,      \* no such file
  Torn,        \* a file created or truncated, its content not all written
  Ok, Error, None,
  Crashes,     \* TRUE: the process may die and be restarted at any step
  IOFaults     \* TRUE: creating, closing and deleting a file may fail

ASSUME ConstantsAssumption ==
  /\ {Absent, Torn, Ok, Error, None} \cap Values = {}
  /\ None \notin Keys /\ None \notin {Absent, Torn, Ok, Error, TRUE, FALSE}
  /\ Absent # Torn
  /\ Crashes \in BOOLEAN /\ IOFaults \in BOOLEAN

VARIABLES
  disk,        \* [Keys -> Values \cup {Absent, Torn}], the folder
  pc,          \* the control state of each process
  request,     \* the operation each process has called
  result,      \* what it returns
  before,      \* history: each file's content when it was last opened for writing
  scan         \* the enumerations of Values

vars == <<disk, pc, request, result, before, scan>>

Writing == {"serialize", "closing", "cleanup"}     \* has the file of its key open

(* k is open for writing, for reading.                                     *)
OpenForWriting(k) == \E p \in Procs : pc[p] \in Writing /\ request[p].key = k
OpenForReading(k) == \E s \in Scanners : scan[s].pc = "reading" /\ scan[s].open = k

(* The refinement mapping: a file that is being written still counts as    *)
(* what it was before its writer opened it.                                *)
Committed == [k \in Keys |-> IF OpenForWriting(k) THEN before[k] ELSE disk[k]]

KV == INSTANCE KeyValueStore WITH map <- Committed

Requests == {r \in KV!Requests : /\ r.kind # "none" /\ r.key # None
                                 /\ r.kind = "put" <=> r.value # None}
Shared == {"reading"}                              \* holds the reader lock
Exclusive == Writing \cup {"create", "delete"}     \* holds the writer lock
Pcs == {"idle", "waiting", "done"} \cup Shared \cup Exclusive

NoScan == [pc |-> "idle", must |-> {}, seen |-> {}, open |-> None]
Scans == [pc : {"idle", "next", "reading", "threw"}, must : SUBSET Keys,
          seen : SUBSET Keys, open : Keys \cup {None}]

TypeOK ==
  /\ disk \in [Keys -> Values \cup {Absent, Torn}]
  /\ pc \in [Procs -> Pcs]
  /\ request \in [Procs -> Requests \cup {KV!NoRequest}]
  /\ result \in [Procs -> KV!Results \cup {Torn}]
  /\ before \in [Keys -> Values \cup {Absent, Torn}]
  /\ scan \in [Scanners -> Scans]

Init ==
  /\ disk = [k \in Keys |-> Absent]
  /\ pc = [p \in Procs |-> "idle"]
  /\ request = [p \in Procs |-> KV!NoRequest]
  /\ result = [p \in Procs |-> None]
  /\ before = [k \in Keys |-> Absent]
  /\ scan = [s \in Scanners |-> NoScan]

Step(p, from, to) == pc[p] = from /\ pc' = [pc EXCEPT ![p] = to]

(* p's operation has its result r; the lock and the file are released.     *)
Finish(p, from, r) == Step(p, from, "done") /\ result' = [result EXCEPT ![p] = r]

Write(k, content) == disk' = [disk EXCEPT ![k] = content]

-----------------------------------------------------------------------------
(* Calls, and the lock                                                     *)

Call(p, r) ==
  /\ Step(p, "idle", "waiting")
  /\ request' = [request EXCEPT ![p] = r]
  /\ UNCHANGED <<disk, result, before, scan>>

MayRead == \A q \in Procs : pc[q] \notin Exclusive
MayWrite == \A q \in Procs : pc[q] \notin Shared \cup Exclusive

(* Mutants: readers take no lock; writers take the reader lock.            *)
ReadUnlocked(p) ==
  /\ request[p].kind \in {"get", "exists"} /\ Step(p, "waiting", "reading")
  /\ UNCHANGED <<disk, request, result, before, scan>>
WriteWithReaderLock(p) ==
  /\ request[p].kind \in {"put", "remove"} /\ MayRead
  /\ Step(p, "waiting", IF request[p].kind = "put" THEN "create" ELSE "delete")
  /\ UNCHANGED <<disk, request, result, before, scan>>

ReaderLock(p) ==
  /\ request[p].kind \in {"get", "exists"}
  /\ MayRead
  /\ Step(p, "waiting", "reading")
  /\ UNCHANGED <<disk, request, result, before, scan>>

WriterLock(p) ==
  /\ request[p].kind \in {"put", "remove"}
  /\ MayWrite
  /\ Step(p, "waiting", IF request[p].kind = "put" THEN "create" ELSE "delete")
  /\ UNCHANGED <<disk, request, result, before, scan>>

(* The caller's token is cancelled while it waits; TryGetAsync does not    *)
(* pass the token to the lock.                                             *)
CancelWait(p) ==
  /\ request[p].kind # "get"
  /\ Finish(p, "waiting", Error)
  /\ UNCHANGED <<disk, request, before, scan>>

Return(p) ==
  /\ Step(p, "done", "idle")
  /\ request' = [request EXCEPT ![p] = KV!NoRequest]
  /\ result' = [result EXCEPT ![p] = None]
  /\ UNCHANGED <<disk, before, scan>>

-----------------------------------------------------------------------------
(* TryGetAsync, GetAsync, ExistsAsync and SizeOfAsync under the lock       *)

Read(p) ==
  /\ Finish(p, "reading", IF request[p].kind = "get" THEN disk[request[p].key]
                          ELSE disk[request[p].key] # Absent)
  /\ UNCHANGED <<disk, request, before, scan>>

(* Deserialize throws: the token is cancelled, or the content is malformed. *)
ReadThrows(p) ==
  /\ request[p].kind = "get" /\ disk[request[p].key] # Absent
  /\ Finish(p, "reading", Error)
  /\ UNCHANGED <<disk, request, before, scan>>

-----------------------------------------------------------------------------
(* PutAsync under the lock                                                 *)

(* File.Create truncates, or throws before it touches the file.            *)
Create(p) ==
  LET k == request[p].key IN
  /\ ~OpenForReading(k)
  /\ Step(p, "create", "serialize")
  /\ Write(k, Torn)
  /\ before' = [before EXCEPT ![k] = disk[k]]
  /\ UNCHANGED <<request, result, scan>>

CreateThrows(p) ==
  /\ IOFaults \/ OpenForReading(request[p].key)
  /\ Finish(p, "create", Error)
  /\ UNCHANGED <<disk, request, before, scan>>

(* Serialize returns or throws (a cancelled token, a value it rejects).    *)
Serialize(p) ==
  /\ Step(p, "serialize", "closing") \/ Step(p, "serialize", "cleanup")
  /\ UNCHANGED <<disk, request, result, before, scan>>

(* Mutant: Serialize(stream, name, value) writes the name.                 *)
KeyOf(p) == request[p].key
ValueOf(p) == request[p].value

(* The end of `using (var stream = ...)' writes what is still buffered; it *)
(* is outside the try block, so a failure here is not cleaned up.          *)
Close(p) ==
  /\ Finish(p, "closing", Ok)
  /\ Write(request[p].key, ValueOf(p))
  /\ UNCHANGED <<request, before, scan>>

CloseThrows(p) ==
  /\ IOFaults
  /\ Finish(p, "closing", Error)
  /\ UNCHANGED <<disk, request, before, scan>>

(* Mutants of Cleanup: the file is not deleted; the Put starts over.       *)
CleanupKeepsFile(p) ==
  /\ Finish(p, "cleanup", Error)
  /\ UNCHANGED <<disk, request, before, scan>>
CleanupRetries(p) ==
  /\ Step(p, "cleanup", "create") /\ Write(request[p].key, Absent)
  /\ UNCHANGED <<request, result, before, scan>>

(* catch: close and delete the file, "eat" an exception of doing so.       *)
Cleanup(p) ==
  /\ Finish(p, "cleanup", Error)
  /\ Write(request[p].key, Absent)
  /\ UNCHANGED <<request, before, scan>>

CleanupThrows(p) ==
  /\ IOFaults
  /\ Finish(p, "cleanup", Error)
  /\ UNCHANGED <<disk, request, before, scan>>

-----------------------------------------------------------------------------
(* RemoveAsync under the lock                                              *)

Delete(p) ==
  /\ Finish(p, "delete", Ok)
  /\ Write(request[p].key, Absent)
  /\ UNCHANGED <<request, before, scan>>

DeleteThrows(p) ==
  /\ IOFaults
  /\ Finish(p, "delete", Error)
  /\ UNCHANGED <<disk, request, before, scan>>

-----------------------------------------------------------------------------
(* Values: Directory.EnumerateFiles and, file by file, OpenRead and        *)
(* Deserialize.  Files that come and go during the enumeration may or may  *)
(* not be listed.                                                          *)

Existing == {k \in Keys : disk[k] # Absent}

StartScan(s) ==
  /\ scan[s].pc \in {"idle", "threw"}
  /\ scan' = [scan EXCEPT ![s] = [NoScan EXCEPT !.pc = "next", !.must = Existing]]
  /\ UNCHANGED <<disk, pc, request, result, before>>

(* The next file: one of the listing, or one that was added meanwhile.     *)
Unread(s) == (scan[s].must \cup Existing) \ scan[s].seen

OpenRead(s, k) ==
  /\ scan[s].pc = "next" /\ k \in Unread(s)
  /\ disk[k] # Absent /\ ~OpenForWriting(k)
  /\ scan' = [scan EXCEPT ![s].pc = "reading", ![s].open = k, ![s].seen = @ \cup {k}]
  /\ UNCHANGED <<disk, pc, request, result, before>>

ScanThrows(s) == scan' = [scan EXCEPT ![s] = [NoScan EXCEPT !.pc = "threw"]]

(* The listed file is gone, or open for writing.                           *)
OpenReadThrows(s, k) ==
  /\ scan[s].pc = "next" /\ k \in Unread(s)
  /\ disk[k] = Absent \/ OpenForWriting(k)
  /\ ScanThrows(s)
  /\ UNCHANGED <<disk, pc, request, result, before>>

CloseRead(s) ==
  /\ scan[s].pc = "reading"
  /\ scan' = [scan EXCEPT ![s].pc = "next", ![s].open = None]
  /\ UNCHANGED <<disk, pc, request, result, before>>

(* Deserialize throws on a file that was left torn.                        *)
DeserializeThrows(s) ==
  /\ scan[s].pc = "reading" /\ disk[scan[s].open] = Torn
  /\ ScanThrows(s)
  /\ UNCHANGED <<disk, pc, request, result, before>>

EndScan(s) ==
  /\ scan[s].pc = "next" /\ scan[s].must \cap Existing \subseteq scan[s].seen
  /\ scan' = [scan EXCEPT ![s] = NoScan]
  /\ UNCHANGED <<disk, pc, request, result, before>>

-----------------------------------------------------------------------------
(* The process dies: locks, calls and enumerations are gone, files remain. *)
Crash ==
  /\ Crashes
  /\ pc' = [p \in Procs |-> "idle"]
  /\ request' = [p \in Procs |-> KV!NoRequest]
  /\ result' = [p \in Procs |-> None]
  /\ scan' = [s \in Scanners |-> NoScan]
  /\ UNCHANGED <<disk, before>>

Locked(p) ==
  \/ Read(p) \/ ReadThrows(p)
  \/ Create(p) \/ CreateThrows(p) \/ Serialize(p) \/ Close(p) \/ CloseThrows(p)
  \/ Cleanup(p) \/ CleanupThrows(p) \/ Delete(p) \/ DeleteThrows(p)

ProcStep(p) == ReaderLock(p) \/ WriterLock(p) \/ CancelWait(p) \/ Locked(p) \/ Return(p)

ScanStep(s) == StartScan(s) \/ CloseRead(s) \/ DeserializeThrows(s) \/ EndScan(s)
                 \/ \E k \in Keys : OpenRead(s, k) \/ OpenReadThrows(s, k)

Next == \/ \E p \in Procs : (\E r \in Requests : Call(p, r)) \/ ProcStep(p)
        \/ \E s \in Scanners : ScanStep(s)
        \/ Crash

Spec == Init /\ [][Next]_vars

(* File accesses and the code between them end; nothing is said of the     *)
(* order in which the lock is granted.                                     *)
FairSpec == Spec /\ \A p \in Procs : WF_vars(Locked(p))

-----------------------------------------------------------------------------
(* "A reader/writer lock is used": no operation reads or changes a file    *)
(* while another one writes.                                               *)
MutualExclusion ==
  \A p, q \in Procs : p # q /\ pc[p] \in Exclusive => pc[q] \notin Shared \cup Exclusive

(* "All operations are atomic": the store never holds, and never hands     *)
(* out, a partly written value, unless a Put is in progress on that key.   *)
NoTornFile == \A k \in Keys : disk[k] = Torn => OpenForWriting(k)

(* Every operation takes effect at one instant between its call and its    *)
(* return, although its file accesses are many and may fail half-way.      *)
Atomic == KV!Spec

(* A call that was granted the lock gives it back, on every path out.      *)
LockReleased ==
  \A p \in Procs : pc[p] \in Shared \cup Exclusive ~> pc[p] \notin Shared \cup Exclusive
=============================================================================
