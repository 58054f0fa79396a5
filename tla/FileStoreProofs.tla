-------------------------- MODULE FileStoreProofs --------------------------
(***************************************************************************)
(* The file store for any keys, values, processes and scanners: its lock   *)
(* excludes, and as long as the process does not die and the disk does not *)
(* fail, its operations are atomic.                                        *)
(***************************************************************************)
EXTENDS FileStore, TLAPS

NoFaults == ~Crashes /\ ~IOFaults

(* What an operation holds at each point of its control.                   *)
Started(p) == /\ request[p] \in Requests
              /\ pc[p] # "done" => result[p] = None
              /\ pc[p] = "done" => result[p] # None
              /\ pc[p] \in Shared => request[p].kind \in {"get", "exists"}
              /\ pc[p] \in Writing \cup {"create"} => request[p].kind = "put"
              /\ pc[p] = "delete" => request[p].kind = "remove"
CallOK(p) == IF pc[p] = "idle" THEN request[p] = KV!NoRequest /\ result[p] = None
                               ELSE Started(p)
CallInv == \A p \in Procs : CallOK(p)

IInv == TypeOK /\ CallInv /\ MutualExclusion

LEMMA RequestFacts ==
  /\ \A r \in Requests : /\ r \in KV!Requests /\ r.kind # "none" /\ r.key \in Keys
                         /\ r.kind \in {"get", "exists", "put", "remove"}
                         /\ r.kind = "put" => r.value \in Values
  /\ KV!NoRequest \in KV!Requests /\ KV!NoRequest \notin Requests
  /\ KV!NoRequest.kind = "none"
BY DEF Requests, KV!Requests, KV!Kinds, KV!NoRequest

LEMMA PcFacts ==
  /\ {"idle", "waiting", "done"} \subseteq Pcs
  /\ \A x \in {"idle", "waiting", "done"} : x \notin Shared /\ x \notin Exclusive
  /\ Shared \subseteq Pcs /\ Exclusive \subseteq Pcs /\ Writing \subseteq Exclusive
  /\ Shared \cap Exclusive = {}
BY DEF Pcs, Shared, Exclusive, Writing

LEMMA ScanFacts ==
  /\ NoScan \in Scans
  /\ [NoScan EXCEPT !.pc = "threw"] \in Scans
  /\ \A m \in SUBSET Keys : [NoScan EXCEPT !.pc = "next", !.must = m] \in Scans
BY DEF NoScan, Scans

-----------------------------------------------------------------------------
(* Scanners only read.                                                     *)
LEMMA ScanStepInv ==
  ASSUME IInv, NEW s \in Scanners, ScanStep(s)
  PROVE  /\ IInv'
         /\ UNCHANGED <<disk, pc, request, result, before>>
<1>1. UNCHANGED <<disk, pc, request, result, before>>
  BY DEF ScanStep, StartScan, OpenRead, OpenReadThrows, CloseRead, DeserializeThrows, EndScan
<1>2. scan \in [Scanners -> Scans] /\ scan[s] \in Scans
  BY DEF IInv, TypeOK
<1>3. scan' \in [Scanners -> Scans]
  <2>1. CASE StartScan(s)
    BY <1>2, <2>1, ScanFacts DEF StartScan, Existing
  <2>2. ASSUME NEW k \in Keys, OpenRead(s, k)
        PROVE  scan' \in [Scanners -> Scans]
    BY <1>2, <2>2 DEF OpenRead, Scans
  <2>3. ASSUME NEW k \in Keys, OpenReadThrows(s, k)
        PROVE  scan' \in [Scanners -> Scans]
    BY <1>2, <2>3, ScanFacts DEF OpenReadThrows, ScanThrows
  <2>4. CASE CloseRead(s)
    BY <1>2, <2>4 DEF CloseRead, Scans
  <2>5. CASE DeserializeThrows(s)
    BY <1>2, <2>5, ScanFacts DEF DeserializeThrows, ScanThrows
  <2>6. CASE EndScan(s)
    BY <1>2, <2>6, ScanFacts DEF EndScan
  <2> QED
    BY <2>1, <2>2, <2>3, <2>4, <2>5, <2>6 DEF ScanStep
<1> QED
  BY <1>1, <1>3 DEF IInv, TypeOK, CallInv, CallOK, Started, MutualExclusion

-----------------------------------------------------------------------------
(* The steps of a process.                                                 *)

Files == [Keys -> Values \cup {Absent, Torn}]

(* p moves to `to', in keeping with the lock, and nobody else moves.       *)
LEMMA ProcInv ==
  ASSUME IInv, NEW p \in Procs, NEW to \in Pcs, pc' = [pc EXCEPT ![p] = to],
         NEW r \in Requests \cup {KV!NoRequest}, request' = [request EXCEPT ![p] = r],
         NEW v \in KV!Results \cup {Torn}, result' = [result EXCEPT ![p] = v],
         disk' \in Files, before' \in Files, scan' = scan,
         to \in Exclusive => pc[p] \in Exclusive \/ MayWrite,
         to \in Shared => MayRead,
         CallOK(p)'
  PROVE  IInv'
<1>1. TypeOK'
  BY DEF IInv, TypeOK, Files
<1>2. CallInv'
  <2> SUFFICES ASSUME NEW q \in Procs, q # p PROVE CallOK(q)'
    BY DEF CallInv
  <2>1. pc'[q] = pc[q] /\ request'[q] = request[q] /\ result'[q] = result[q]
    BY DEF IInv, TypeOK
  <2> QED
    BY <2>1 DEF IInv, CallInv, CallOK, Started
<1>3. MutualExclusion'
  <2> SUFFICES ASSUME NEW q1 \in Procs, NEW q2 \in Procs, q1 # q2, pc'[q1] \in Exclusive
               PROVE  pc'[q2] \notin Shared \cup Exclusive
    BY DEF MutualExclusion
  <2>1. /\ \A q \in Procs : pc'[q] = IF q = p THEN to ELSE pc[q]
        /\ MutualExclusion
    BY DEF IInv, TypeOK
  <2> QED
    BY <2>1 DEF MutualExclusion, MayRead, MayWrite
<1> QED
  BY <1>1, <1>2, <1>3 DEF IInv

LEMMA CallStep ==
  ASSUME IInv, NEW p \in Procs, NEW r \in Requests, Call(p, r)
  PROVE  IInv'
<1>1. /\ pc[p] = "idle" /\ pc' = [pc EXCEPT ![p] = "waiting"]
      /\ request' = [request EXCEPT ![p] = r]
      /\ result[p] = None /\ result' = [result EXCEPT ![p] = None]
      /\ disk' = disk /\ before' = before /\ scan' = scan
      /\ disk \in Files /\ before \in Files
      /\ pc \in [Procs -> Pcs]
      /\ request \in [Procs -> Requests \cup {KV!NoRequest}]
      /\ None \in KV!Results
  BY DEF Call, Step, IInv, CallInv, CallOK, TypeOK, Files, KV!Results
<1>2. CallOK(p)'
  BY <1>1 DEF CallOK, Started, Shared, Writing
<1> QED
  BY <1>1, <1>2, PcFacts, ProcInv

LEMMA ReturnStep ==
  ASSUME IInv, NEW p \in Procs, Return(p)
  PROVE  IInv'
<1>1. /\ pc' = [pc EXCEPT ![p] = "idle"]
      /\ request' = [request EXCEPT ![p] = KV!NoRequest]
      /\ result' = [result EXCEPT ![p] = None]
      /\ disk' = disk /\ before' = before /\ scan' = scan
      /\ disk \in Files /\ before \in Files
      /\ pc \in [Procs -> Pcs]
      /\ request \in [Procs -> Requests \cup {KV!NoRequest}]
      /\ result \in [Procs -> KV!Results \cup {Torn}]
      /\ None \in KV!Results
  BY DEF Return, Step, IInv, TypeOK, Files, KV!Results
<1>2. CallOK(p)'
  BY <1>1 DEF CallOK
<1> QED
  BY <1>1, <1>2, PcFacts, ProcInv

(* A call that waits for the lock, or holds it, and is not yet done.       *)
LEMMA InProgress ==
  ASSUME IInv, NEW p \in Procs, pc[p] \notin {"idle", "done"}
  PROVE  /\ request[p] \in Requests /\ request[p].key \in Keys
         /\ request[p].kind \in {"get", "exists", "put", "remove"}
         /\ request[p].kind = "put" => request[p].value \in Values
         /\ result[p] = None
         /\ pc[p] \in Shared => request[p].kind \in {"get", "exists"}
         /\ pc[p] \in Writing \cup {"create"} => request[p].kind = "put"
         /\ pc[p] = "delete" => request[p].kind = "remove"
BY RequestFacts DEF IInv, CallInv, CallOK, Started

(* It goes on, or it gets a result.                                        *)
LEMMA GoesOn ==
  ASSUME IInv, NEW p \in Procs, pc[p] \notin {"idle", "done"},
         NEW to \in Pcs \ {"idle", "done"}, pc' = [pc EXCEPT ![p] = to],
         UNCHANGED <<request, result, scan>>, disk' \in Files, before' \in Files,
         to \in Exclusive => pc[p] \in Exclusive \/ MayWrite,
         to \in Shared => MayRead,
         to \in Shared => request[p].kind \in {"get", "exists"},
         to \in Writing \cup {"create"} => request[p].kind = "put",
         to = "delete" => request[p].kind = "remove"
  PROVE  IInv'
<1>1. /\ pc \in [Procs -> Pcs]
      /\ request \in [Procs -> Requests \cup {KV!NoRequest}]
      /\ result \in [Procs -> KV!Results \cup {Torn}]
  BY DEF IInv, TypeOK
<1>2. /\ request' = [request EXCEPT ![p] = request[p]]
      /\ result' = [result EXCEPT ![p] = result[p]]
  BY <1>1
<1>3. CallOK(p)'
  BY <1>1, InProgress DEF CallOK, Started
<1> QED
  BY <1>1, <1>2, <1>3, ProcInv

LEMMA FinishInv ==
  ASSUME IInv, NEW p \in Procs, NEW from \in Pcs \ {"idle", "done"},
         NEW v \in KV!Results \cup {Torn}, v # None, Finish(p, from, v),
         UNCHANGED <<request, scan>>, disk' \in Files, before' \in Files
  PROVE  IInv'
<1>1. /\ pc \in [Procs -> Pcs] /\ pc[p] = from
      /\ request \in [Procs -> Requests \cup {KV!NoRequest}]
      /\ result \in [Procs -> KV!Results \cup {Torn}]
      /\ pc' = [pc EXCEPT ![p] = "done"] /\ result' = [result EXCEPT ![p] = v]
  BY DEF IInv, TypeOK, Finish, Step
<1>2. request' = [request EXCEPT ![p] = request[p]]
  BY <1>1
<1>3. CallOK(p)'
  BY <1>1, InProgress DEF CallOK, Started, Shared, Writing
<1> QED
  BY <1>1, <1>2, <1>3, PcFacts, ProcInv

LEMMA ResultFacts ==
  /\ {Ok, Error, Absent} \cup Values \subseteq KV!Results
  /\ BOOLEAN \subseteq KV!Results
  /\ \A v \in {Ok, Error, Absent, Torn} \cup Values \cup BOOLEAN : v # None
BY ConstantsAssumption DEF KV!Results

LEMMA LockSteps ==
  ASSUME IInv, NEW p \in Procs, ReaderLock(p) \/ WriterLock(p) \/ CancelWait(p)
  PROVE  IInv'
<1>1. /\ disk \in Files /\ before \in Files
      /\ UNCHANGED <<disk, request, before, scan>>
      /\ pc[p] = "waiting"
  BY DEF IInv, TypeOK, Files, ReaderLock, WriterLock, CancelWait, Step, Finish
<1>2. CASE ReaderLock(p)
  BY <1>1, <1>2, PcFacts, GoesOn DEF ReaderLock, Step, Shared, Exclusive, Writing
<1>3. CASE WriterLock(p) /\ request[p].kind = "put"
  BY <1>1, <1>3, PcFacts, GoesOn DEF WriterLock, Step, Shared, Exclusive, Writing
<1>4. CASE WriterLock(p) /\ request[p].kind = "remove"
  BY <1>1, <1>4, PcFacts, GoesOn DEF WriterLock, Step, Shared, Exclusive, Writing
<1>5. CASE CancelWait(p)
  BY <1>1, <1>5, PcFacts, ResultFacts, FinishInv DEF CancelWait
<1> QED
  BY <1>2, <1>3, <1>4, <1>5 DEF WriterLock

LEMMA ReadSteps ==
  ASSUME IInv, NEW p \in Procs, Read(p) \/ ReadThrows(p)
  PROVE  IInv'
<1>1. /\ disk \in Files /\ before \in Files
      /\ UNCHANGED <<disk, request, before, scan>>
      /\ pc[p] = "reading" /\ "reading" \in Pcs \ {"idle", "done"}
  BY DEF IInv, TypeOK, Files, Read, ReadThrows, Step, Finish, Pcs, Shared
<1>2. disk[request[p].key] \in Values \cup {Absent, Torn}
  BY <1>1, InProgress DEF Files
<1>3. PICK v \in Values \cup {Absent, Torn, Error} \cup BOOLEAN : Finish(p, "reading", v)
  <2>1. CASE ReadThrows(p)
    BY <2>1 DEF ReadThrows
  <2>2. CASE Read(p) /\ request[p].kind = "get"
    BY <1>2, <2>2 DEF Read
  <2>3. CASE Read(p) /\ request[p].kind # "get"
    <3> DEFINE b == disk[request[p].key] # Absent
    <3>1. Finish(p, "reading", b)
      BY <2>3 DEF Read
    <3>2. b \in BOOLEAN
      OBVIOUS
    <3> QED
      BY <3>1, <3>2
  <2> QED
    BY <2>1, <2>2, <2>3
<1> QED
  BY <1>1, <1>3, ResultFacts, FinishInv

LEMMA WriteFiles ==
  ASSUME disk \in Files, NEW k \in Keys, NEW v \in Values \cup {Absent, Torn}, Write(k, v)
  PROVE  disk' \in Files
BY DEF Files, Write

LEMMA WriteSteps ==
  ASSUME IInv, NEW p \in Procs,
         \/ Create(p) \/ CreateThrows(p) \/ Serialize(p) \/ Close(p) \/ CloseThrows(p)
         \/ Cleanup(p) \/ CleanupThrows(p) \/ Delete(p) \/ DeleteThrows(p)
  PROVE  IInv'
<1>1. /\ disk \in Files /\ before \in Files
      /\ pc[p] \in Exclusive /\ pc[p] \notin {"idle", "done"} /\ Exclusive \subseteq Pcs
      /\ UNCHANGED <<request, scan>>
  BY PcFacts DEF IInv, TypeOK, Files, Create, CreateThrows, Serialize, Close, CloseThrows,
     Cleanup, CleanupThrows, Delete, DeleteThrows, Step, Finish, Exclusive, Writing
<1>2. /\ request[p].key \in Keys
      /\ pc[p] # "delete" => request[p].kind = "put" /\ request[p].value \in Values
  BY <1>1, InProgress DEF Exclusive
<1>3. CASE Create(p)
  <2>1. disk' \in Files
    BY <1>1, <1>2, <1>3, WriteFiles DEF Create
  <2>2. before' \in Files
    BY <1>1, <1>2, <1>3 DEF Create, Files
  <2>3. "serialize" \in Pcs /\ "serialize" \in Exclusive /\ "serialize" \notin Shared
    BY DEF Pcs, Exclusive, Shared, Writing
  <2>4. pc[p] = "create" /\ pc' = [pc EXCEPT ![p] = "serialize"] /\ result' = result
    BY <1>3 DEF Create, Step
  <2> QED
    BY <1>1, <1>2, <2>1, <2>2, <2>3, <2>4, GoesOn
<1>4. CASE Serialize(p)
  <2>1. PICK to \in {"closing", "cleanup"} : pc' = [pc EXCEPT ![p] = to]
    BY <1>4 DEF Serialize, Step
  <2>2. to \in Pcs /\ to \in Exclusive /\ to \notin Shared
    BY DEF Pcs, Exclusive, Shared, Writing
  <2>3. pc[p] = "serialize" /\ UNCHANGED <<disk, before, result>>
    BY <1>4 DEF Serialize, Step
  <2> QED
    BY <1>1, <1>2, <2>1, <2>2, <2>3, GoesOn
<1>5. CASE ~Create(p) /\ ~Serialize(p)
  <2>1. before' \in Files
    BY <1>1, <1>5 DEF CreateThrows, Close, CloseThrows, Cleanup, CleanupThrows, Delete,
       DeleteThrows
  <2>2. disk' \in Files
    BY <1>1, <1>2, <1>5, WriteFiles DEF CreateThrows, Close, CloseThrows, Cleanup,
       CleanupThrows, Delete, DeleteThrows, ValueOf, Finish, Step
  <2>3. PICK from \in Exclusive, v \in {Ok, Error} : Finish(p, from, v)
    BY <1>5 DEF CreateThrows, Close, CloseThrows, Cleanup, CleanupThrows, Delete,
       DeleteThrows, Exclusive, Writing
  <2>4. from \in Pcs \ {"idle", "done"}
    BY DEF Pcs, Exclusive, Writing
  <2> QED
    BY <1>1, <2>1, <2>2, <2>3, <2>4, ResultFacts, FinishInv
<1> QED
  BY <1>3, <1>4, <1>5

LEMMA CrashStep ==
  ASSUME IInv, Crash
  PROVE  IInv'
<1>1. TypeOK'
  BY ScanFacts, RequestFacts, PcFacts DEF IInv, TypeOK, Crash, KV!Results
<1>2. CallInv' /\ MutualExclusion'
  BY PcFacts DEF Crash, CallInv, CallOK, MutualExclusion
<1> QED
  BY <1>1, <1>2 DEF IInv

LEMMA InitInv == Init => IInv
<1> SUFFICES ASSUME Init PROVE IInv
  OBVIOUS
<1>1. TypeOK
  BY ScanFacts, PcFacts DEF Init, TypeOK, KV!Results
<1>2. CallInv /\ MutualExclusion
  BY PcFacts DEF Init, CallInv, CallOK, MutualExclusion
<1> QED
  BY <1>1, <1>2 DEF IInv

LEMMA NextInv == IInv /\ [Next]_vars => IInv'
<1> SUFFICES ASSUME IInv, [Next]_vars PROVE IInv'
  OBVIOUS
<1>1. CASE UNCHANGED vars
  BY <1>1 DEF vars, IInv, TypeOK, CallInv, CallOK, Started, MutualExclusion
<1>2. ASSUME NEW p \in Procs, (\E r \in Requests : Call(p, r)) \/ ProcStep(p)
      PROVE  IInv'
  BY <1>2, CallStep, LockSteps, ReadSteps, WriteSteps, ReturnStep DEF ProcStep, Locked
<1> QED
  BY <1>1, <1>2, ScanStepInv, CrashStep DEF Next

LEMMA Inductive == Spec => []IInv
BY InitInv, NextInv, PTL DEF Spec

(* The state stays well formed, whatever dies or fails.                    *)
THEOREM TypeCorrect == Spec => []TypeOK
<1>1. IInv => TypeOK
  BY DEF IInv
<1> QED
  BY <1>1, Inductive, PTL

(* Nobody reads or writes beside a writer, whatever dies or fails.         *)
THEOREM LockExcludes == Spec => []MutualExclusion
<1>1. IInv => MutualExclusion
  BY DEF IInv
<1> QED
  BY <1>1, Inductive, PTL

-----------------------------------------------------------------------------
(* Without crashes and disk faults: which file is open for writing.        *)

LEMMA OneWriter ==
  ASSUME IInv, NEW p \in Procs, pc[p] \in Exclusive
  PROVE  /\ \A q \in Procs : q # p => pc[q] \notin Shared /\ pc[q] \notin Exclusive
         /\ \A k \in Keys : OpenForWriting(k) <=> pc[p] \in Writing /\ request[p].key = k
<1>1. \A q \in Procs : q # p => pc[q] \notin Shared /\ pc[q] \notin Exclusive
  BY DEF IInv, MutualExclusion
<1> QED
  BY <1>1, PcFacts DEF OpenForWriting

LEMMA NoWriter ==
  ASSUME IInv, NEW p \in Procs, pc[p] \in Shared
  PROVE  \A k \in Keys : ~OpenForWriting(k)
BY PcFacts DEF IInv, MutualExclusion, OpenForWriting

(* A step of p that neither opens nor closes a file for writing.           *)
LEMMA SameWriters ==
  ASSUME IInv, NEW p \in Procs, NEW to, pc' = [pc EXCEPT ![p] = to],
         request' = request, pc[p] \in Writing <=> to \in Writing
  PROVE  \A k \in Keys : OpenForWriting(k)' <=> OpenForWriting(k)
<1>1. \A q \in Procs : pc'[q] = IF q = p THEN to ELSE pc[q]
  BY DEF IInv, TypeOK
<1> QED
  BY <1>1 DEF OpenForWriting

LEMMA SameCommitted ==
  ASSUME \A k \in Keys : OpenForWriting(k)' <=> OpenForWriting(k),
         disk' = disk, before' = before
  PROVE  Committed' = Committed
BY DEF Committed

(* p has the file of its key open before the step and closed after it, or  *)
(* opens and closes it within the step: what it wrote is committed.        *)
LEMMA WriterDone ==
  ASSUME IInv, NEW p \in Procs, NEW from \in Exclusive, NEW v, NEW r, Finish(p, from, r),
         request' = request, NEW k \in Keys, request[p].key = k, Write(k, v)
  PROVE  /\ \A j \in Keys : ~OpenForWriting(j)'
         /\ Committed' = [Committed EXCEPT ![k] = v]
<1>1. pc[p] = from /\ \A q \in Procs : pc'[q] = IF q = p THEN "done" ELSE pc[q]
  BY DEF IInv, TypeOK, Finish, Step
<1>2. \A q \in Procs : pc'[q] \notin Writing
  BY <1>1, OneWriter, PcFacts
<1>3. \A j \in Keys : ~OpenForWriting(j)'
  BY <1>2 DEF OpenForWriting
<1>4. \A j \in Keys : j # k => ~OpenForWriting(j)
  BY <1>1, OneWriter
<1>5. \A j \in Keys : disk'[j] = IF j = k THEN v ELSE disk[j]
  BY DEF IInv, TypeOK, Write
<1>6. \A j \in Keys : Committed'[j] = IF j = k THEN v ELSE Committed[j]
  BY <1>3, <1>4, <1>5 DEF Committed
<1> QED
  BY <1>3, <1>6 DEF Committed

LEMMA WriterOpens ==
  ASSUME IInv, NEW p \in Procs, Create(p)
  PROVE  /\ \A j \in Keys : OpenForWriting(j)' <=> j = request[p].key
         /\ request[p].key \in Keys
         /\ Committed' = Committed
<1>1. /\ pc[p] = "create" /\ pc' = [pc EXCEPT ![p] = "serialize"] /\ request' = request
      /\ Write(request[p].key, Torn)
      /\ before' = [before EXCEPT ![request[p].key] = disk[request[p].key]]
      /\ "create" \in Exclusive /\ "create" \notin Writing /\ "serialize" \in Writing
  BY DEF Create, Step, Exclusive, Writing
<1>2. request[p].key \in Keys
  BY <1>1, InProgress
<1>3. \A q \in Procs : q # p => pc[q] \notin Writing
  BY <1>1, OneWriter, PcFacts
<1>4. \A q \in Procs : pc'[q] = IF q = p THEN "serialize" ELSE pc[q]
  BY <1>1 DEF IInv, TypeOK
<1>5. \A j \in Keys : OpenForWriting(j)' <=> j = request[p].key
  BY <1>1, <1>3, <1>4 DEF OpenForWriting
<1>6. \A j \in Keys : ~OpenForWriting(j)
  BY <1>1, <1>3 DEF OpenForWriting
<1>7. \A j \in Keys : /\ disk'[j] = IF j = request[p].key THEN Torn ELSE disk[j]
                      /\ before'[j] = IF j = request[p].key THEN disk[j] ELSE before[j]
  BY <1>1 DEF IInv, TypeOK, Write
<1> QED
  BY <1>2, <1>5, <1>6, <1>7 DEF Committed

-----------------------------------------------------------------------------
(* The refinement: a call and a return are those of the abstract store, and *)
(* the step that takes effect is Read, Close, Cleanup, Delete or a failure. *)

LEMMA FailureRefines ==
  ASSUME IInv, NEW p \in Procs, CancelWait(p) \/ ReadThrows(p) \/ CreateThrows(p)
  PROVE  KV!Effect(p) /\ \A k \in Keys : OpenForWriting(k)' <=> OpenForWriting(k)
<1>1. /\ UNCHANGED <<disk, before, request>> /\ pc[p] \notin {"idle", "done"}
      /\ pc[p] \notin Writing /\ "done" \notin Writing
      /\ pc' = [pc EXCEPT ![p] = "done"] /\ result' = [result EXCEPT ![p] = Error]
  BY DEF CancelWait, ReadThrows, CreateThrows, Finish, Step, Writing
<1>2. request[p].kind # "none" /\ result[p] = None
  BY <1>1, InProgress
<1>3. \A k \in Keys : OpenForWriting(k)' <=> OpenForWriting(k)
  BY <1>1, SameWriters
<1>4. Committed' = Committed
  BY <1>1, <1>3, SameCommitted
<1> QED
  BY <1>1, <1>2, <1>3, <1>4 DEF KV!Effect

LEMMA ReadRefines ==
  ASSUME IInv, NEW p \in Procs, Read(p)
  PROVE  KV!Effect(p) /\ \A k \in Keys : OpenForWriting(k)' <=> OpenForWriting(k)
<1>1. /\ UNCHANGED <<disk, before, request>>
      /\ pc[p] = "reading" /\ pc[p] \notin Writing /\ "done" \notin Writing
      /\ pc' = [pc EXCEPT ![p] = "done"] /\ pc[p] \in Shared
  BY DEF Read, Finish, Step, Writing, Shared
<1>2. /\ request[p].kind \in {"get", "exists"} /\ request[p].key \in Keys
      /\ result[p] = None
  BY <1>1, InProgress
<1>3. \A k \in Keys : OpenForWriting(k)' <=> OpenForWriting(k)
  BY <1>1, SameWriters
<1>4. Committed' = Committed
  BY <1>1, <1>3, SameCommitted
<1>5. Committed[request[p].key] = disk[request[p].key]
  BY <1>1, <1>2, NoWriter DEF Committed
<1>6. CASE request[p].kind = "get"
  BY <1>1, <1>2, <1>3, <1>4, <1>5, <1>6 DEF KV!Effect, Read, Finish
<1>7. CASE request[p].kind = "exists"
  BY <1>1, <1>2, <1>3, <1>4, <1>5, <1>7 DEF KV!Effect, Read, Finish
<1> QED
  BY <1>2, <1>6, <1>7

LEMMA WriteRefines ==
  ASSUME IInv, NEW p \in Procs, Close(p) \/ Cleanup(p) \/ Delete(p)
  PROVE  /\ KV!Effect(p)
         /\ \A k \in Keys : ~OpenForWriting(k)'
         /\ \A k \in Keys : disk'[k] = Torn => disk[k] = Torn /\ k # request[p].key
<1> DEFINE k == request[p].key
<1>1. pc[p] \in Exclusive /\ pc[p] \notin {"idle", "done"} /\ request' = request
  BY DEF Close, Cleanup, Delete, Finish, Step, Exclusive, Writing
<1>2. k \in Keys /\ request[p].kind \in {"put", "remove"} /\ result[p] = None
  BY <1>1, InProgress DEF Exclusive
<1>3. ASSUME NEW v \in Values \cup {Absent}, NEW from \in Exclusive, NEW r,
             Finish(p, from, r), Write(k, v)
      PROVE  /\ \A j \in Keys : ~OpenForWriting(j)'
             /\ Committed' = [Committed EXCEPT ![k] = v]
             /\ result' = [result EXCEPT ![p] = r]
             /\ \A j \in Keys : disk'[j] = Torn => disk[j] = Torn /\ j # request[p].key
  <2>1. \A j \in Keys : disk'[j] = IF j = k THEN v ELSE disk[j]
    BY <1>3 DEF IInv, TypeOK, Write
  <2>2. /\ \A j \in Keys : ~OpenForWriting(j)'
        /\ Committed' = [Committed EXCEPT ![k] = v]
    BY <1>1, <1>2, <1>3, WriterDone
  <2>3. v # Torn
    BY ConstantsAssumption
  <2> QED
    BY <1>3, <2>1, <2>2, <2>3 DEF Finish
<1> HIDE DEF k
<1>4. CASE Close(p)
  <2>1. request[p].kind = "put" /\ request[p].value \in Values
    BY <1>1, <1>4, InProgress DEF Close, Finish, Step, Writing
  <2>2. "closing" \in Exclusive
    BY DEF Exclusive, Writing
  <2>3. Finish(p, "closing", Ok) /\ Write(k, request[p].value)
    BY <1>4 DEF Close, ValueOf, k
  <2>4. /\ \A j \in Keys : ~OpenForWriting(j)'
        /\ Committed' = [Committed EXCEPT ![k] = request[p].value]
        /\ result' = [result EXCEPT ![p] = Ok]
        /\ \A j \in Keys : disk'[j] = Torn => disk[j] = Torn /\ j # request[p].key
    BY <1>3, <2>1, <2>2, <2>3
  <2> QED
    BY <1>1, <1>2, <2>1, <2>4 DEF KV!Effect, k
<1>5. CASE Cleanup(p)
  <2>1. request[p].kind = "put"
    BY <1>1, <1>5, InProgress DEF Cleanup, Finish, Step, Writing
  <2>2. "cleanup" \in Exclusive
    BY DEF Exclusive, Writing
  <2>3. Finish(p, "cleanup", Error) /\ Write(k, Absent)
    BY <1>5 DEF Cleanup, k
  <2>4. /\ \A j \in Keys : ~OpenForWriting(j)'
        /\ Committed' = [Committed EXCEPT ![k] = Absent]
        /\ result' = [result EXCEPT ![p] = Error]
        /\ \A j \in Keys : disk'[j] = Torn => disk[j] = Torn /\ j # request[p].key
    BY <1>3, <2>2, <2>3
  <2> QED
    BY <1>1, <1>2, <2>1, <2>4 DEF KV!Effect, k
<1>6. CASE Delete(p)
  <2>1. request[p].kind = "remove"
    BY <1>1, <1>6, InProgress DEF Delete, Finish, Step, Writing
  <2>2. "delete" \in Exclusive
    BY DEF Exclusive, Writing
  <2>3. Finish(p, "delete", Ok) /\ Write(k, Absent)
    BY <1>6 DEF Delete, k
  <2>4. /\ \A j \in Keys : ~OpenForWriting(j)'
        /\ Committed' = [Committed EXCEPT ![k] = Absent]
        /\ result' = [result EXCEPT ![p] = Ok]
        /\ \A j \in Keys : disk'[j] = Torn => disk[j] = Torn /\ j # request[p].key
    BY <1>3, <2>2, <2>3
  <2> QED
    BY <1>1, <1>2, <2>1, <2>4 DEF KV!Effect, k
<1> QED
  BY <1>4, <1>5, <1>6

LEMMA ProcRefines ==
  ASSUME NoFaults, IInv, NEW p \in Procs, Locked(p) \/ CancelWait(p)
  PROVE  KV!Effect(p) \/ UNCHANGED KV!vars
<1>1. CASE Create(p)
  BY <1>1, WriterOpens DEF Create, KV!vars
<1>2. CASE Serialize(p)
  <2>1. /\ UNCHANGED <<disk, before, request, result>> /\ pc[p] \in Writing
        /\ \E to \in Writing : pc' = [pc EXCEPT ![p] = to]
    BY <1>2 DEF Serialize, Step, Writing
  <2>2. Committed' = Committed
    BY <2>1, SameWriters, SameCommitted
  <2> QED
    BY <2>1, <2>2 DEF KV!vars
<1> QED
  BY <1>1, <1>2, FailureRefines, ReadRefines, WriteRefines
  DEF NoFaults, Locked, CloseThrows, CleanupThrows, DeleteThrows

LEMMA CallRefines ==
  ASSUME IInv, NEW p \in Procs, NEW r \in Requests, Call(p, r)
  PROVE  KV!Call(p, r) /\ Committed' = Committed
<1>1. /\ pc[p] = "idle" /\ request[p] = KV!NoRequest
      /\ pc' = [pc EXCEPT ![p] = "waiting"] /\ request' = [request EXCEPT ![p] = r]
      /\ UNCHANGED <<disk, before, result>>
  BY DEF Call, Step, IInv, CallInv, CallOK
<1>2. /\ \A q \in Procs : pc'[q] = IF q = p THEN "waiting" ELSE pc[q]
      /\ \A q \in Procs : request'[q] = IF q = p THEN r ELSE request[q]
  BY <1>1 DEF IInv, TypeOK
<1>3. \A k \in Keys : OpenForWriting(k)' <=> OpenForWriting(k)
  BY <1>1, <1>2 DEF OpenForWriting, Writing
<1>4. Committed' = Committed
  BY <1>1, <1>3, SameCommitted
<1> QED
  BY <1>1, <1>4, RequestFacts DEF KV!Call

LEMMA ReturnRefines ==
  ASSUME IInv, NEW p \in Procs, Return(p)
  PROVE  /\ KV!Return(p)
         /\ \A k \in Keys : OpenForWriting(k)' <=> OpenForWriting(k)
<1>1. /\ pc[p] = "done" /\ result[p] # None
      /\ pc' = [pc EXCEPT ![p] = "idle"]
      /\ request' = [request EXCEPT ![p] = KV!NoRequest]
      /\ result' = [result EXCEPT ![p] = None]
      /\ UNCHANGED <<disk, before>>
  BY DEF Return, Step, IInv, CallInv, CallOK, Started
<1>2. /\ \A q \in Procs : pc'[q] = IF q = p THEN "idle" ELSE pc[q]
      /\ \A q \in Procs : q # p => request'[q] = request[q]
  BY <1>1 DEF IInv, TypeOK
<1>3. \A k \in Keys : OpenForWriting(k)' <=> OpenForWriting(k)
  BY <1>1, <1>2 DEF OpenForWriting, Writing
<1>4. Committed' = Committed
  BY <1>1, <1>3, SameCommitted
<1> QED
  BY <1>1, <1>3, <1>4 DEF KV!Return

(* ReaderLock and WriterLock.                                              *)
LEMMA LockOpensNothing ==
  ASSUME IInv, NEW p \in Procs, ReaderLock(p) \/ WriterLock(p)
  PROVE  /\ \A k \in Keys : OpenForWriting(k)' <=> OpenForWriting(k)
         /\ UNCHANGED KV!vars /\ disk' = disk
<1>1. /\ UNCHANGED <<disk, before, request, result>>
      /\ pc[p] = "waiting"
      /\ \E to \in {"reading", "create", "delete"} : pc' = [pc EXCEPT ![p] = to]
  BY DEF ReaderLock, WriterLock, Step
<1>2. \A k \in Keys : OpenForWriting(k)' <=> OpenForWriting(k)
  BY <1>1, SameWriters DEF Writing
<1>3. Committed' = Committed
  BY <1>1, <1>2, SameCommitted
<1> QED
  BY <1>1, <1>2, <1>3 DEF KV!vars

(* Every operation of the file store takes effect at one instant: it       *)
(* implements the abstract store, with the files that nobody writes, and   *)
(* the former content of the others, as its map.                           *)
THEOREM OperationsAtomic ==
  ASSUME NoFaults
  PROVE  Spec => Atomic
<1>1. Init => KV!Init
  BY DEF Init, KV!Init, Committed, OpenForWriting, Writing
<1>2. IInv /\ [Next]_vars => [KV!Next]_(KV!vars)
  <2> SUFFICES ASSUME IInv, [Next]_vars PROVE KV!Next \/ UNCHANGED KV!vars
    OBVIOUS
  <2>1. CASE UNCHANGED vars
    BY <2>1 DEF vars, KV!vars, Committed, OpenForWriting
  <2>2. ASSUME NEW p \in Procs, NEW r \in Requests, Call(p, r)
        PROVE  KV!Next
    BY <2>2, CallRefines, RequestFacts DEF KV!Next
  <2>3. ASSUME NEW p \in Procs, ProcStep(p)
        PROVE  KV!Next \/ UNCHANGED KV!vars
    BY <2>3, ProcRefines, LockOpensNothing, ReturnRefines DEF ProcStep, KV!Next
  <2>4. ASSUME NEW s \in Scanners, ScanStep(s)
        PROVE  UNCHANGED KV!vars
    BY <2>4, ScanStepInv DEF KV!vars, Committed, OpenForWriting
  <2> QED
    BY <2>1, <2>2, <2>3, <2>4 DEF Next, Crash, NoFaults
<1> QED
  BY <1>1, <1>2, Inductive, PTL DEF Atomic, KV!Spec, Spec

(* No file is left partly written.                                         *)
THEOREM NoFileTorn ==
  ASSUME NoFaults
  PROVE  Spec => []NoTornFile
<1>1. Init => NoTornFile
  BY ConstantsAssumption DEF Init, NoTornFile
<1>2. IInv /\ NoTornFile /\ [Next]_vars => NoTornFile'
  <2> SUFFICES ASSUME IInv, NoTornFile, [Next]_vars, NEW k \in Keys, disk'[k] = Torn
               PROVE  OpenForWriting(k)'
    BY DEF NoTornFile
  <2>1. CASE disk' = disk /\ (OpenForWriting(k)' <=> OpenForWriting(k))
    BY <2>1 DEF NoTornFile
  <2>2. CASE UNCHANGED vars \/ \E s \in Scanners : ScanStep(s)
    BY <2>1, <2>2, ScanStepInv DEF vars, OpenForWriting
  <2>3. ASSUME NEW p \in Procs, NEW r \in Requests, Call(p, r)
        PROVE  OpenForWriting(k)'
    <3>1. /\ \A q \in Procs : pc'[q] = IF q = p THEN "waiting" ELSE pc[q]
          /\ \A q \in Procs : request'[q] = IF q = p THEN r ELSE request[q]
          /\ pc[p] = "idle" /\ disk' = disk
      BY <2>3 DEF Call, Step, IInv, TypeOK
    <3> QED
      BY <2>1, <3>1 DEF OpenForWriting, Writing
  <2>4. ASSUME NEW p \in Procs, ProcStep(p), ~Locked(p)
        PROVE  OpenForWriting(k)'
    BY <2>1, <2>4, LockOpensNothing, FailureRefines, ReturnRefines
    DEF ProcStep, CancelWait, Return
  <2>5. ASSUME NEW p \in Procs, Create(p)
        PROVE  OpenForWriting(k)'
    <3>1. k # request[p].key => disk'[k] = disk[k] /\ ~OpenForWriting(k)
      <4>1. pc[p] \in Exclusive /\ pc[p] \notin Writing
        BY <2>5 DEF Create, Step, Exclusive, Writing
      <4>2. k # request[p].key => disk'[k] = disk[k]
        BY <2>5 DEF Create, Write, IInv, TypeOK
      <4> QED
        BY <4>1, <4>2, OneWriter
    <3> QED
      BY <2>5, <3>1, WriterOpens DEF NoTornFile
  <2>6. ASSUME NEW p \in Procs, Serialize(p)
        PROVE  OpenForWriting(k)'
    <3>1. /\ disk' = disk /\ request' = request /\ pc[p] \in Writing
          /\ \E to \in Writing : pc' = [pc EXCEPT ![p] = to]
      BY <2>6 DEF Serialize, Step, Writing
    <3> QED
      BY <2>1, <3>1, SameWriters
  <2>7. ASSUME NEW p \in Procs, Read(p) \/ ReadThrows(p) \/ CreateThrows(p)
        PROVE  OpenForWriting(k)'
    BY <2>1, <2>7, ReadRefines, FailureRefines DEF Read, ReadThrows, CreateThrows
  <2>8. ASSUME NEW p \in Procs, Close(p) \/ Cleanup(p) \/ Delete(p)
        PROVE  FALSE
    <3>1. disk[k] = Torn /\ k # request[p].key
      BY <2>8, WriteRefines
    <3>2. OpenForWriting(k)
      BY <3>1 DEF NoTornFile
    <3>3. pc[p] \in Exclusive
      BY <2>8 DEF Close, Cleanup, Delete, Finish, Step, Exclusive, Writing
    <3> QED
      BY <3>1, <3>2, <3>3, OneWriter
  <2> QED
    BY <2>2, <2>3, <2>4, <2>5, <2>6, <2>7, <2>8
    DEF Next, ProcStep, Locked, Crash, NoFaults, CloseThrows, CleanupThrows, DeleteThrows
<1> QED
  BY <1>1, <1>2, Inductive, PTL DEF Spec
=============================================================================
