------------------------- MODULE RepositoryProofs --------------------------
(***************************************************************************)
(* The repository for any DAG of blocks and any callers: it stays well     *)
(* formed, its collector spares what is pinned and collects what is not,   *)
(* and as long as announcements succeed a Put continues those who wait for *)
(* its block.                                                              *)
(* With a single caller, what was pinned stays pinned and stored.          *)
(***************************************************************************)
EXTENDS Repository, TLAPS

AnnouncementsSucceed == ~ProvideFails

(* One caller, and no blocks sent by peers.                                *)
Alone == "receive" \notin Kinds /\ \E me : Procs = {me}

-----------------------------------------------------------------------------
(* The inductive invariant.                                                *)

(* A get returns to one of its callers, and outside the loops over content *)
(* ids an operation has one in hand.                                       *)
LoopPcs == {"idle", "pin", "unpin", "gc"}
RecordOK(o) == /\ o.then \in {"idle", "pinned", "push", "pushUnpin"}
               /\ o.pc \notin LoopPcs => o.cid \in Cids
Control == \A p \in Procs : RecordOK(op[p])

(* A collector about to remove its block found it without a pin.           *)
Doomed(o) == o.kind = "gc" /\ o.pc \in {"rmExists", "rmBlock"}
Collector == \A p \in Procs : Doomed(op[p]) => op[p].cid \notin op[p].since

(* The consumers on the want list wait, each for one block.                *)
WaitPcs == {"providers", "await"}
WantList ==
  \A p \in Procs, c \in Cids :
    p \in wants[c] => got[p] = "pending" /\ op[p].pc \in WaitPcs /\ op[p].cid = c

(* Who is owed a block is on its want list, and a Put is on its way.       *)
OwedListed == \A d \in owed : d[1] \in wants[d[2]]
PutOf(o, c) == o.pc \in {"provide", "found"} /\ o.cid = c
Owed == ProvideFails \/ EarlyWaiterContinued

IInv == /\ TypeOK /\ Control /\ Collector
        /\ WantList /\ OwedListed /\ Owed

(* A single caller: what a recursive pin has done so far is pinned and     *)
(* stored, its block in hand is pinned, and stored once it was fetched;    *)
(* blocks and pins are only taken away by operations that give them up.    *)
Building(o) == o.pc \in {"pin", "pinned", "push"} \/ o.then \in {"pinned", "push"}
Putting(o) == o.pc \in {"exists", "store", "provide", "found"}
Unpinning(o) == o.pc \in {"unpin", "unpinned", "pushUnpin"} \/ o.then = "pushUnpin"
Removing(o) == o.pc \in {"rmExists", "rmBlock", "rmPin"}

FetchPcs == {"tryGet", "want", "providers", "await", "pinned", "push", "pushUnpin"}

Stage(o, b, s) ==
  /\ Building(o) => o.dones \subseteq b \cap s
  /\ o.then \in {"pinned", "push"} => o.cid \in s
  /\ o.then # "idle" => o.pc \in FetchPcs
  /\ o.pc \in {"pinned", "push"} => o.cid \in b \cap s
  /\ Putting(o) \/ Unpinning(o) => o.dones = {} /\ o.kind \in {"put", "pinRemove"}
  /\ Removing(o) => o.kind \in {"remove", "gc"}
  /\ o.pc = "gc" => o.kind = "gc"
  /\ Removing(o) /\ o.kind = "gc" => o.cid \notin s
  /\ o.pc # "stopQuery"

SerialInv ==
  /\ kept \subseteq blocks \cap pins
  /\ \A p \in Procs : Stage(op[p], blocks, pins) /\ got[p] # "found"

-----------------------------------------------------------------------------
(* A step of one operation.                                                *)

(* n is o after blocks and pins have changed, to the pins s.               *)
Agree(n, o, s) ==
  /\ n.kind = o.kind /\ n.pc = o.pc /\ n.cid = o.cid /\ n.then = o.then
  /\ n.dones = o.dones /\ n.since = o.since \cap s

LEMMA OpStep ==
  ASSUME NEW p \in Procs, NEW r \in OpRecord, op \in [Procs -> OpRecord],
         OpAfter(p, r), blocks' \subseteq Cids, pins' \subseteq Cids
  PROVE  /\ op' \in [Procs -> OpRecord]
         /\ Agree(op'[p], r, pins')
         /\ \A q \in Procs : q # p => Agree(op'[q], op[q], pins')
<1> DEFINE After(o) == [o EXCEPT !.since = @ \cap pins', !.waste = (@ \cap blocks') \ pins']
<1>1. ASSUME NEW o \in OpRecord
      PROVE  After(o) \in OpRecord /\ Agree(After(o), o, pins')
  BY <1>1 DEF OpRecord, Agree
<1>2. op' = [q \in Procs |-> After(IF q = p THEN r ELSE op[q])]
  BY DEF OpAfter
<1> HIDE DEF After
<1> QED
  BY <1>1, <1>2

(* p's record becomes r, and the want list stays as it is.                 *)
LEMMA QuietStep ==
  ASSUME IInv, NEW p \in Procs, NEW r \in OpRecord, OpAfter(p, r), RecordOK(r),
         blocks' \subseteq Cids, pins' \subseteq Cids, kept' \subseteq Cids, WantsUnchanged,
         Doomed(r) => r.cid \notin r.since \cap pins',
         op[p].pc \in WaitPcs => r.pc \in WaitPcs /\ r.cid = op[p].cid,
         op[p].pc \in {"provide", "found"} => ProvideFails \/ PutOf(r, op[p].cid)
  PROVE  IInv'
<1>1. /\ op' \in [Procs -> OpRecord]
      /\ Agree(op'[p], r, pins')
      /\ \A q \in Procs : q # p => Agree(op'[q], op[q], pins')
  BY OpStep DEF IInv, TypeOK
<1>2. TypeOK'
  BY <1>1 DEF IInv, TypeOK, WantsUnchanged
<1>3. Control'
  BY <1>1 DEF IInv, Control, RecordOK, Agree
<1>4. Collector'
  BY <1>1 DEF IInv, Collector, Doomed, Agree
<1>5. WantList'
  BY <1>1 DEF IInv, WantList, Agree, WantsUnchanged
<1>6. OwedListed'
  BY DEF IInv, OwedListed, WantsUnchanged
<1>7. Owed'
  BY <1>1 DEF IInv, Owed, EarlyWaiterContinued, PutOf, Cid, Agree, WantsUnchanged
<1> QED
  BY <1>2, <1>3, <1>4, <1>5, <1>6, <1>7 DEF IInv

(* The fields of the record of p that its own steps change.                *)
LEMMA Fields ==
  ASSUME IInv, NEW p \in Procs
  PROVE  /\ op[p] \in OpRecord /\ RecordOK(op[p]) /\ op \in [Procs -> OpRecord]
         /\ blocks \subseteq Cids /\ pins \subseteq Cids /\ kept \subseteq Cids
         /\ op[p].todo \subseteq Cids /\ op[p].dones \subseteq Cids
         /\ op[p].pc \in Pcs
         /\ op[p].pc \notin LoopPcs => Cid(p) \in Cids /\ Links[Cid(p)] \subseteq Cids
         /\ Doomed(op[p]) => op[p].cid \notin op[p].since
BY ConstantsAssumption DEF IInv, TypeOK, Control, RecordOK, Collector, Cid, OpRecord

(* Idle and the calls are records.                                         *)
LEMMA IdleRecord ==
  /\ Idle \in OpRecord /\ RecordOK(Idle) /\ ~Doomed(Idle)
  /\ Idle.pc = "idle" /\ Idle.dones = {} /\ Idle.then = "idle" /\ Idle.kind = "none"
  /\ Idle.since = {}
BY DEF Idle, OpRecord, Pcs, RecordOK, LoopPcs, Doomed

LEMMA FinishStep ==
  ASSUME IInv, NEW p \in Procs, Finish(p),
         blocks' \subseteq Cids, pins' \subseteq Cids, kept' \subseteq Cids, WantsUnchanged,
         op[p].pc \notin WaitPcs, op[p].pc \in {"provide", "found"} => ProvideFails
  PROVE  IInv'
BY QuietStep, IdleRecord DEF Finish

(* p goes on at another point of the code, with the block it has in hand.  *)
LEMMA GotoStep ==
  ASSUME IInv, NEW p \in Procs, NEW pc \in Pcs, Goto(p, pc),
         blocks' \subseteq Cids, pins' \subseteq Cids, kept' \subseteq Cids, WantsUnchanged,
         op[p].pc \notin LoopPcs,
         op[p].kind = "gc" /\ pc \in {"rmExists", "rmBlock"} => Doomed(op[p]),
         op[p].pc \in WaitPcs => pc \in WaitPcs,
         op[p].pc \in {"provide", "found"} => ProvideFails \/ pc \in {"provide", "found"}
  PROVE  IInv'
<1> DEFINE r == [op[p] EXCEPT !.pc = pc]
<1>1. /\ r \in OpRecord /\ r.pc = pc /\ r.cid = op[p].cid /\ r.then = op[p].then
      /\ r.kind = op[p].kind /\ r.since = op[p].since
  BY Fields DEF OpRecord
<1>2. OpAfter(p, r)
  BY DEF Goto
<1> HIDE DEF r
<1>3. /\ RecordOK(r)
      /\ Doomed(r) => r.cid \notin r.since \cap pins'
      /\ op[p].pc \in {"provide", "found"} => ProvideFails \/ PutOf(r, op[p].cid)
  BY <1>1, Fields DEF RecordOK, Doomed, PutOf
<1> QED
  BY <1>1, <1>2, <1>3, QuietStep

(* Back to the head of a loop: r is Loop(p, pc) but for its todo and dones. *)
LEMMA LoopStep ==
  ASSUME IInv, NEW p \in Procs, NEW r \in OpRecord, OpAfter(p, r),
         r.pc \in LoopPcs, r.then = "idle",
         blocks' \subseteq Cids, pins' \subseteq Cids, kept' \subseteq Cids, WantsUnchanged,
         op[p].pc \notin WaitPcs \cup {"provide", "found"}
  PROVE  IInv'
BY QuietStep DEF RecordOK, Doomed, LoopPcs

LEMMA LoopRecord ==
  ASSUME IInv, NEW p \in Procs, NEW pc \in Pcs
  PROVE  /\ Loop(p, pc) \in OpRecord
         /\ Loop(p, pc).pc = pc /\ Loop(p, pc).then = "idle" /\ Loop(p, pc).cid = None
         /\ Loop(p, pc).kind = op[p].kind /\ Loop(p, pc).since = op[p].since
         /\ Loop(p, pc).dones = op[p].dones /\ Loop(p, pc).todo = op[p].todo
<1>1. /\ op[p] \in OpRecord /\ "idle" \in Pcs
      /\ Loop(p, pc) = [op[p] EXCEPT !.pc = pc, !.cid = None, !.then = "idle"]
  BY Fields DEF Loop, Pcs
<1> QED
  BY <1>1 DEF OpRecord

-----------------------------------------------------------------------------
(* BlockApi.PutAsync                                                       *)

LEMMA PutSteps ==
  ASSUME IInv, NEW p \in Procs, Exists(p) \/ Provide(p)
  PROVE  IInv'
<1> USE DEF Pcs, LoopPcs, WaitPcs, StoresUnchanged, At
<1>1. CASE Exists(p)
  BY <1>1, GotoStep, Fields DEF Exists, Doomed
<1>2. CASE Provide(p)
  BY <1>2, GotoStep, FinishStep, Fields DEF Provide
<1> QED
  BY <1>1, <1>2

LEMMA StoreStep ==
  ASSUME IInv, NEW p \in Procs, Store(p)
  PROVE  IInv'
<1> DEFINE r == [op[p] EXCEPT !.pc = "provide"]
<1>1. /\ r \in OpRecord /\ r.pc = "provide" /\ r.cid = op[p].cid /\ r.then = op[p].then
      /\ OpAfter(p, r)
  BY Fields DEF OpRecord, Pcs, Store, Goto
<1> HIDE DEF r
<1>2. /\ op[p].pc = "store" /\ op[p].cid \in Cids /\ Cid(p) = op[p].cid
      /\ blocks' = blocks \cup {Cid(p)} /\ owed' = owed \cup (wants[Cid(p)] \X {Cid(p)})
      /\ pins' = pins /\ kept' = kept /\ wants' = wants /\ got' = got
  BY Fields DEF Store, At, LoopPcs, Cid
<1>3. /\ op' \in [Procs -> OpRecord]
      /\ Agree(op'[p], r, pins')
      /\ \A q \in Procs : q # p => Agree(op'[q], op[q], pins')
  BY <1>1, <1>2, OpStep DEF IInv, TypeOK
<1>4. TypeOK'
  BY <1>2, <1>3 DEF IInv, TypeOK
<1>5. Control'
  BY <1>1, <1>2, <1>3, Fields DEF IInv, Control, RecordOK, Agree, LoopPcs
<1>6. Collector'
  BY <1>1, <1>3 DEF IInv, Collector, Doomed, Agree
<1>7. WantList'
  BY <1>2, <1>3 DEF IInv, WantList, Agree, WaitPcs
<1>8. \A d \in owed' : d \in owed \/ (d[1] \in wants[Cid(p)] /\ d[2] = Cid(p))
  BY <1>2
<1>9. OwedListed'
  BY <1>2, <1>8 DEF IInv, OwedListed
<1>10. Owed'
  BY <1>1, <1>2, <1>3, <1>8 DEF IInv, Owed, EarlyWaiterContinued, Cid, Agree
<1> QED
  BY <1>4, <1>5, <1>6, <1>7, <1>9, <1>10 DEF IInv

(* The consumers of c are completed: nobody waits on the list of c, and    *)
(* the other lists are as they were.                                       *)
LEMMA SettleFacts ==
  ASSUME IInv, NEW c \in Cids, NEW s \in {"found", "cancelled", "stopped"}, Settle(c, s)
  PROVE  /\ wants' \in [Cids -> SUBSET Procs]
         /\ got' \in [Procs -> {"none", "pending", "found", "cancelled", "stopped"}]
         /\ owed' \subseteq owed
         /\ \A e \in Cids : wants'[e] = IF e = c THEN {} ELSE wants[e]
         /\ \A q \in Procs : q \notin wants[c] => got'[q] = got[q]
         /\ \A q \in Procs : q \in wants[c] => got'[q] = s
         /\ \A d \in owed' : d[1] \in wants'[d[2]] /\ d[2] # c
<1>1. /\ wants' = [wants EXCEPT ![c] = {}]
      /\ got' = [q \in Procs |-> IF q \in wants[c] THEN s ELSE got[q]]
      /\ owed' = {d \in owed : d[2] # c \/ d[1] \notin wants[c]}
      /\ wants \in [Cids -> SUBSET Procs]
      /\ got \in [Procs -> {"none", "pending", "found", "cancelled", "stopped"}]
      /\ owed \subseteq Procs \X Cids
  BY DEF Settle, IInv, TypeOK
<1>2. \A d \in owed' : d \in owed /\ d[1] \in wants[d[2]] /\ d[2] \in Cids /\ d[2] # c
  BY <1>1 DEF IInv, OwedListed
<1> QED
  BY <1>1, <1>2

(* The same for the invariant; p, whose step it is, leaves a Put of c or   *)
(* does not put.                                                           *)
LEMMA SettleStep ==
  ASSUME IInv, NEW c \in Cids, NEW s \in {"found", "cancelled", "stopped"}, Settle(c, s),
         NEW p \in Procs, NEW r \in OpRecord, OpAfter(p, r) \/ (op' = op /\ r = op[p]),
         RecordOK(r), ~Doomed(r) \/ r = op[p], StoresUnchanged, op[p].pc \in WaitPcs => r = op[p],
         op[p].pc \in {"provide", "found"} => op[p].pc = "found" /\ op[p].cid = c
  PROVE  IInv'
<1>1. /\ op \in [Procs -> OpRecord]
      /\ op' \in [Procs -> OpRecord]
      /\ op' # op => Agree(op'[p], r, pins')
      /\ op' # op => \A q \in Procs : q # p => Agree(op'[q], op[q], pins')
      /\ op' = op => r = op[p] \/ Agree(op'[p], r, pins')
  BY OpStep DEF IInv, TypeOK, StoresUnchanged
<1>2. TypeOK'
  BY <1>1, SettleFacts DEF IInv, TypeOK, StoresUnchanged
<1>3. Control'
  BY <1>1 DEF IInv, Control, RecordOK, Agree
<1>4. Collector'
  BY <1>1 DEF IInv, Collector, Doomed, Agree
<1>5. WantList'
  BY <1>1, SettleFacts DEF IInv, WantList, Agree
<1>6. OwedListed'
  BY SettleFacts DEF OwedListed
<1>7. Owed'
  BY <1>1, SettleFacts DEF IInv, Owed, EarlyWaiterContinued, Cid, Agree
<1> QED
  BY <1>2, <1>3, <1>4, <1>5, <1>6, <1>7 DEF IInv

LEMMA FoundStep ==
  ASSUME IInv, NEW p \in Procs, Found(p)
  PROVE  IInv'
<1> DEFINE r == [op[p] EXCEPT !.pc = IF op[p].pin THEN "pin" ELSE "unpin",
                              !.pin = FALSE, !.cid = None, !.todo = {Cid(p)}]
<1>1. op[p].pc = "found" /\ op[p].cid \in Cids /\ Cid(p) = op[p].cid
  BY Fields DEF Found, At, LoopPcs, Cid
<1>2. /\ r \in OpRecord /\ r.pc \in {"pin", "unpin"} /\ r.then = op[p].then
  <2>1. /\ op[p] \in OpRecord /\ {Cid(p)} \in SUBSET Cids
        /\ (IF op[p].pin THEN "pin" ELSE "unpin") \in Pcs \cap {"pin", "unpin"}
    BY <1>1, Fields DEF Pcs
  <2> QED
    BY <2>1 DEF OpRecord
<1>3. OpAfter(p, r) /\ Settle(op[p].cid, "found") /\ StoresUnchanged
  BY <1>1 DEF Found
<1> HIDE DEF r
<1>4. RecordOK(r) /\ ~Doomed(r)
  BY <1>2, Fields DEF RecordOK, LoopPcs, Doomed
<1> QED
  BY <1>1, <1>2, <1>3, <1>4, SettleStep DEF WaitPcs

-----------------------------------------------------------------------------
(* PinApi                                                                  *)

LEMMA FetchRecord ==
  ASSUME NEW p \in Procs, op[p] \in OpRecord, NEW c \in Cids
  PROVE  /\ Fetch(p, c) \in OpRecord
         /\ Fetch(p, c).pc = "tryGet" /\ Fetch(p, c).then = "pinned" /\ Fetch(p, c).cid = c
         /\ Fetch(p, c).kind = op[p].kind /\ Fetch(p, c).dones = op[p].dones
<1>1. op[p].todo \ {c} \in SUBSET Cids /\ {"tryGet", "pinned"} \subseteq Pcs
  BY DEF OpRecord, Pcs
<1> QED
  BY <1>1 DEF Fetch, OpRecord

LEMMA PinStep ==
  ASSUME IInv, NEW p \in Procs, Pin(p)
  PROVE  IInv'
<1>1. PICK c \in op[p].todo : /\ pins' = pins \cup {c} /\ UNCHANGED <<blocks, kept>>
                              /\ OpAfter(p, Fetch(p, c))
  BY DEF Pin
<1> DEFINE r == Fetch(p, c)
<1>2. op[p].pc = "pin" /\ c \in Cids
  BY Fields DEF Pin, At
<1>3. r \in OpRecord /\ r.pc = "tryGet" /\ r.then = "pinned" /\ r.cid = c
  BY <1>2, Fields, FetchRecord
<1> HIDE DEF r
<1>4. RecordOK(r) /\ ~Doomed(r)
  BY <1>2, <1>3 DEF RecordOK, Doomed
<1> QED
  <2>1. /\ pins' \subseteq Cids /\ blocks' \subseteq Cids /\ kept' \subseteq Cids
        /\ OpAfter(p, r) /\ WantsUnchanged
        /\ op[p].pc \notin WaitPcs \cup {"provide", "found"}
    BY <1>1, <1>2, Fields DEF Pin, WaitPcs, r
  <2> QED
    BY <1>3, <1>4, <2>1, QuietStep

LEMMA UnpinStep ==
  ASSUME IInv, NEW p \in Procs, Unpin(p)
  PROVE  IInv'
<1>1. PICK c \in op[p].todo :
        /\ pins' = pins \ {c} /\ kept' = GivenUp(p, c) /\ blocks' = blocks
        /\ OpAfter(p, IF op[p].deep
                      THEN [op[p] EXCEPT !.pc = "unpinned", !.cid = c, !.todo = @ \ {c}]
                      ELSE [op[p] EXCEPT !.todo = @ \ {c}])
  BY DEF Unpin
<1> DEFINE r == IF op[p].deep
                THEN [op[p] EXCEPT !.pc = "unpinned", !.cid = c, !.todo = @ \ {c}]
                ELSE [op[p] EXCEPT !.todo = @ \ {c}]
<1>2. op[p].pc = "unpin" /\ c \in Cids
  BY Fields DEF Unpin, At
<1>3. /\ r \in OpRecord /\ r.then = op[p].then
      /\ r.pc = "unpin" \/ (r.pc = "unpinned" /\ r.cid = c)
  <2>1. op[p].todo \ {c} \in SUBSET Cids /\ "unpinned" \in Pcs /\ op[p] \in OpRecord
    BY Fields DEF Pcs
  <2> QED
    BY <1>2, <2>1 DEF OpRecord
<1>4. OpAfter(p, r)
  BY <1>1
<1> HIDE DEF r
<1>5. RecordOK(r) /\ ~Doomed(r)
  BY <1>2, <1>3, Fields DEF RecordOK, Doomed, LoopPcs
<1>6. kept' \subseteq Cids /\ pins' \subseteq Cids
  BY <1>1, Fields DEF GivenUp
<1> QED
  BY <1>1, <1>2, <1>3, <1>4, <1>5, <1>6, Fields, QuietStep DEF Unpin, WaitPcs

(* A block in hand is got once more, for its links.                        *)
LEMMA LinksRecord ==
  ASSUME NEW p \in Procs, op[p] \in OpRecord, NEW t \in {"push", "pushUnpin"},
         NEW r, r = [op[p] EXCEPT !.pc = "tryGet", !.then = t]
  PROVE  /\ r \in OpRecord /\ r.pc = "tryGet" /\ r.then = t /\ r.cid = op[p].cid
         /\ r.kind = op[p].kind /\ r.dones = op[p].dones
BY DEF OpRecord, Pcs

(* What the loops over links make of p's record.                           *)
LEMMA DoneRecord ==
  ASSUME IInv, NEW p \in Procs, Cid(p) \in Cids,
         NEW r, r = [Loop(p, "pin") EXCEPT !.dones = @ \cup {Cid(p)}]
  PROVE  /\ r \in OpRecord /\ r.pc = "pin" /\ r.pc \in LoopPcs /\ r.then = "idle"
         /\ r.dones = op[p].dones \cup {Cid(p)} /\ r.kind = op[p].kind
<1> DEFINE l == Loop(p, "pin")
<1>1. /\ l \in OpRecord /\ l.pc = "pin" /\ l.then = "idle"
      /\ l.dones = op[p].dones /\ l.kind = op[p].kind
  BY LoopRecord DEF Pcs
<1>2. r = [l EXCEPT !.dones = @ \cup {Cid(p)}]
  OBVIOUS
<1> HIDE DEF l
<1> QED
  BY <1>1, <1>2 DEF OpRecord, LoopPcs

LEMMA PushRecord ==
  ASSUME IInv, NEW p \in Procs, Cid(p) \in Cids, Links[Cid(p)] \subseteq Cids,
         NEW r, r = [Loop(p, "pin") EXCEPT !.todo = @ \cup Links[Cid(p)],
                                           !.dones = @ \cup {Cid(p)}]
  PROVE  /\ r \in OpRecord /\ r.pc = "pin" /\ r.pc \in LoopPcs /\ r.then = "idle"
         /\ r.dones = op[p].dones \cup {Cid(p)} /\ r.kind = op[p].kind
<1> DEFINE l == Loop(p, "pin")
<1>1. /\ l \in OpRecord /\ l.pc = "pin" /\ l.then = "idle"
      /\ l.dones = op[p].dones /\ l.kind = op[p].kind
  BY LoopRecord DEF Pcs
<1> DEFINE more == l.todo \cup Links[Cid(p)]
           done == l.dones \cup {Cid(p)}
<1>2. r = [l EXCEPT !.todo = more, !.dones = done]
  OBVIOUS
<1>3. more \in SUBSET Cids /\ done \in SUBSET Cids /\ done = op[p].dones \cup {Cid(p)}
  BY <1>1 DEF OpRecord
<1> HIDE DEF l, more, done
<1> QED
  BY <1>1, <1>2, <1>3 DEF OpRecord, LoopPcs

LEMMA PushUnpinRecord ==
  ASSUME IInv, NEW p \in Procs, Links[Cid(p)] \subseteq Cids,
         NEW r, r = [Loop(p, "unpin") EXCEPT !.todo = @ \cup Links[Cid(p)]]
  PROVE  /\ r \in OpRecord /\ r.pc = "unpin" /\ r.pc \in LoopPcs /\ r.then = "idle"
         /\ r.dones = op[p].dones /\ r.kind = op[p].kind
<1> DEFINE l == Loop(p, "unpin")
<1>1. /\ l \in OpRecord /\ l.pc = "unpin" /\ l.then = "idle"
      /\ l.dones = op[p].dones /\ l.kind = op[p].kind
  BY LoopRecord DEF Pcs
<1>2. r = [l EXCEPT !.todo = @ \cup Links[Cid(p)]]
  OBVIOUS
<1> HIDE DEF l
<1> QED
  BY <1>1, <1>2 DEF OpRecord, LoopPcs

(* On with the links of a block, or back to the loop.                      *)
LEMMA LinkSteps ==
  ASSUME IInv, NEW p \in Procs,
         Pinned(p) \/ PushLinks(p) \/ Unpinned(p) \/ PushUnpinLinks(p)
  PROVE  IInv'
<1>1. /\ op[p].pc \in {"pinned", "push", "unpinned", "pushUnpin"}
      /\ op[p].cid \in Cids /\ Cid(p) = op[p].cid /\ Links[Cid(p)] \subseteq Cids
      /\ blocks' = blocks /\ pins' = pins /\ kept' = kept /\ WantsUnchanged
      /\ op[p] \in OpRecord
  BY Fields DEF Pinned, PushLinks, Unpinned, PushUnpinLinks, At, LoopPcs, Cid, StoresUnchanged
<1>2. CASE \E t \in {"push", "pushUnpin"} :
             OpAfter(p, [op[p] EXCEPT !.pc = "tryGet", !.then = t])
  <2>1. PICK t \in {"push", "pushUnpin"} :
          OpAfter(p, [op[p] EXCEPT !.pc = "tryGet", !.then = t])
    BY <1>2
  <2> DEFINE r == [op[p] EXCEPT !.pc = "tryGet", !.then = t]
  <2>2. r \in OpRecord /\ r.pc = "tryGet" /\ r.then = t /\ r.cid = op[p].cid
    BY <1>1 DEF OpRecord, Pcs
  <2>3. OpAfter(p, r)
    BY <2>1
  <2> HIDE DEF r
  <2>4. RecordOK(r) /\ ~Doomed(r)
    BY <1>1, <2>2 DEF RecordOK, Doomed
  <2> QED
    BY <1>1, <2>2, <2>3, <2>4, Fields, QuietStep DEF WaitPcs
<1>3. CASE Pinned(p)
  <2>1. CASE op[p].deep /\ Links[Cid(p)] # {}
    BY <1>2, <1>3, <2>1 DEF Pinned
  <2>2. CASE ~(op[p].deep /\ Links[Cid(p)] # {})
    <3> DEFINE r == [Loop(p, "pin") EXCEPT !.dones = @ \cup {Cid(p)}]
    <3>1. OpAfter(p, r)
      BY <1>3, <2>2 DEF Pinned
    <3>2. r \in OpRecord /\ r.pc \in LoopPcs /\ r.then = "idle"
      BY <1>1, DoneRecord
    <3> HIDE DEF r
    <3> QED
      BY <1>1, <3>1, <3>2, Fields, LoopStep DEF WaitPcs
  <2> QED
    BY <2>1, <2>2
<1>4. CASE PushLinks(p)
  <2> DEFINE r == [Loop(p, "pin") EXCEPT !.todo = @ \cup Links[Cid(p)], !.dones = @ \cup {Cid(p)}]
  <2>1. OpAfter(p, r)
    BY <1>4 DEF PushLinks
  <2>2. r \in OpRecord /\ r.pc \in LoopPcs /\ r.then = "idle"
    BY <1>1, PushRecord
  <2> HIDE DEF r
  <2> QED
    BY <1>1, <2>1, <2>2, Fields, LoopStep DEF WaitPcs
<1>5. CASE Unpinned(p)
  <2>1. Loop(p, "unpin") \in OpRecord /\ Loop(p, "unpin").pc \in LoopPcs
        /\ Loop(p, "unpin").then = "idle"
    BY LoopRecord DEF Pcs, LoopPcs
  <2> QED
    BY <1>1, <1>2, <1>5, <2>1, Fields, LoopStep DEF Unpinned, WaitPcs
<1>6. CASE PushUnpinLinks(p)
  <2> DEFINE r == [Loop(p, "unpin") EXCEPT !.todo = @ \cup Links[Cid(p)]]
  <2>1. OpAfter(p, r)
    BY <1>6 DEF PushUnpinLinks
  <2>2. r \in OpRecord /\ r.pc \in LoopPcs /\ r.then = "idle"
    BY <1>1, PushUnpinRecord
  <2> HIDE DEF r
  <2> QED
    BY <1>1, <2>1, <2>2, Fields, LoopStep DEF WaitPcs
<1> QED
  BY <1>3, <1>4, <1>5, <1>6

LEMMA PinApiEnds ==
  ASSUME IInv, NEW p \in Procs, PinReturns(p) \/ UnpinReturns(p)
  PROVE  IInv'
BY FinishStep, Fields DEF PinReturns, UnpinReturns, At, StoresUnchanged, WaitPcs

-----------------------------------------------------------------------------
(* BlockApi.GetAsync                                                       *)

(* Where Return and Throw lead: p's record is idle, goes on after the get, *)
(* or is back in the loop of Pin.RemoveAsync.                              *)
LEMMA ReturnRecord ==
  ASSUME IInv, NEW p \in Procs, Return(p), op[p].pc \in {"tryGet", "stopQuery"}
  PROVE  \E r \in OpRecord : OpAfter(p, r) /\ RecordOK(r) /\ ~Doomed(r)
<1>1. CASE op[p].then = "idle"
  BY <1>1, IdleRecord DEF Return, Finish
<1>2. CASE op[p].then # "idle"
  <2> DEFINE r == [op[p] EXCEPT !.pc = op[p].then]
  <2>1. /\ op[p] \in OpRecord /\ op[p].then \in Pcs /\ RecordOK(op[p])
        /\ op[p].cid \in Cids /\ op[p].then \in {"pinned", "push", "pushUnpin"}
    BY <1>2, Fields DEF RecordOK, LoopPcs, Pcs
  <2>2. /\ r \in OpRecord /\ r.pc = op[p].then /\ r.then = op[p].then /\ r.cid = op[p].cid
    BY <2>1 DEF OpRecord
  <2>3. OpAfter(p, r)
    BY <1>2 DEF Return, Goto
  <2> HIDE DEF r
  <2>4. RecordOK(r) /\ ~Doomed(r)
    BY <2>1, <2>2 DEF RecordOK, Doomed
  <2> QED
    BY <2>2, <2>3, <2>4
<1> QED
  BY <1>1, <1>2

LEMMA ThrowRecord ==
  ASSUME IInv, NEW p \in Procs, Throw(p)
  PROVE  \E r \in OpRecord : OpAfter(p, r) /\ RecordOK(r) /\ ~Doomed(r)
<1>1. /\ Loop(p, "unpin") \in OpRecord /\ Loop(p, "unpin").pc = "unpin"
      /\ Loop(p, "unpin").then = "idle"
  BY LoopRecord DEF Pcs
<1>2. RecordOK(Loop(p, "unpin")) /\ ~Doomed(Loop(p, "unpin"))
  BY <1>1 DEF RecordOK, LoopPcs, Doomed
<1> QED
  BY <1>1, <1>2, IdleRecord DEF Throw, Finish

LEMMA TryGetStep ==
  ASSUME IInv, NEW p \in Procs, TryGet(p)
  PROVE  IInv'
<1>1. op[p].pc = "tryGet" /\ StoresUnchanged /\ WantsUnchanged
  BY DEF TryGet, At
<1>2. CASE Return(p)
  BY <1>1, <1>2, ReturnRecord, Fields, QuietStep DEF StoresUnchanged, WaitPcs
<1>3. CASE Goto(p, "want")
  BY <1>1, <1>3, Fields, GotoStep DEF StoresUnchanged, WaitPcs, LoopPcs, Pcs
<1> QED
  BY <1>2, <1>3 DEF TryGet

LEMMA WantStep ==
  ASSUME IInv, NEW p \in Procs, Want(p)
  PROVE  IInv'
<1> DEFINE r == [op[p] EXCEPT !.pc = "providers"]
<1>1. /\ r \in OpRecord /\ r.pc = "providers" /\ r.cid = op[p].cid /\ r.then = op[p].then
      /\ OpAfter(p, r)
  BY Fields DEF OpRecord, Pcs, Want, Goto
<1> HIDE DEF r
<1>2. /\ op[p].pc = "want" /\ op[p].cid \in Cids /\ Cid(p) = op[p].cid
      /\ wants' = [wants EXCEPT ![Cid(p)] = wants[Cid(p)] \cup {p}]
      /\ got' = [got EXCEPT ![p] = "pending"]
      /\ blocks' = blocks /\ pins' = pins /\ kept' = kept /\ owed' = owed
  BY Fields DEF Want, At, LoopPcs, Cid, Listed, StoresUnchanged
<1>3. /\ op' \in [Procs -> OpRecord]
      /\ Agree(op'[p], r, pins')
      /\ \A q \in Procs : q # p => Agree(op'[q], op[q], pins')
  BY <1>1, <1>2, OpStep DEF IInv, TypeOK
<1>4. TypeOK'
  BY <1>2, <1>3 DEF IInv, TypeOK
<1>5. Control'
  BY <1>1, <1>2, <1>3, Fields DEF IInv, Control, RecordOK, Agree, LoopPcs
<1>6. Collector'
  BY <1>1, <1>3 DEF IInv, Collector, Doomed, Agree
<1>7. WantList'
  BY <1>1, <1>2, <1>3 DEF IInv, TypeOK, WantList, Agree, WaitPcs
<1>8. OwedListed'
  <2> SUFFICES ASSUME NEW d \in owed PROVE d[1] \in wants'[d[2]]
    BY <1>2 DEF OwedListed
  <2>1. d[1] \in wants[d[2]] /\ d[2] \in Cids
    BY DEF IInv, OwedListed, TypeOK
  <2> QED
    BY <1>2, <2>1 DEF IInv, TypeOK
<1>9. Owed'
  BY <1>1, <1>2, <1>3 DEF IInv, Owed, EarlyWaiterContinued, Cid, Agree
<1> QED
  BY <1>4, <1>5, <1>6, <1>7, <1>8, <1>9 DEF IInv

LEMMA ProvidersThrowStep ==
  ASSUME IInv, NEW p \in Procs, ProvidersThrow(p)
  PROVE  IInv'
<1>1. /\ op[p].pc = "providers" /\ op[p].cid \in Cids /\ Cid(p) = op[p].cid
      /\ wants' = [wants EXCEPT ![Cid(p)] = wants[Cid(p)] \ {p}]
      /\ got' = [got EXCEPT ![p] = "none"]
      /\ owed' = {d \in owed : d[1] # p}
      /\ blocks' = blocks /\ pins' = pins /\ kept' = kept
  BY Fields DEF ProvidersThrow, At, LoopPcs, Cid, StoresUnchanged
<1>2. PICK r \in OpRecord : OpAfter(p, r) /\ RecordOK(r) /\ ~Doomed(r)
  BY ThrowRecord DEF ProvidersThrow
<1>3. /\ op' \in [Procs -> OpRecord]
      /\ Agree(op'[p], r, pins')
      /\ \A q \in Procs : q # p => Agree(op'[q], op[q], pins')
  BY <1>1, <1>2, OpStep DEF IInv, TypeOK
<1>4. /\ wants \in [Cids -> SUBSET Procs] /\ owed \subseteq Procs \X Cids
      /\ \A c \in Cids : wants'[c] = IF c = op[p].cid THEN wants[c] \ {p} ELSE wants[c]
      /\ \A q \in Procs : q # p => got'[q] = got[q]
  BY <1>1 DEF IInv, TypeOK
<1>5. TypeOK'
  BY <1>1, <1>3 DEF IInv, TypeOK
<1>6. Control'
  BY <1>2, <1>3 DEF IInv, Control, RecordOK, Agree
<1>7. Collector'
  BY <1>2, <1>3 DEF IInv, Collector, Doomed, Agree
<1>8. WantList'
  <2> SUFFICES ASSUME NEW q \in Procs, NEW c \in Cids, q \in wants'[c]
               PROVE  got'[q] = "pending" /\ op'[q].pc \in WaitPcs /\ op'[q].cid = c
    BY DEF WantList
  <2>1. q \in wants[c] /\ (c = op[p].cid => q # p)
    BY <1>4
  <2>2. got[q] = "pending" /\ op[q].pc \in WaitPcs /\ op[q].cid = c
    BY <2>1 DEF IInv, WantList
  <2>3. q # p
    BY <2>1, <2>2
  <2> QED
    BY <1>3, <1>4, <2>2, <2>3 DEF Agree
<1>9. OwedListed'
  <2> SUFFICES ASSUME NEW d \in owed, d[1] # p PROVE d[1] \in wants'[d[2]]
    BY <1>1 DEF OwedListed
  <2>1. d[1] \in wants[d[2]] /\ d[2] \in Cids
    BY <1>4 DEF IInv, OwedListed
  <2> QED
    BY <1>4, <2>1
<1>10. Owed'
  BY <1>1, <1>3 DEF IInv, Owed, EarlyWaiterContinued, Cid, Agree
<1> QED
  BY <1>5, <1>6, <1>7, <1>8, <1>9, <1>10 DEF IInv

LEMMA AwaitStep ==
  ASSUME IInv, NEW p \in Procs, Await(p)
  PROVE  IInv'
<1>1. /\ op[p].pc = "await" /\ op[p].cid \in Cids /\ Cid(p) = op[p].cid
      /\ got[p] # "pending" /\ got' = [got EXCEPT ![p] = "none"]
      /\ wants' = wants /\ owed' = owed
      /\ blocks' = blocks /\ pins' = pins /\ kept' = kept
  BY Fields DEF Await, At, LoopPcs, Cid, StoresUnchanged
<1>2. \E r \in OpRecord : OpAfter(p, r) /\ RecordOK(r) /\ ~Doomed(r)
  <2>1. CASE Goto(p, "stopQuery")
    <3> DEFINE r == [op[p] EXCEPT !.pc = "stopQuery"]
    <3>1. /\ r \in OpRecord /\ r.pc = "stopQuery" /\ r.cid = op[p].cid
          /\ r.then = op[p].then /\ OpAfter(p, r)
      BY <2>1, Fields DEF Goto, OpRecord, Pcs
    <3> HIDE DEF r
    <3> QED
      BY <1>1, <3>1, Fields DEF RecordOK, Doomed
  <2>2. CASE Throw(p)
    BY <2>2, ThrowRecord
  <2> QED
    BY <2>1, <2>2 DEF Await
<1>3. PICK r \in OpRecord : OpAfter(p, r) /\ RecordOK(r) /\ ~Doomed(r)
  BY <1>2
<1>4. /\ op' \in [Procs -> OpRecord]
      /\ Agree(op'[p], r, pins')
      /\ \A q \in Procs : q # p => Agree(op'[q], op[q], pins')
  BY <1>1, <1>3, OpStep DEF IInv, TypeOK
<1>5. TypeOK'
  BY <1>1, <1>4 DEF IInv, TypeOK
<1>6. Control'
  BY <1>3, <1>4 DEF IInv, Control, RecordOK, Agree
<1>7. Collector'
  BY <1>3, <1>4 DEF IInv, Collector, Doomed, Agree
<1>8. WantList'
  BY <1>1, <1>4 DEF IInv, TypeOK, WantList, Agree
<1>9. OwedListed' /\ Owed'
  BY <1>1, <1>4 DEF IInv, OwedListed, Owed, EarlyWaiterContinued, Cid, Agree
<1> QED
  BY <1>5, <1>6, <1>7, <1>8, <1>9 DEF IInv

LEMMA GetSteps ==
  ASSUME IInv, NEW p \in Procs, ProvidersEnd(p) \/ StopQuery(p) \/ Cancel(p)
  PROVE  IInv'
<1>1. CASE ProvidersEnd(p)
  BY <1>1, GotoStep, Fields DEF ProvidersEnd, At, StoresUnchanged, WaitPcs, LoopPcs, Pcs
<1>2. CASE StopQuery(p)
  <2>1. /\ op[p].pc = "stopQuery" /\ Cid(p) \in Cids
        /\ Settle(Cid(p), "stopped") /\ StoresUnchanged
    BY <1>2, Fields DEF StopQuery, At, LoopPcs
  <2>2. PICK r \in OpRecord : OpAfter(p, r) /\ RecordOK(r) /\ ~Doomed(r)
    BY <1>2, <2>1, ReturnRecord DEF StopQuery
  <2> QED
    BY <2>1, <2>2, SettleStep DEF WaitPcs
<1>3. CASE Cancel(p)
  <2>1. /\ op[p].pc \in WaitPcs /\ Cid(p) \in Cids /\ op' = op
        /\ Settle(Cid(p), "cancelled") /\ StoresUnchanged
    BY <1>3, Fields DEF Cancel, WaitPcs, LoopPcs
  <2> QED
    BY <2>1, Fields, SettleStep DEF WaitPcs, Cid
<1> QED
  BY <1>1, <1>2, <1>3

-----------------------------------------------------------------------------
(* BlockApi.RemoveAsync and the collector                                  *)

LEMMA RemoveReturnsStep ==
  ASSUME IInv, NEW p \in Procs, RemoveReturns(p),
         op[p].pc \notin WaitPcs \cup {"provide", "found"},
         blocks' \subseteq Cids, pins' \subseteq Cids, kept' \subseteq Cids, WantsUnchanged
  PROVE  IInv'
<1>1. /\ Loop(p, "gc") \in OpRecord /\ Loop(p, "gc").pc \in LoopPcs
      /\ Loop(p, "gc").then = "idle"
  BY LoopRecord DEF Pcs, LoopPcs
<1> QED
  BY <1>1, LoopStep, FinishStep DEF RemoveReturns

LEMMA RemoveSteps ==
  ASSUME IInv, NEW p \in Procs, RemoveExists(p) \/ RemoveBlock(p) \/ RemovePin(p)
  PROVE  IInv'
<1>1. /\ op[p].pc \in {"rmExists", "rmBlock", "rmPin"}
      /\ op[p].pc \notin LoopPcs /\ op[p].pc \notin WaitPcs \cup {"provide", "found"}
      /\ blocks' \subseteq Cids /\ pins' \subseteq Cids /\ kept' \subseteq Cids
      /\ WantsUnchanged
  BY Fields DEF RemoveExists, RemoveBlock, RemovePin, At, LoopPcs, WaitPcs, StoresUnchanged,
                GivenUp
<1>2. CASE RemoveExists(p)
  <2>1. op[p].kind = "gc" => Doomed(op[p])
    BY <1>2 DEF RemoveExists, At, Doomed
  <2>2. CASE Goto(p, "rmBlock")
    BY <1>1, <2>1, <2>2, GotoStep DEF Pcs
  <2>3. CASE RemoveReturns(p)
    BY <1>1, <2>3, RemoveReturnsStep
  <2> QED
    BY <1>2, <2>2, <2>3 DEF RemoveExists
<1>3. CASE RemoveBlock(p)
  BY <1>1, <1>3, GotoStep DEF RemoveBlock, Pcs
<1>4. CASE RemovePin(p)
  BY <1>1, <1>4, RemoveReturnsStep DEF RemovePin
<1> QED
  BY <1>2, <1>3, <1>4

LEMMA GcSteps ==
  ASSUME IInv, NEW p \in Procs, GcNext(p) \/ GcReturns(p)
  PROVE  IInv'
<1>1. /\ op[p].pc = "gc" /\ op[p].pc \notin WaitPcs \cup {"provide", "found"}
      /\ blocks' = blocks /\ pins' = pins /\ kept' = kept /\ WantsUnchanged
  BY DEF GcNext, GcReturns, At, WaitPcs, StoresUnchanged
<1>2. CASE GcNext(p)
  <2>1. PICK c \in Unvisited(p) :
          OpAfter(p, IF IsPinned(c)
                     THEN [op[p] EXCEPT !.dones = @ \cup {c}]
                     ELSE [op[p] EXCEPT !.pc = "rmExists", !.cid = c, !.dones = @ \cup {c}])
    BY <1>2 DEF GcNext
  <2>2. c \in Cids
    BY Fields DEF Unvisited
  <2> DEFINE done == op[p].dones \cup {c}
  <2>3. done \in SUBSET Cids /\ "rmExists" \in Pcs /\ op[p] \in OpRecord
    BY <2>2, Fields DEF Pcs
  <2>4. CASE IsPinned(c)
    <3> DEFINE r == [op[p] EXCEPT !.dones = done]
    <3>1. OpAfter(p, r)
      BY <2>1, <2>4
    <3> HIDE DEF done
    <3>2. r \in OpRecord /\ r.pc = op[p].pc /\ r.then = op[p].then /\ r.cid = op[p].cid
      BY <2>3 DEF OpRecord
    <3> HIDE DEF r
    <3>3. RecordOK(r) /\ ~Doomed(r)
      BY <1>1, <3>2, Fields DEF RecordOK, Doomed
    <3> QED
      BY <1>1, <3>1, <3>2, <3>3, Fields, QuietStep
  <2>5. CASE ~IsPinned(c)
    <3> DEFINE r == [op[p] EXCEPT !.pc = "rmExists", !.cid = c, !.dones = done]
    <3>1. OpAfter(p, r)
      BY <2>1, <2>5
    <3> HIDE DEF done
    <3>2. r \in OpRecord /\ r.pc = "rmExists" /\ r.then = op[p].then /\ r.cid = c
      BY <2>2, <2>3 DEF OpRecord
    <3> HIDE DEF r
    <3>3. RecordOK(r) /\ r.cid \notin pins'
      BY <1>1, <2>2, <2>5, <3>2, Fields DEF RecordOK, IsPinned
    <3> QED
      BY <1>1, <3>1, <3>2, <3>3, Fields, QuietStep
  <2> QED
    BY <2>4, <2>5
<1>3. CASE GcReturns(p)
  BY <1>1, <1>3, Fields, FinishStep DEF GcReturns
<1> QED
  BY <1>2, <1>3

-----------------------------------------------------------------------------
(* Calls, and the invariant.                                               *)

LEMMA CallRecords ==
  ASSUME TypeOK, NEW c \in Cids, NEW b \in BOOLEAN,
         NEW r \in {CallPut(c, b), CallReceive(c), CallGet(c), CallRemove(c),
                    CallPinAdd(c, b), CallPinRemove(c, b), CallGc},
         r.kind \in Kinds
  PROVE  r \in OpRecord /\ RecordOK(r) /\ ~Doomed(r)
<1>1. Idle \in OpRecord /\ Idle.then = "idle" /\ {c} \in SUBSET Cids
      /\ blocks \in SUBSET Cids /\ pins \in SUBSET Cids
  BY IdleRecord DEF TypeOK
<1> USE DEF OpRecord, Pcs, RecordOK, LoopPcs, Doomed
<1>2. CASE r = CallPut(c, b)
  BY <1>1, <1>2 DEF CallPut
<1>3. CASE r = CallReceive(c)
  BY <1>1, <1>3 DEF CallReceive
<1>4. CASE r = CallGet(c)
  BY <1>1, <1>4 DEF CallGet
<1>5. CASE r = CallRemove(c)
  BY <1>1, <1>5 DEF CallRemove
<1>6. CASE r = CallPinAdd(c, b)
  BY <1>1, <1>6 DEF CallPinAdd
<1>7. CASE r = CallPinRemove(c, b)
  BY <1>1, <1>7 DEF CallPinRemove
<1>8. CASE r = CallGc
  BY <1>1, <1>8 DEF CallGc
<1> QED
  BY <1>2, <1>3, <1>4, <1>5, <1>6, <1>7, <1>8

LEMMA CallStep ==
  ASSUME IInv, NEW p \in Procs, Call(p)
  PROVE  IInv'
<1>1. /\ op[p].pc = "idle" /\ StoresUnchanged /\ WantsUnchanged /\ TypeOK
      /\ op \in [Procs -> OpRecord]
  BY Fields DEF Call, At, IInv
<1>2. PICK c \in Cids, b \in BOOLEAN :
        \E r \in {CallPut(c, b), CallReceive(c), CallGet(c), CallRemove(c),
                  CallPinAdd(c, b), CallPinRemove(c, b), CallGc} :
          r.kind \in Kinds /\ op' = [op EXCEPT ![p] = r]
  BY DEF Call
<1>3. PICK r \in {CallPut(c, b), CallReceive(c), CallGet(c), CallRemove(c),
                  CallPinAdd(c, b), CallPinRemove(c, b), CallGc} :
        r.kind \in Kinds /\ op' = [op EXCEPT ![p] = r]
  BY <1>2
<1>4. r \in OpRecord /\ RecordOK(r) /\ ~Doomed(r)
  BY <1>1, <1>3, CallRecords
<1>5. /\ op' \in [Procs -> OpRecord] /\ op'[p] = r
      /\ \A q \in Procs : q # p => op'[q] = op[q]
  BY <1>1, <1>3, <1>4
<1>6. TypeOK'
  BY <1>1, <1>5 DEF TypeOK, StoresUnchanged, WantsUnchanged
<1>7. Control' /\ Collector'
  BY <1>4, <1>5 DEF IInv, Control, Collector
<1>8. WantList'
  BY <1>1, <1>5 DEF IInv, WantList, WantsUnchanged, WaitPcs
<1>9. OwedListed' /\ Owed'
  BY <1>1, <1>5 DEF IInv, OwedListed, Owed, EarlyWaiterContinued, Cid, WantsUnchanged
<1> QED
  BY <1>6, <1>7, <1>8, <1>9 DEF IInv

LEMMA InitInv == Init => IInv
<1> SUFFICES ASSUME Init PROVE IInv
  OBVIOUS
<1>1. Idle \in OpRecord /\ RecordOK(Idle) /\ ~Doomed(Idle) /\ Idle.pc = "idle"
  BY IdleRecord
<1>2. TypeOK
  BY <1>1 DEF Init, TypeOK
<1>3. Control /\ Collector
  BY <1>1 DEF Init, Control, Collector
<1>4. WantList /\ OwedListed /\ Owed
  BY DEF Init, WantList, OwedListed, Owed, EarlyWaiterContinued
<1> QED
  BY <1>2, <1>3, <1>4 DEF IInv

LEMMA NextInv == IInv /\ [Next]_vars => IInv'
<1> SUFFICES ASSUME IInv, [Next]_vars PROVE IInv'
  OBVIOUS
<1>1. ASSUME NEW p \in Procs, Call(p) \/ Step(p) \/ Cancel(p)
      PROVE  IInv'
  BY <1>1, CallStep, PutSteps, StoreStep, FoundStep, PinStep, UnpinStep, LinkSteps, PinApiEnds,
     TryGetStep, WantStep, ProvidersThrowStep, AwaitStep, GetSteps, RemoveSteps, GcSteps DEF Step
<1>2. CASE UNCHANGED vars
  BY <1>2 DEF vars, IInv, TypeOK, Control, Collector, WantList, OwedListed, Owed,
              EarlyWaiterContinued, Cid
<1> QED
  BY <1>1, <1>2 DEF Next

LEMMA Inductive == Spec => []IInv
BY InitInv, NextInv, PTL DEF Spec

-----------------------------------------------------------------------------
(* The repository stays well formed: stores and want list hold blocks and  *)
(* callers only, and every operation is at a point of its code.            *)
THEOREM TypeCorrect == Spec => []TypeOK
<1>1. IInv => TypeOK
  BY DEF IInv
<1> QED
  BY <1>1, Inductive, PTL

(* Whatever runs beside it, RemoveGarbageAsync never deletes a block that  *)
(* has been pinned since before it started.                                *)
THEOREM CollectorSparesPinned == Spec => []GcSparesPinned
<1>1. IInv => GcSparesPinned
  BY DEF IInv, Collector, GcSparesPinned, Doomed, At, Cid
<1> QED
  BY <1>1, Inductive, PTL

(* As long as announcing a block does not fail, PutAsync continues every   *)
(* GetAsync that was on the want list when the block was stored.           *)
THEOREM WaitersContinued ==
  ASSUME AnnouncementsSucceed
  PROVE  Spec => []EarlyWaiterContinued
<1>1. IInv => EarlyWaiterContinued
  BY DEF IInv, Owed, AnnouncementsSucceed
<1> QED
  BY <1>1, Inductive, PTL

-----------------------------------------------------------------------------
(* Garbage.  The listing of a collector has every block it has yet to      *)
(* collect, and the collector has visited none of them but the one it is   *)
(* about to remove.                                                        *)

CollectPcs == {"gc", "rmExists", "rmBlock", "rmPin"}
InHand(o) == IF o.pc \in {"rmExists", "rmBlock"} THEN {o.cid} ELSE {}

(* o still has the blocks w to collect.                                    *)
Collects(o, w) == o.pc \in CollectPcs /\ w \subseteq o.todo /\ w \cap o.dones \subseteq InHand(o)

WasteOK(o, b, s) ==
  /\ o.waste \subseteq b \ s
  /\ o.kind = "gc" => Collects(o, o.waste)

WasteInv == \A p \in Procs : WasteOK(op[p], blocks, pins)

GInv == IInv /\ WasteInv

LEMMA WasteStep ==
  ASSUME GInv, NEW p \in Procs, NEW r \in OpRecord, OpAfter(p, r),
         r.kind = "gc" => Collects(r, (r.waste \cap blocks') \ pins')
  PROVE  WasteInv'
<1> DEFINE After(o) == [o EXCEPT !.since = @ \cap pins', !.waste = (@ \cap blocks') \ pins']
<1>1. ASSUME NEW o \in OpRecord
      PROVE  /\ After(o).kind = o.kind /\ After(o).pc = o.pc /\ After(o).cid = o.cid
             /\ After(o).todo = o.todo /\ After(o).dones = o.dones
             /\ After(o).waste = (o.waste \cap blocks') \ pins'
  BY <1>1 DEF OpRecord
<1>2. \A q \in Procs : op'[q] = After(IF q = p THEN r ELSE op[q])
  BY DEF OpAfter
<1>3. \A q \in Procs : op[q] \in OpRecord /\ WasteOK(op[q], blocks, pins)
  BY DEF GInv, IInv, TypeOK, WasteInv
<1> HIDE DEF After
<1>4. ASSUME NEW q \in Procs
      PROVE  WasteOK(op'[q], blocks', pins')
  <2>1. CASE q = p
    BY <1>1, <1>2, <2>1 DEF WasteOK, Collects, InHand
  <2>2. CASE q # p
    BY <1>1, <1>2, <1>3, <2>2 DEF WasteOK, Collects, InHand
  <2> QED
    BY <2>1, <2>2
<1> QED
  BY <1>4 DEF WasteInv

LEMMA GcFacts ==
  ASSUME GInv, NEW p \in Procs
  PROVE  /\ op[p] \in OpRecord /\ op \in [Procs -> OpRecord] /\ op[p].pc \in Pcs
         /\ op[p].waste \subseteq blocks \ pins
         /\ op[p].kind = "gc" => Collects(op[p], op[p].waste)
         /\ RecordOK(op[p])
BY Fields DEF GInv, WasteInv, WasteOK

(* The steps of a collector.                                               *)
LEMMA WasteGcNext ==
  ASSUME GInv, NEW p \in Procs, GcNext(p)
  PROVE  WasteInv'
<1>1. PICK c \in Unvisited(p) :
        OpAfter(p, IF IsPinned(c)
                   THEN [op[p] EXCEPT !.dones = @ \cup {c}]
                   ELSE [op[p] EXCEPT !.pc = "rmExists", !.cid = c, !.dones = @ \cup {c}])
  BY DEF GcNext
<1>2. blocks' = blocks /\ pins' = pins /\ c \in Cids /\ op[p].pc = "gc"
  BY Fields DEF GInv, GcNext, At, StoresUnchanged, Unvisited
<1>3. op[p] \in OpRecord /\ op[p].waste \subseteq blocks \ pins
      /\ (op[p].kind = "gc" => Collects(op[p], op[p].waste))
  BY GcFacts
<1> DEFINE done == op[p].dones \cup {c}
<1>4. CASE IsPinned(c)
  <2> DEFINE r == [op[p] EXCEPT !.dones = done]
  <2>1. OpAfter(p, r)
    BY <1>1, <1>4
  <2>2. /\ r \in OpRecord /\ r.pc = "gc" /\ r.todo = op[p].todo /\ r.dones = done
        /\ r.kind = op[p].kind /\ r.waste = op[p].waste
    BY <1>2, <1>3 DEF OpRecord
  <2> HIDE DEF r
  <2>3. r.kind = "gc" => Collects(r, (r.waste \cap blocks') \ pins')
    BY <1>2, <1>3, <1>4, <2>2 DEF Collects, InHand, CollectPcs, IsPinned
  <2> QED
    BY <2>1, <2>2, <2>3, WasteStep
<1>5. CASE ~IsPinned(c)
  <2> DEFINE r == [op[p] EXCEPT !.pc = "rmExists", !.cid = c, !.dones = done]
  <2>1. OpAfter(p, r)
    BY <1>1, <1>5
  <2>2. /\ r \in OpRecord /\ r.pc = "rmExists" /\ r.cid = c /\ r.todo = op[p].todo
        /\ r.dones = done /\ r.kind = op[p].kind /\ r.waste = op[p].waste
    BY <1>2, <1>3 DEF OpRecord, Pcs
  <2> HIDE DEF r
  <2>3. r.kind = "gc" => Collects(r, (r.waste \cap blocks') \ pins')
    BY <1>2, <1>3, <2>2 DEF Collects, InHand, CollectPcs
  <2> QED
    BY <2>1, <2>2, <2>3, WasteStep
<1> QED
  BY <1>4, <1>5

LEMMA WasteLoop ==
  ASSUME GInv, NEW p \in Procs, RemoveReturns(p),
         op[p].kind = "gc" => (op[p].waste \cap blocks') \cap op[p].dones = {}
  PROVE  WasteInv'
<1>1. op[p] \in OpRecord /\ (op[p].kind = "gc" => Collects(op[p], op[p].waste))
  BY GcFacts
<1>2. CASE op[p].kind = "gc"
  <2> DEFINE r == Loop(p, "gc")
  <2>1. OpAfter(p, r)
    BY <1>2 DEF RemoveReturns
  <2>2. /\ r \in OpRecord /\ r.pc = "gc" /\ r.todo = op[p].todo /\ r.dones = op[p].dones
    BY LoopRecord DEF GInv, Pcs
  <2>3. r.waste = op[p].waste
    BY <1>1 DEF Loop, OpRecord
  <2> HIDE DEF r
  <2>4. Collects(r, (r.waste \cap blocks') \ pins')
    BY <1>1, <1>2, <2>2, <2>3 DEF Collects, InHand, CollectPcs
  <2> QED
    BY <2>1, <2>2, <2>4, WasteStep
<1>3. CASE op[p].kind # "gc"
  BY <1>3, IdleRecord, WasteStep DEF RemoveReturns, Finish
<1> QED
  BY <1>2, <1>3

LEMMA WasteGoto ==
  ASSUME GInv, NEW p \in Procs, NEW pc \in Pcs, Goto(p, pc),
         op[p].kind = "gc" =>
           /\ pc \in CollectPcs
           /\ op[p].waste \cap blocks' \cap op[p].dones
                \subseteq IF pc \in {"rmExists", "rmBlock"} THEN {op[p].cid} ELSE {}
  PROVE  WasteInv'
<1> DEFINE r == [op[p] EXCEPT !.pc = pc]
<1>1. op[p] \in OpRecord /\ (op[p].kind = "gc" => Collects(op[p], op[p].waste))
  BY GcFacts
<1>2. /\ r \in OpRecord /\ r.pc = pc /\ r.todo = op[p].todo /\ r.dones = op[p].dones
      /\ r.kind = op[p].kind /\ r.waste = op[p].waste /\ r.cid = op[p].cid
  BY <1>1 DEF OpRecord
<1>3. OpAfter(p, r)
  BY DEF Goto
<1> HIDE DEF r
<1>4. r.kind = "gc" => Collects(r, (r.waste \cap blocks') \ pins')
  BY <1>1, <1>2 DEF Collects, InHand
<1> QED
  BY <1>2, <1>3, <1>4, WasteStep

LEMMA WasteRemove ==
  ASSUME GInv, NEW p \in Procs, RemoveExists(p) \/ RemoveBlock(p) \/ RemovePin(p)
  PROVE  WasteInv'
<1>1. /\ op[p].waste \subseteq blocks
      /\ op[p].kind = "gc" => Collects(op[p], op[p].waste)
  BY GcFacts
<1>2. CASE RemoveExists(p)
  <2>1. op[p].pc = "rmExists" /\ blocks' = blocks
    BY <1>2 DEF RemoveExists, At, StoresUnchanged
  <2>2. CASE Cid(p) \in blocks
    <3>1. Goto(p, "rmBlock") /\ "rmBlock" \in Pcs
      BY <1>2, <2>2 DEF RemoveExists, Pcs
    <3> QED
      BY <1>1, <2>1, <3>1, WasteGoto DEF Collects, InHand, CollectPcs
  <2>3. CASE Cid(p) \notin blocks
    BY <1>1, <1>2, <2>1, <2>3, WasteLoop DEF RemoveExists, Collects, InHand, Cid
  <2> QED
    BY <2>2, <2>3
<1>3. CASE RemoveBlock(p)
  <2>1. /\ op[p].pc = "rmBlock" /\ blocks' = blocks \ {op[p].cid}
        /\ Goto(p, "rmPin") /\ "rmPin" \in Pcs
    BY <1>3 DEF RemoveBlock, At, Cid, Pcs
  <2> QED
    BY <1>1, <2>1, WasteGoto DEF Collects, InHand, CollectPcs
<1>4. CASE RemovePin(p)
  <2>1. op[p].pc = "rmPin" /\ blocks' = blocks /\ RemoveReturns(p)
    BY <1>4 DEF RemovePin, At
  <2> QED
    BY <1>1, <2>1, WasteLoop DEF Collects, InHand
<1> QED
  BY <1>2, <1>3, <1>4

(* Only its last step ends a collector; any other operation goes on as it  *)
(* is or ends.                                                             *)
KindKept(p) ==
  \E r \in OpRecord :
    OpAfter(p, r) /\ (r.kind = op[p].kind \/ (r.kind = "none" /\ (op[p].kind = "gc" => GcReturns(p))))

LEMMA FinishKind ==
  ASSUME NEW p \in Procs, Finish(p), op[p].kind = "gc" => GcReturns(p)
  PROVE  KindKept(p)
BY IdleRecord DEF Finish, KindKept

LEMMA GotoKind ==
  ASSUME GInv, NEW p \in Procs, NEW pc \in Pcs, Goto(p, pc)
  PROVE  KindKept(p)
<1> DEFINE r == [op[p] EXCEPT !.pc = pc]
<1>1. r \in OpRecord /\ r.kind = op[p].kind
  BY GcFacts DEF OpRecord
<1>2. OpAfter(p, r)
  BY DEF Goto
<1> HIDE DEF r
<1> QED
  BY <1>1, <1>2 DEF KindKept

LEMMA LoopKind ==
  ASSUME GInv, NEW p \in Procs, NEW pc \in Pcs, OpAfter(p, Loop(p, pc))
  PROVE  KindKept(p)
BY LoopRecord DEF GInv, KindKept

LEMMA PutKind ==
  ASSUME GInv, NEW p \in Procs, op[p].kind # "gc",
         Exists(p) \/ Store(p) \/ Provide(p) \/ Found(p)
  PROVE  KindKept(p)
<1>1. CASE Exists(p) \/ Store(p) \/ Provide(p)
  <2>1. {"found", "store", "provide"} \subseteq Pcs
    BY DEF Pcs
  <2> QED
    BY <1>1, <2>1, GotoKind, FinishKind DEF Exists, Store, Provide
<1>2. CASE Found(p)
  <2> DEFINE r == [op[p] EXCEPT !.pc = IF op[p].pin THEN "pin" ELSE "unpin",
                                !.pin = FALSE, !.cid = None, !.todo = {Cid(p)}]
  <2>1. /\ op[p] \in OpRecord /\ {Cid(p)} \in SUBSET Cids
        /\ (IF op[p].pin THEN "pin" ELSE "unpin") \in Pcs
    BY <1>2, Fields DEF GInv, Found, At, LoopPcs, Pcs
  <2>2. r \in OpRecord /\ r.kind = op[p].kind
    BY <2>1 DEF OpRecord
  <2>3. OpAfter(p, r)
    BY <1>2 DEF Found
  <2> HIDE DEF r
  <2> QED
    BY <2>2, <2>3 DEF KindKept
<1> QED
  BY <1>1, <1>2

LEMMA PinKind ==
  ASSUME GInv, NEW p \in Procs, op[p].kind # "gc",
         Pin(p) \/ PinReturns(p) \/ Unpin(p) \/ UnpinReturns(p)
  PROVE  KindKept(p)
<1>1. op[p] \in OpRecord /\ op[p].todo \subseteq Cids
  BY Fields DEF GInv
<1>2. CASE Pin(p)
  <2>1. PICK c \in op[p].todo : OpAfter(p, Fetch(p, c))
    BY <1>2 DEF Pin
  <2> QED
    BY <1>1, <2>1, FetchRecord DEF KindKept
<1>3. CASE Unpin(p)
  <2>1. PICK c \in op[p].todo :
          OpAfter(p, IF op[p].deep
                     THEN [op[p] EXCEPT !.pc = "unpinned", !.cid = c, !.todo = @ \ {c}]
                     ELSE [op[p] EXCEPT !.todo = @ \ {c}])
    BY <1>3 DEF Unpin
  <2> DEFINE r == IF op[p].deep
                  THEN [op[p] EXCEPT !.pc = "unpinned", !.cid = c, !.todo = @ \ {c}]
                  ELSE [op[p] EXCEPT !.todo = @ \ {c}]
  <2>2. op[p].todo \ {c} \in SUBSET Cids /\ "unpinned" \in Pcs /\ c \in Cids
    BY <1>1 DEF Pcs
  <2>3. r \in OpRecord /\ r.kind = op[p].kind
    BY <1>1, <2>2 DEF OpRecord
  <2>4. OpAfter(p, r)
    BY <2>1
  <2> HIDE DEF r
  <2> QED
    BY <2>3, <2>4 DEF KindKept
<1>4. CASE PinReturns(p) \/ UnpinReturns(p)
  BY <1>4, FinishKind DEF PinReturns, UnpinReturns
<1> QED
  BY <1>2, <1>3, <1>4

LEMMA LinksKind ==
  ASSUME GInv, NEW p \in Procs,
         Pinned(p) \/ PushLinks(p) \/ Unpinned(p) \/ PushUnpinLinks(p)
  PROVE  KindKept(p)
<1>1. IInv /\ op[p] \in OpRecord /\ Cid(p) \in Cids /\ Links[Cid(p)] \subseteq Cids
  BY Fields DEF GInv, Pinned, PushLinks, Unpinned, PushUnpinLinks, At, LoopPcs
<1>2. ASSUME NEW t \in {"push", "pushUnpin"},
             OpAfter(p, [op[p] EXCEPT !.pc = "tryGet", !.then = t])
      PROVE  KindKept(p)
  <2> DEFINE r == [op[p] EXCEPT !.pc = "tryGet", !.then = t]
  <2>1. r \in OpRecord /\ r.kind = op[p].kind
    BY <1>1, LinksRecord
  <2>2. OpAfter(p, r)
    BY <1>2
  <2> HIDE DEF r
  <2> QED
    BY <2>1, <2>2 DEF KindKept
<1>3. ASSUME OpAfter(p, [Loop(p, "pin") EXCEPT !.dones = @ \cup {Cid(p)}])
      PROVE  KindKept(p)
  BY <1>1, <1>3, DoneRecord DEF KindKept
<1>4. CASE Pinned(p)
  BY <1>2, <1>3, <1>4 DEF Pinned
<1>5. CASE PushLinks(p)
  BY <1>1, <1>5, PushRecord DEF PushLinks, KindKept
<1>6. CASE Unpinned(p)
  BY <1>2, <1>6, LoopKind DEF Unpinned, Pcs
<1>7. CASE PushUnpinLinks(p)
  BY <1>1, <1>7, PushUnpinRecord DEF PushUnpinLinks, KindKept
<1> QED
  BY <1>4, <1>5, <1>6, <1>7

LEMMA GetKind ==
  ASSUME GInv, NEW p \in Procs, op[p].kind # "gc",
         \/ TryGet(p) \/ Want(p) \/ ProvidersEnd(p) \/ ProvidersThrow(p)
         \/ Await(p) \/ StopQuery(p)
  PROVE  KindKept(p)
<1>1. {"want", "providers", "await", "stopQuery", "unpin"} \subseteq Pcs /\ op[p].then \in Pcs
  BY GcFacts DEF Pcs, RecordOK
<1>2. Return(p) => KindKept(p)
  BY <1>1, GotoKind, FinishKind DEF Return
<1>3. Throw(p) => KindKept(p)
  BY <1>1, LoopKind, FinishKind DEF Throw
<1> QED
  BY <1>1, <1>2, <1>3, GotoKind
  DEF TryGet, Want, ProvidersEnd, ProvidersThrow, Await, StopQuery

LEMMA CollectKind ==
  ASSUME GInv, NEW p \in Procs,
         RemoveExists(p) \/ RemoveBlock(p) \/ RemovePin(p) \/ GcNext(p) \/ GcReturns(p)
  PROVE  KindKept(p)
<1>1. {"rmBlock", "rmPin", "gc"} \subseteq Pcs
  BY DEF Pcs
<1>2. RemoveReturns(p) => KindKept(p)
  BY <1>1, LoopKind, FinishKind DEF RemoveReturns
<1>3. CASE RemoveExists(p) \/ RemoveBlock(p) \/ RemovePin(p)
  BY <1>1, <1>2, <1>3, GotoKind DEF RemoveExists, RemoveBlock, RemovePin
<1>4. CASE GcReturns(p)
  BY <1>4, FinishKind DEF GcReturns
<1>5. CASE GcNext(p)
  <2>1. PICK c \in Unvisited(p) :
          OpAfter(p, IF IsPinned(c)
                     THEN [op[p] EXCEPT !.dones = @ \cup {c}]
                     ELSE [op[p] EXCEPT !.pc = "rmExists", !.cid = c, !.dones = @ \cup {c}])
    BY <1>5 DEF GcNext
  <2> DEFINE r == IF IsPinned(c)
                  THEN [op[p] EXCEPT !.dones = @ \cup {c}]
                  ELSE [op[p] EXCEPT !.pc = "rmExists", !.cid = c, !.dones = @ \cup {c}]
  <2>2. op[p].dones \cup {c} \in SUBSET Cids /\ "rmExists" \in Pcs /\ c \in Cids
        /\ op[p] \in OpRecord
    BY Fields DEF GInv, Unvisited, Pcs
  <2>3. r \in OpRecord /\ r.kind = op[p].kind
    BY <2>2 DEF OpRecord
  <2>4. OpAfter(p, r)
    BY <2>1
  <2> HIDE DEF r
  <2> QED
    BY <2>3, <2>4 DEF KindKept
<1> QED
  BY <1>3, <1>4, <1>5

(* A collector is at its own points of the code.                           *)
LEMMA CollectorSteps ==
  ASSUME GInv, NEW p \in Procs, Step(p), op[p].kind = "gc"
  PROVE  RemoveExists(p) \/ RemoveBlock(p) \/ RemovePin(p) \/ GcNext(p) \/ GcReturns(p)
<1>1. op[p].pc \in CollectPcs
  BY GcFacts DEF Collects
<1> QED
  BY <1>1 DEF CollectPcs, Step, At, Exists, Store, Provide, Found, Pin, Pinned, PushLinks, PinReturns,
     Unpin, Unpinned, PushUnpinLinks, UnpinReturns, TryGet, Want, ProvidersEnd, ProvidersThrow,
     Await, StopQuery

LEMMA StepKind ==
  ASSUME GInv, NEW p \in Procs, Step(p)
  PROVE  KindKept(p)
<1>1. CASE op[p].kind = "gc"
  BY <1>1, CollectorSteps, CollectKind
<1>2. CASE op[p].kind # "gc"
  BY <1>2, PutKind, PinKind, LinksKind, GetKind, CollectKind DEF Step
<1> QED
  BY <1>1, <1>2

LEMMA WasteCall ==
  ASSUME GInv, NEW p \in Procs, Call(p)
  PROVE  WasteInv'
<1>1. PICK c \in Cids, b \in BOOLEAN :
        \E r \in {CallPut(c, b), CallReceive(c), CallGet(c), CallRemove(c),
                  CallPinAdd(c, b), CallPinRemove(c, b), CallGc} :
          r.kind \in Kinds /\ op' = [op EXCEPT ![p] = r]
  BY DEF Call
<1>2. PICK r \in {CallPut(c, b), CallReceive(c), CallGet(c), CallRemove(c),
                  CallPinAdd(c, b), CallPinRemove(c, b), CallGc} :
        r.kind \in Kinds /\ op' = [op EXCEPT ![p] = r]
  BY <1>1
<1>3. blocks' = blocks /\ pins' = pins /\ op \in [Procs -> OpRecord]
  BY GcFacts DEF Call, StoresUnchanged
<1>4. WasteOK(r, blocks, pins)
  <2>1. CASE r = CallGc
    BY <2>1, IdleRecord DEF CallGc, Idle, WasteOK, Collects, CollectPcs, InHand
  <2>2. CASE r # CallGc
    <3>1. r.waste = {} /\ r.kind # "gc"
      BY <1>2, <2>2, IdleRecord
      DEF CallPut, CallReceive, CallGet, CallRemove, CallPinAdd, CallPinRemove, Idle
    <3> QED
      BY <3>1 DEF WasteOK
  <2> QED
    BY <2>1, <2>2
<1>5. ASSUME NEW q \in Procs
      PROVE  WasteOK(op'[q], blocks', pins')
  <2>1. CASE q = p
    BY <1>2, <1>3, <1>4, <2>1
  <2>2. CASE q # p
    BY <1>2, <1>3, <2>2 DEF GInv, WasteInv
  <2> QED
    BY <2>1, <2>2
<1> QED
  BY <1>5 DEF WasteInv

LEMMA WasteNext == GInv /\ [Next]_vars => GInv'
<1> SUFFICES ASSUME GInv, [Next]_vars PROVE GInv'
  OBVIOUS
<1>1. IInv'
  BY NextInv DEF GInv
<1>2. ASSUME NEW p \in Procs, Call(p)
      PROVE  WasteInv'
  BY <1>2, WasteCall
<1>3. ASSUME NEW p \in Procs, Step(p)
      PROVE  WasteInv'
  <2>1. CASE op[p].kind # "gc" \/ GcReturns(p)
    <3>1. PICK r \in OpRecord : OpAfter(p, r) /\ (r.kind = op[p].kind \/ r.kind = "none")
      BY <1>3, StepKind DEF KindKept
    <3>2. CASE r.kind # "gc"
      BY <3>1, <3>2, WasteStep
    <3>3. CASE GcReturns(p)
      BY <3>3, IdleRecord, WasteStep DEF GcReturns, Finish
    <3> QED
      BY <2>1, <3>1, <3>2, <3>3
  <2>2. CASE op[p].kind = "gc" /\ ~GcReturns(p)
    BY <1>3, <2>2, CollectorSteps, WasteRemove, WasteGcNext
  <2> QED
    BY <2>1, <2>2
<1>4. ASSUME NEW p \in Procs, Cancel(p)
      PROVE  WasteInv'
  BY <1>4 DEF Cancel, StoresUnchanged, GInv, WasteInv
<1>5. ASSUME UNCHANGED vars
      PROVE  WasteInv'
  BY <1>5 DEF vars, GInv, WasteInv
<1> QED
  BY <1>1, <1>2, <1>3, <1>4, <1>5 DEF GInv, Next

(* When RemoveGarbageAsync ends, no block is left that was there, without  *)
(* a pin, since it started.                                                *)
THEOREM CollectorCollects == Spec => GcCollectsGarbage
<1> DEFINE Collected == \A p \in Procs : op[p].kind = "gc" /\ op'[p].kind # "gc" => op[p].waste = {}
<1>1. Init => GInv
  <2> SUFFICES ASSUME Init PROVE GInv
    OBVIOUS
  <2>1. IInv
    BY InitInv
  <2>2. \A p \in Procs : op[p].waste = {} /\ op[p].kind = "none"
    BY IdleRecord DEF Init, Idle
  <2> QED
    BY <2>1, <2>2 DEF GInv, WasteInv, WasteOK
<1>2. GInv /\ [Next]_vars => [Collected]_vars
  <2> SUFFICES ASSUME GInv, [Next]_vars, NEW p \in Procs, op[p].kind = "gc", op'[p].kind # "gc"
               PROVE  op[p].waste = {}
    OBVIOUS
  <2>1. /\ op[p].pc \in CollectPcs /\ Collects(op[p], op[p].waste) /\ op[p].waste \subseteq blocks
        /\ op \in [Procs -> OpRecord]
    BY GcFacts DEF Collects
  <2>2. PICK q \in Procs : Step(q) \/ Call(q) \/ Cancel(q)
    BY DEF Next, vars
  <2>3. CASE Step(q)
    <3>1. PICK r \in OpRecord :
            OpAfter(q, r) /\ (r.kind = op[q].kind \/ (r.kind = "none" /\ (op[q].kind = "gc" => GcReturns(q))))
      BY <2>3, StepKind DEF KindKept
    <3>2. IInv' /\ blocks' \subseteq Cids /\ pins' \subseteq Cids
      BY NextInv DEF GInv, IInv, TypeOK
    <3>3. /\ op'[q].kind = r.kind
          /\ p # q => op'[p].kind = op[p].kind
      BY <2>1, <3>1, <3>2, OpStep DEF Agree
    <3>4. GcReturns(p)
      BY <3>1, <3>3
    <3> QED
      BY <2>1, <3>4 DEF GcReturns, At, Collects, InHand
  <2>4. CASE Call(q)
    <3>1. q # p
      BY <2>1, <2>4 DEF Call, At, CollectPcs
    <3>2. op'[p] = op[p]
      BY <2>1, <2>4, <3>1 DEF Call
    <3> QED
      BY <3>2
  <2>5. CASE Cancel(q)
    BY <2>5 DEF Cancel
  <2> QED
    BY <2>2, <2>3, <2>4, <2>5
<1> QED
  BY <1>1, <1>2, WasteNext, PTL DEF GcCollectsGarbage, Spec

-----------------------------------------------------------------------------
(* A single caller.                                                        *)

StoresIn == blocks' \subseteq Cids /\ pins' \subseteq Cids

LEMMA SerialFacts ==
  ASSUME IInv, SerialInv, NEW p \in Procs
  PROVE  /\ op[p] \in OpRecord /\ op \in [Procs -> OpRecord]
         /\ blocks \subseteq Cids /\ pins \subseteq Cids
         /\ kept \subseteq blocks \cap pins
         /\ Stage(op[p], blocks, pins) /\ got[p] # "found"
         /\ op[p].then \in {"idle", "pinned", "push", "pushUnpin"}
BY Fields DEF SerialInv, RecordOK

LEMMA GotoFacts ==
  ASSUME IInv, NEW p \in Procs, NEW pc \in Pcs, Goto(p, pc), StoresIn
  PROVE  /\ op'[p].pc = pc /\ op'[p].kind = op[p].kind /\ op'[p].cid = op[p].cid
         /\ op'[p].then = op[p].then /\ op'[p].dones = op[p].dones
<1> DEFINE r == [op[p] EXCEPT !.pc = pc]
<1>1. /\ r \in OpRecord /\ r.pc = pc /\ r.cid = op[p].cid /\ r.then = op[p].then
      /\ r.kind = op[p].kind /\ r.dones = op[p].dones
  BY Fields DEF OpRecord
<1>2. OpAfter(p, r)
  BY DEF Goto
<1> HIDE DEF r
<1>3. Agree(op'[p], r, pins')
  BY <1>1, <1>2, Fields, OpStep DEF StoresIn
<1> QED
  BY <1>1, <1>3 DEF Agree

LEMMA FinishFacts ==
  ASSUME IInv, NEW p \in Procs, Finish(p), StoresIn
  PROVE  op'[p].pc = "idle" /\ op'[p].then = "idle" /\ op'[p].dones = {}
<1>1. Agree(op'[p], Idle, pins')
  BY Fields, IdleRecord, OpStep DEF StoresIn, Finish
<1> QED
  BY <1>1, IdleRecord DEF Agree

LEMMA LoopFacts ==
  ASSUME IInv, NEW p \in Procs, NEW pc \in Pcs, OpAfter(p, Loop(p, pc)), StoresIn
  PROVE  /\ op'[p].pc = pc /\ op'[p].then = "idle"
         /\ op'[p].kind = op[p].kind /\ op'[p].dones = op[p].dones
<1>1. Agree(op'[p], Loop(p, pc), pins')
  BY Fields, LoopRecord, OpStep DEF StoresIn
<1> QED
  BY <1>1, LoopRecord DEF Agree

(* The caller is at rest, or was thrown out of a get.                      *)
LEMMA RestStage ==
  ASSUME NEW o, NEW b, NEW s, o.pc = "idle", o.then = "idle"
  PROVE  Stage(o, b, s)
BY DEF Stage, Building, Putting, Unpinning, Removing

LEMMA ThrowStage ==
  ASSUME IInv, SerialInv, NEW p \in Procs, Throw(p), StoresUnchanged
  PROVE  Stage(op'[p], blocks', pins')
<1>1. StoresIn
  BY SerialFacts DEF StoresIn, StoresUnchanged
<1>2. CASE Finish(p)
  BY <1>1, <1>2, FinishFacts, RestStage
<1>3. CASE op[p].then = "pushUnpin" /\ OpAfter(p, Loop(p, "unpin"))
  <2>1. /\ op'[p].pc = "unpin" /\ op'[p].then = "idle"
        /\ op'[p].kind = op[p].kind /\ op'[p].dones = op[p].dones
    BY <1>1, <1>3, LoopFacts DEF Pcs
  <2> QED
    BY <1>3, <2>1, SerialFacts DEF Stage, Building, Putting, Unpinning, Removing
<1> QED
  BY <1>2, <1>3 DEF Throw

LEMMA SerialPut ==
  ASSUME IInv, SerialInv, NEW p \in Procs,
         Exists(p) \/ Store(p) \/ Provide(p) \/ Found(p)
  PROVE  Stage(op'[p], blocks', pins') /\ kept' \subseteq blocks' \cap pins' /\ got'[p] # "found"
<1> USE SerialFacts
<1>1. Putting(op[p]) /\ op[p].cid \in Cids /\ Cid(p) = op[p].cid /\ StoresIn
  BY Fields DEF Exists, Store, Provide, Found, At, Putting, LoopPcs, Cid, StoresUnchanged, StoresIn
<1>2. CASE \E pc \in {"found", "store", "provide"} : Goto(p, pc) /\ ~Found(p)
  <2>1. PICK pc \in {"found", "store", "provide"} : Goto(p, pc)
    BY <1>2
  <2>2. /\ op'[p].pc = pc /\ op'[p].kind = op[p].kind /\ op'[p].cid = op[p].cid
        /\ op'[p].then = op[p].then /\ op'[p].dones = op[p].dones
    BY <1>1, <2>1, GotoFacts DEF Pcs
  <2>3. blocks \subseteq blocks' /\ pins' = pins /\ kept' = kept /\ got' = got
    BY <1>2 DEF Exists, Store, Provide, StoresUnchanged, WantsUnchanged
  <2> QED
    BY <1>1, <2>2, <2>3 DEF Stage, Building, Putting, Unpinning, Removing, FetchPcs
<1>3. CASE Provide(p) /\ Finish(p)
  <2>1. Stage(op'[p], blocks', pins')
    BY <1>1, <1>3, FinishFacts, RestStage
  <2> QED
    BY <1>3, <2>1 DEF Provide, StoresUnchanged, WantsUnchanged
<1>4. CASE Found(p)
  <2> DEFINE pc == IF op[p].pin THEN "pin" ELSE "unpin"
             r == [op[p] EXCEPT !.pc = pc, !.pin = FALSE, !.cid = None, !.todo = {Cid(p)}]
  <2>1. pc \in Pcs \cap {"pin", "unpin"} /\ op[p] \in OpRecord /\ {Cid(p)} \in SUBSET Cids
    BY <1>1 DEF Pcs
  <2>2. OpAfter(p, r)
    BY <1>4 DEF Found
  <2> HIDE DEF pc
  <2>3. /\ r \in OpRecord /\ r.pc = pc /\ r.then = op[p].then
        /\ r.kind = op[p].kind /\ r.dones = op[p].dones
    BY <2>1 DEF OpRecord
  <2> HIDE DEF r
  <2>4. Agree(op'[p], r, pins')
    BY <1>1, <2>2, <2>3, OpStep DEF StoresIn
  <2>5. op[p].pc = "found" /\ p \notin wants[op[p].cid] /\ Settle(op[p].cid, "found")
    BY <1>1, <1>4 DEF Found, At, IInv, WantList, WaitPcs
  <2>6. got'[p] # "found"
    BY <1>1, <2>5, SettleFacts
  <2>7. blocks' = blocks /\ pins' = pins /\ kept' = kept
    BY <1>4 DEF Found, StoresUnchanged
  <2>8. Stage(op'[p], blocks, pins)
    BY <1>1, <2>1, <2>3, <2>4 DEF Agree, Stage, Building, Putting, Unpinning, Removing, FetchPcs
  <2> QED
    BY <2>6, <2>7, <2>8
<1> QED
  BY <1>2, <1>3, <1>4 DEF Exists, Store, Provide

LEMMA SerialPin ==
  ASSUME IInv, SerialInv, NEW p \in Procs,
         Pin(p) \/ Pinned(p) \/ PushLinks(p) \/ PinReturns(p)
  PROVE  Stage(op'[p], blocks', pins') /\ kept' \subseteq blocks' \cap pins' /\ got'[p] # "found"
<1> USE SerialFacts
<1>1. got' = got /\ StoresIn
  BY Fields DEF Pin, Pinned, PushLinks, PinReturns, At, StoresUnchanged, StoresIn, WantsUnchanged
<1>2. CASE Pin(p)
  <2>1. PICK c \in op[p].todo : /\ pins' = pins \cup {c} /\ UNCHANGED <<blocks, kept>>
                                /\ OpAfter(p, Fetch(p, c))
    BY <1>2 DEF Pin
  <2> DEFINE r == Fetch(p, c)
  <2>2. /\ r \in OpRecord /\ r.pc = "tryGet" /\ r.then = "pinned" /\ r.cid = c
        /\ r.kind = op[p].kind /\ r.dones = op[p].dones
    BY Fields, FetchRecord
  <2>3. OpAfter(p, r)
    BY <2>1
  <2> HIDE DEF r
  <2>4. Agree(op'[p], r, pins')
    BY <1>1, <2>2, <2>3, OpStep DEF StoresIn
  <2>5. op[p].dones \subseteq blocks \cap pins
    BY <1>2 DEF Pin, At, Stage, Building
  <2> QED
    BY <1>1, <2>1, <2>2, <2>4, <2>5
    DEF Agree, Stage, Building, Putting, Unpinning, Removing, FetchPcs
<1>3. CASE PinReturns(p)
  <2>1. Stage(op'[p], blocks', pins')
    BY <1>1, <1>3, FinishFacts, RestStage DEF PinReturns
  <2>2. op[p].dones \subseteq blocks \cap pins
    BY <1>3 DEF PinReturns, At, Stage, Building
  <2> QED
    BY <1>1, <1>3, <2>1, <2>2 DEF PinReturns
<1>4. CASE Pinned(p) \/ PushLinks(p)
  <2>1. /\ op[p].pc \in {"pinned", "push"} /\ op[p].cid \in Cids /\ Cid(p) = op[p].cid
        /\ Links[Cid(p)] \subseteq Cids
        /\ blocks' = blocks /\ pins' = pins /\ kept' = kept
    BY <1>4, Fields DEF Pinned, PushLinks, At, LoopPcs, Cid, StoresUnchanged
  <2>2. op[p].cid \in blocks \cap pins /\ op[p].dones \subseteq blocks \cap pins
    BY <2>1 DEF Stage, Building
  <2>3. ASSUME NEW r \in OpRecord, OpAfter(p, r), r.pc = "pin", r.then = "idle",
               r.dones = op[p].dones \cup {Cid(p)}
        PROVE  Stage(op'[p], blocks, pins)
    <3>1. Agree(op'[p], r, pins')
      BY <1>1, <2>3, OpStep DEF StoresIn
    <3> QED
      BY <2>1, <2>2, <2>3, <3>1 DEF Agree, Stage, Building, Putting, Unpinning, Removing
  <2>4. CASE OpAfter(p, [op[p] EXCEPT !.pc = "tryGet", !.then = "push"])
    <3> DEFINE r == [op[p] EXCEPT !.pc = "tryGet", !.then = "push"]
    <3>1. /\ r \in OpRecord /\ r.pc = "tryGet" /\ r.then = "push" /\ r.cid = op[p].cid
          /\ r.kind = op[p].kind /\ r.dones = op[p].dones
      BY LinksRecord
    <3>2. OpAfter(p, r)
      BY <2>4
    <3> HIDE DEF r
    <3>3. Agree(op'[p], r, pins')
      BY <1>1, <3>1, <3>2, OpStep DEF StoresIn
    <3>4. Stage(op'[p], blocks, pins)
      BY <2>2, <3>1, <3>3 DEF Agree, Stage, Building, Putting, Unpinning, Removing, FetchPcs
    <3> QED
      BY <1>1, <2>1, <3>4
  <2>5. CASE OpAfter(p, [Loop(p, "pin") EXCEPT !.dones = @ \cup {Cid(p)}])
    BY <1>1, <2>1, <2>3, <2>5, DoneRecord
  <2>6. CASE OpAfter(p, [Loop(p, "pin") EXCEPT !.todo = @ \cup Links[Cid(p)],
                                               !.dones = @ \cup {Cid(p)}])
    <3> DEFINE r == [Loop(p, "pin") EXCEPT !.todo = @ \cup Links[Cid(p)],
                                           !.dones = @ \cup {Cid(p)}]
    <3>1. OpAfter(p, r)
      BY <2>6
    <3>2. /\ r \in OpRecord /\ r.pc = "pin" /\ r.then = "idle"
          /\ r.dones = op[p].dones \cup {Cid(p)}
      BY <2>1, PushRecord
    <3> HIDE DEF r
    <3> QED
      BY <1>1, <2>1, <2>3, <3>1, <3>2
  <2> QED
    BY <1>4, <2>4, <2>5, <2>6 DEF Pinned, PushLinks
<1> QED
  BY <1>2, <1>3, <1>4

LEMMA SerialUnpin ==
  ASSUME IInv, SerialInv, NEW p \in Procs,
         Unpin(p) \/ Unpinned(p) \/ PushUnpinLinks(p) \/ UnpinReturns(p)
  PROVE  Stage(op'[p], blocks', pins') /\ kept' \subseteq blocks' \cap pins' /\ got'[p] # "found"
<1> USE SerialFacts
<1>1. /\ got' = got /\ StoresIn /\ op[p].pc \in {"unpin", "unpinned", "pushUnpin"}
      /\ op[p].dones = {} /\ op[p].kind \in {"put", "pinRemove"}
  BY Fields DEF Unpin, Unpinned, PushUnpinLinks, UnpinReturns, At, StoresUnchanged, StoresIn,
                WantsUnchanged, Stage, Unpinning
<1>2. ASSUME NEW r \in OpRecord, OpAfter(p, r), r.dones = {}, r.kind = op[p].kind,
             \/ r.pc \in {"unpin", "unpinned"} /\ r.then = "idle"
             \/ r.pc = "tryGet" /\ r.then = "pushUnpin"
      PROVE  Stage(op'[p], blocks', pins')
  <2>1. Agree(op'[p], r, pins')
    BY <1>1, <1>2, OpStep DEF StoresIn
  <2> QED
    BY <1>1, <1>2, <2>1 DEF Agree, Stage, Building, Putting, Unpinning, Removing, FetchPcs
<1>3. CASE Unpin(p)
  <2>1. PICK c \in op[p].todo :
          /\ pins' = pins \ {c} /\ kept' = GivenUp(p, c) /\ blocks' = blocks
          /\ OpAfter(p, IF op[p].deep
                        THEN [op[p] EXCEPT !.pc = "unpinned", !.cid = c, !.todo = @ \ {c}]
                        ELSE [op[p] EXCEPT !.todo = @ \ {c}])
    BY <1>3 DEF Unpin
  <2>2. /\ op[p].pc = "unpin" /\ op[p].then = "idle" /\ c \in Cids
        /\ op[p].todo \ {c} \in SUBSET Cids /\ "unpinned" \in Pcs
    BY <1>3, Fields DEF Unpin, At, Stage, FetchPcs, Pcs
  <2>3. kept' \subseteq blocks' \cap pins'
    BY <1>1, <2>1 DEF GivenUp
  <2> DEFINE r == IF op[p].deep
                  THEN [op[p] EXCEPT !.pc = "unpinned", !.cid = c, !.todo = @ \ {c}]
                  ELSE [op[p] EXCEPT !.todo = @ \ {c}]
  <2>4. OpAfter(p, r)
    BY <2>1
  <2>5. /\ r \in OpRecord /\ r.pc \in {"unpin", "unpinned"} /\ r.then = "idle"
        /\ r.kind = op[p].kind /\ r.dones = op[p].dones
    BY <2>2 DEF OpRecord
  <2> HIDE DEF r
  <2> QED
    BY <1>1, <1>2, <2>3, <2>4, <2>5
<1>4. CASE UnpinReturns(p)
  <2>1. Stage(op'[p], blocks', pins')
    BY <1>1, <1>4, FinishFacts, RestStage DEF UnpinReturns
  <2> QED
    BY <1>1, <1>4, <2>1 DEF UnpinReturns, StoresUnchanged
<1>5. CASE Unpinned(p) \/ PushUnpinLinks(p)
  <2>1. /\ Cid(p) \in Cids /\ Links[Cid(p)] \subseteq Cids
        /\ blocks' = blocks /\ pins' = pins /\ kept' = kept
    BY <1>5, Fields DEF Unpinned, PushUnpinLinks, At, LoopPcs, StoresUnchanged
  <2>2. CASE OpAfter(p, [op[p] EXCEPT !.pc = "tryGet", !.then = "pushUnpin"])
    <3> DEFINE r == [op[p] EXCEPT !.pc = "tryGet", !.then = "pushUnpin"]
    <3>1. /\ r \in OpRecord /\ r.pc = "tryGet" /\ r.then = "pushUnpin"
          /\ r.kind = op[p].kind /\ r.dones = op[p].dones
      BY LinksRecord
    <3>2. OpAfter(p, r)
      BY <2>2
    <3> HIDE DEF r
    <3> QED
      BY <1>1, <1>2, <2>1, <3>1, <3>2
  <2>3. CASE OpAfter(p, Loop(p, "unpin"))
    BY <1>1, <1>2, <2>1, <2>3, LoopRecord DEF Pcs
  <2>4. CASE OpAfter(p, [Loop(p, "unpin") EXCEPT !.todo = @ \cup Links[Cid(p)]])
    BY <1>1, <1>2, <2>1, <2>4, PushUnpinRecord
  <2> QED
    BY <1>5, <2>2, <2>3, <2>4 DEF Unpinned, PushUnpinLinks
<1> QED
  BY <1>3, <1>4, <1>5

LEMMA SerialGet ==
  ASSUME IInv, SerialInv, NEW p \in Procs,
         \/ TryGet(p) \/ Want(p) \/ ProvidersEnd(p) \/ ProvidersThrow(p)
         \/ Await(p) \/ StopQuery(p) \/ Cancel(p)
  PROVE  Stage(op'[p], blocks', pins') /\ kept' \subseteq blocks' \cap pins' /\ got'[p] # "found"
<1> USE SerialFacts
<1>1. /\ op[p].pc \in {"tryGet", "want", "providers", "await"} /\ Cid(p) = op[p].cid
      /\ op[p].cid \in Cids /\ blocks' = blocks /\ pins' = pins /\ kept' = kept /\ StoresIn
      /\ StoresUnchanged /\ ~StopQuery(p)
  BY Fields DEF TryGet, Want, ProvidersEnd, ProvidersThrow, Await, StopQuery, Cancel, At,
                StoresUnchanged, StoresIn, Stage, LoopPcs, Cid
<1>2. ASSUME NEW pc \in {"want", "providers", "await"}, Goto(p, pc)
      PROVE  Stage(op'[p], blocks', pins')
  <2>1. /\ op'[p].pc = pc /\ op'[p].kind = op[p].kind /\ op'[p].cid = op[p].cid
        /\ op'[p].then = op[p].then /\ op'[p].dones = op[p].dones
    BY <1>1, <1>2, GotoFacts DEF Pcs
  <2> QED
    BY <1>1, <2>1 DEF Stage, Building, Putting, Unpinning, Removing, FetchPcs
<1>3. got'[p] # "found"
  <2>1. CASE TryGet(p) \/ ProvidersEnd(p)
    BY <2>1 DEF TryGet, ProvidersEnd, WantsUnchanged
  <2>2. CASE Want(p) \/ ProvidersThrow(p) \/ Await(p)
    BY <2>2 DEF Want, ProvidersThrow, Await, IInv, TypeOK
  <2>3. CASE Cancel(p)
    <3>1. Settle(op[p].cid, "cancelled")
      BY <1>1, <2>3 DEF Cancel
    <3> QED
      BY <1>1, <3>1, SettleFacts
  <2> QED
    BY <1>1, <2>1, <2>2, <2>3
<1>4. CASE TryGet(p) /\ Return(p) /\ Cid(p) \in blocks
  <2>1. CASE Finish(p)
    BY <1>1, <1>3, <2>1, FinishFacts, RestStage
  <2>2. CASE op[p].then # "idle" /\ Goto(p, op[p].then)
    <3>1. /\ op'[p].pc = op[p].then /\ op'[p].kind = op[p].kind /\ op'[p].cid = op[p].cid
          /\ op'[p].then = op[p].then /\ op'[p].dones = op[p].dones
      <4>1. op[p].then \in Pcs
        BY DEF Pcs
      <4> QED
        BY <1>1, <2>2, <4>1, GotoFacts
    <3>2. Stage(op'[p], blocks', pins')
      BY <1>1, <1>4, <2>2, <3>1 DEF Stage, Building, Putting, Unpinning, Removing, FetchPcs
    <3> QED
      BY <1>1, <1>3, <3>2
  <2> QED
    BY <1>4, <2>1, <2>2 DEF Return
<1>5. CASE Throw(p)
  BY <1>1, <1>3, <1>5, ThrowStage
<1>6. CASE Cancel(p)
  BY <1>1, <1>3, <1>6 DEF Cancel
<1> QED
  BY <1>1, <1>2, <1>3, <1>4, <1>5, <1>6 DEF TryGet, Want, ProvidersEnd, ProvidersThrow, Await

LEMMA SerialRemove ==
  ASSUME IInv, SerialInv, NEW p \in Procs,
         \/ RemoveExists(p) \/ RemoveBlock(p) \/ RemovePin(p) \/ GcNext(p) \/ GcReturns(p)
  PROVE  Stage(op'[p], blocks', pins') /\ kept' \subseteq blocks' \cap pins' /\ got'[p] # "found"
<1> USE SerialFacts
<1>1. /\ got' = got /\ StoresIn /\ op[p].pc \in {"rmExists", "rmBlock", "rmPin", "gc"}
      /\ op[p].kind \in {"remove", "gc"} /\ op[p].then = "idle"
      /\ op[p].kind = "gc" /\ op[p].pc # "gc" => op[p].cid \notin pins
      /\ blocks' \subseteq blocks /\ pins' \subseteq pins
  BY DEF RemoveExists, RemoveBlock, RemovePin, GcNext, GcReturns, At, StoresUnchanged, StoresIn,
         WantsUnchanged, Stage, Removing, FetchPcs
<1>2. kept' \subseteq blocks' \cap pins'
  <2>1. CASE RemoveBlock(p) \/ RemovePin(p)
    BY <1>1, <2>1 DEF RemoveBlock, RemovePin, GivenUp, Cid, At
  <2>2. CASE RemoveExists(p) \/ GcNext(p) \/ GcReturns(p)
    BY <2>2 DEF RemoveExists, GcNext, GcReturns, StoresUnchanged
  <2> QED
    BY <2>1, <2>2
<1>3. CASE Finish(p)
  BY <1>1, <1>2, <1>3, FinishFacts, RestStage
<1>4. CASE op[p].kind = "gc" /\ OpAfter(p, Loop(p, "gc"))
  <2>1. op'[p].pc = "gc" /\ op'[p].then = "idle" /\ op'[p].kind = "gc"
    BY <1>1, <1>4, LoopFacts DEF Pcs
  <2> QED
    BY <1>1, <1>2, <2>1 DEF Stage, Building, Putting, Unpinning, Removing
<1>5. ASSUME op[p].pc # "gc", NEW pc \in {"rmBlock", "rmPin"}, Goto(p, pc)
      PROVE  Stage(op'[p], blocks', pins')
  <2>1. /\ op'[p].pc = pc /\ op'[p].kind = op[p].kind /\ op'[p].cid = op[p].cid
        /\ op'[p].then = "idle"
    BY <1>1, <1>5, GotoFacts DEF Pcs
  <2> QED
    BY <1>1, <1>5, <2>1 DEF Stage, Building, Putting, Unpinning, Removing
<1>6. CASE GcNext(p)
  <2>1. PICK c \in Unvisited(p) :
          OpAfter(p, IF IsPinned(c)
                     THEN [op[p] EXCEPT !.dones = @ \cup {c}]
                     ELSE [op[p] EXCEPT !.pc = "rmExists", !.cid = c, !.dones = @ \cup {c}])
    BY <1>6 DEF GcNext
  <2> DEFINE r == IF IsPinned(c)
                  THEN [op[p] EXCEPT !.dones = @ \cup {c}]
                  ELSE [op[p] EXCEPT !.pc = "rmExists", !.cid = c, !.dones = @ \cup {c}]
  <2>2. OpAfter(p, r)
    BY <2>1
  <2>3. c \in Cids /\ op[p].dones \cup {c} \in SUBSET Cids /\ "rmExists" \in Pcs
    BY Fields DEF Unvisited, Pcs
  <2>4. /\ r \in OpRecord /\ r.kind = op[p].kind /\ r.then = "idle"
        /\ r.pc = op[p].pc \/ (r.pc = "rmExists" /\ r.cid \notin pins)
    BY <1>1, <2>3 DEF OpRecord, IsPinned
  <2> HIDE DEF r
  <2>5. Agree(op'[p], r, pins')
    BY <1>1, <2>2, <2>4, OpStep DEF StoresIn
  <2>6. op[p].pc = "gc" /\ op[p].kind = "gc"
    BY <1>6 DEF GcNext, At, Stage
  <2> QED
    BY <1>1, <1>2, <2>4, <2>5, <2>6 DEF Agree, Stage, Building, Putting, Unpinning, Removing
<1> QED
  BY <1>1, <1>2, <1>3, <1>4, <1>5, <1>6
  DEF RemoveExists, RemoveBlock, RemovePin, RemoveReturns, GcReturns, At

LEMMA CallKinds ==
  ASSUME NEW c \in Cids, NEW b \in BOOLEAN,
         NEW r \in {CallPut(c, b), CallReceive(c), CallGet(c), CallRemove(c),
                    CallPinAdd(c, b), CallPinRemove(c, b), CallGc},
         r.kind # "receive"
  PROVE  /\ r.then = "idle" /\ r.dones = {}
         /\ \/ r.pc = "exists" /\ r.kind = "put"
            \/ r.pc \in {"tryGet", "pin"}
            \/ r.pc = "rmExists" /\ r.kind = "remove"
            \/ r.pc = "unpin" /\ r.kind = "pinRemove"
            \/ r.pc = "gc" /\ r.kind = "gc"
BY DEF Idle, CallPut, CallReceive, CallGet, CallRemove, CallPinAdd, CallPinRemove, CallGc

LEMMA SerialCall ==
  ASSUME IInv, SerialInv, "receive" \notin Kinds, NEW p \in Procs, Call(p)
  PROVE  Stage(op'[p], blocks', pins') /\ kept' \subseteq blocks' \cap pins' /\ got'[p] # "found"
<1> USE SerialFacts
<1>1. blocks' = blocks /\ pins' = pins /\ kept' = kept /\ got' = got
  BY DEF Call, StoresUnchanged, WantsUnchanged
<1>2. PICK c \in Cids, b \in BOOLEAN :
        \E r \in {CallPut(c, b), CallReceive(c), CallGet(c), CallRemove(c),
                  CallPinAdd(c, b), CallPinRemove(c, b), CallGc} :
          r.kind \in Kinds /\ op' = [op EXCEPT ![p] = r]
  BY DEF Call
<1>3. PICK r \in {CallPut(c, b), CallReceive(c), CallGet(c), CallRemove(c),
                  CallPinAdd(c, b), CallPinRemove(c, b), CallGc} :
        r.kind \in Kinds /\ op' = [op EXCEPT ![p] = r]
  BY <1>2
<1>4. op'[p] = r
  BY <1>3
<1>5. /\ r.then = "idle" /\ r.dones = {}
      /\ \/ r.pc = "exists" /\ r.kind = "put"
         \/ r.pc \in {"tryGet", "pin"}
         \/ r.pc = "rmExists" /\ r.kind = "remove"
         \/ r.pc = "unpin" /\ r.kind = "pinRemove"
         \/ r.pc = "gc" /\ r.kind = "gc"
  BY <1>3, CallKinds
<1>6. Stage(r, blocks, pins)
  BY <1>5 DEF Stage, Building, Putting, Unpinning, Removing
<1> QED
  BY <1>1, <1>4, <1>6

LEMMA SerialInit == Init => SerialInv
<1> SUFFICES ASSUME Init PROVE SerialInv
  OBVIOUS
<1>1. \A p \in Procs : op[p] = Idle /\ got[p] # "found"
  BY DEF Init
<1>2. Stage(Idle, blocks, pins)
  BY IdleRecord, RestStage
<1> QED
  BY <1>1, <1>2 DEF Init, SerialInv

LEMMA SerialNext ==
  ASSUME Alone
  PROVE  IInv /\ SerialInv /\ [Next]_vars => SerialInv'
<1> SUFFICES ASSUME IInv, SerialInv, [Next]_vars PROVE SerialInv'
  OBVIOUS
<1>1. PICK me : Procs = {me}
  BY DEF Alone
<1>2. ASSUME Call(me) \/ Step(me) \/ Cancel(me)
      PROVE  /\ Stage(op'[me], blocks', pins') /\ kept' \subseteq blocks' \cap pins'
             /\ got'[me] # "found"
  BY <1>1, <1>2, SerialCall, SerialPut, SerialPin, SerialUnpin, SerialGet, SerialRemove
  DEF Alone, Step
<1>3. CASE UNCHANGED vars
  BY <1>3 DEF vars, SerialInv
<1> QED
  BY <1>1, <1>2, <1>3 DEF Next, SerialInv

(* With a single caller, and no blocks sent by peers, what PinApi has      *)
(* pinned with success stays pinned and stored until the caller gives it   *)
(* up, collections of garbage included.                                    *)
THEOREM PinnedKeptByOneCaller ==
  ASSUME Alone
  PROVE  Spec => []PinnedIsKept
<1>1. SerialInv => PinnedIsKept
  BY DEF SerialInv, PinnedIsKept
<1>2. IInv /\ SerialInv /\ [Next]_vars => SerialInv'
  BY SerialNext
<1> QED
  BY <1>1, <1>2, SerialInit, Inductive, PTL DEF Spec
=============================================================================
