---------------------------- MODULE Repository -----------------------------
(***************************************************************************)
(* The local repository: the block store and the pin store (each one a     *)
(* FileStore, whose operations are atomic), the want list that ties Put to *)
(* the Gets in progress, and the operations of BlockApi, PinApi and        *)
(* BlockRepositoryApi over them.  No lock spans two stores, so every await *)
(* of the code is a point where the operations of other processes may run. *)
(* Bitswap.Found, WantAsync and Unwant are one step each here; module      *)
(* Bitswap has their inside.                                               *)
(***************************************************************************)
EXTENDS Naturals, FiniteSets

CONSTANTS
  Cids,          \* content ids whose block is stored in a file (not inline)
  Links,         \* [Cids -> SUBSET Cids], the DAG: the links in each block
  Procs,         \* the callers
  None,          \* no content id
  Kinds,         \* the operations the callers use
  ProvideFails   \* TRUE: Dht.ProvideAsync may throw (or be cancelled)

AllKinds == {"put", "receive", "get", "remove", "gc", "pinAdd", "pinRemove"}

ASSUME ConstantsAssumption ==
  /\ None \notin Cids
  /\ Links \in [Cids -> SUBSET Cids]
  /\ Kinds \subseteq AllKinds
  /\ ProvideFails \in BOOLEAN

VARIABLES
  blocks,   \* the keys of the block store
  pins,     \* the keys of the pin store
  wants,    \* [Cids -> SUBSET Procs], the consumers on the want list
  got,      \* [Procs -> ...], the state of the task each consumer awaits
  op,       \* the operation of each process
  kept,     \* history: pinned with success, and not given up by a user since
  owed      \* history: <<q, c>>: q was waiting for c when c was stored

vars == <<blocks, pins, wants, got, op, kept, owed>>

Pcs == {"idle", "exists", "store", "provide", "found", "pin", "pinned", "push",
        "unpin", "unpinned", "pushUnpin", "tryGet", "want", "providers", "await",
        "stopQuery", "rmExists", "rmBlock", "rmPin", "gc"}

OpRecord ==
  [ kind  : Kinds \cup {"none"},
    pc    : Pcs,
    cid   : Cids \cup {None},   \* the block in hand
    pin   : BOOLEAN,            \* PutAsync: the pin argument
    deep  : BOOLEAN,            \* Pin.Add, Pin.Remove: the recursive argument
    then  : Pcs,                \* GetAsync: where its caller goes on
    todo  : SUBSET Cids,        \* Pin.Add, Pin.Remove: the stack; gc: the files listed
    dones : SUBSET Cids,        \* Pin.Add: its result; gc: the files visited
    since : SUBSET Cids,        \* history, gc: blocks pinned ever since it started
    waste : SUBSET Cids ]       \* history, gc: blocks stored and unpinned ever since

Idle == [ kind |-> "none", pc |-> "idle", cid |-> None, pin |-> FALSE, deep |-> FALSE,
          then |-> "idle", todo |-> {}, dones |-> {}, since |-> {}, waste |-> {} ]

TypeOK ==
  /\ blocks \subseteq Cids
  /\ pins \subseteq Cids
  /\ wants \in [Cids -> SUBSET Procs]
  /\ got \in [Procs -> {"none", "pending", "found", "cancelled", "stopped"}]
  /\ op \in [Procs -> OpRecord]
  /\ kept \subseteq Cids
  /\ owed \subseteq Procs \X Cids

Init ==
  /\ blocks \in SUBSET Cids /\ pins \in SUBSET blocks   \* of an earlier session
  /\ kept = {} /\ owed = {}
  /\ wants = [c \in Cids |-> {}]
  /\ got = [p \in Procs |-> "none"]
  /\ op = [p \in Procs |-> Idle]

At(p, pc) == op[p].pc = pc
Cid(p) == op[p].cid

(* What p's operation becomes, and what the garbage collections in         *)
(* progress may still count on after blocks and pins have changed.         *)
OpAfter(p, r) ==
  op' = [q \in Procs |->
          LET o == IF q = p THEN r ELSE op[q] IN
          [o EXCEPT !.since = @ \cap pins', !.waste = (@ \cap blocks') \ pins']]

Goto(p, pc) == OpAfter(p, [op[p] EXCEPT !.pc = pc])

(* Back to the head of a loop over content ids.                            *)
Loop(p, pc) == [op[p] EXCEPT !.pc = pc, !.cid = None, !.then = "idle"]

(* The consumers of c are completed and c leaves the want list.            *)
Settle(c, status) ==
  /\ wants' = [wants EXCEPT ![c] = {}]
  /\ got' = [q \in Procs |-> IF q \in wants[c] THEN status ELSE got[q]]
  /\ owed' = {d \in owed : d[2] # c \/ d[1] \notin wants[c]}

StoresUnchanged == UNCHANGED <<blocks, pins, kept>>
WantsUnchanged == UNCHANGED <<wants, got, owed>>

-----------------------------------------------------------------------------
(* Calls                                                                   *)

(* PutAsync(data, pin); OnBlockReceivedAsync is PutAsync(data, pin: false) *)
(* on behalf of a remote peer.                                             *)
CallPut(c, pin) ==
  [Idle EXCEPT !.kind = "put", !.pc = "exists", !.cid = c, !.pin = pin]
CallReceive(c) == [Idle EXCEPT !.kind = "receive", !.pc = "exists", !.cid = c]
CallGet(c) == [Idle EXCEPT !.kind = "get", !.pc = "tryGet", !.cid = c]
CallRemove(c) == [Idle EXCEPT !.kind = "remove", !.pc = "rmExists", !.cid = c]
CallPinAdd(c, deep) ==
  [Idle EXCEPT !.kind = "pinAdd", !.pc = "pin", !.deep = deep, !.todo = {c}]
CallPinRemove(c, deep) ==
  [Idle EXCEPT !.kind = "pinRemove", !.pc = "unpin", !.deep = deep, !.todo = {c}]
CallGc == [Idle EXCEPT !.kind = "gc", !.pc = "gc", !.todo = blocks,
                       !.since = pins, !.waste = blocks \ pins]

Call(p) ==
  /\ At(p, "idle")
  /\ \E c \in Cids, b \in BOOLEAN :
       \E r \in {CallPut(c, b), CallReceive(c), CallGet(c), CallRemove(c),
                 CallPinAdd(c, b), CallPinRemove(c, b), CallGc} :
         r.kind \in Kinds /\ op' = [op EXCEPT ![p] = r]
  /\ StoresUnchanged /\ WantsUnchanged

Finish(p) == OpAfter(p, Idle)

-----------------------------------------------------------------------------
(* BlockApi.PutAsync                                                       *)

Exists(p) ==
  /\ At(p, "exists")
  /\ StoresUnchanged /\ WantsUnchanged
  /\ Goto(p, IF Cid(p) \in blocks THEN "found" ELSE "store")

Store(p) ==
  /\ At(p, "store")
  /\ blocks' = blocks \cup {Cid(p)}
  /\ owed' = owed \cup (wants[Cid(p)] \X {Cid(p)})
  /\ UNCHANGED <<pins, kept, wants, got>>
  /\ Goto(p, "provide")

(* Mutant of Provide: Found is not called.                                 *)
ProvideForgetsFound(p) ==
  /\ At(p, "provide") /\ StoresUnchanged /\ WantsUnchanged
  /\ Finish(p)

Provide(p) ==
  /\ At(p, "provide")
  /\ StoresUnchanged /\ WantsUnchanged
  /\ Goto(p, "found") \/ (ProvideFails /\ Finish(p))

(* Found, then Pin.AddAsync or Pin.RemoveAsync, not recursive.             *)
Found(p) ==
  /\ At(p, "found")
  /\ Settle(Cid(p), "found")
  /\ StoresUnchanged
  /\ OpAfter(p, [op[p] EXCEPT !.pc = IF op[p].pin THEN "pin" ELSE "unpin",
                              !.pin = FALSE, !.cid = None, !.todo = {Cid(p)}])

-----------------------------------------------------------------------------
(* PinApi.AddAsync: pin, fetch, go on with the links                       *)

(* Mutant: the content is not fetched.                                     *)
Unfetched(p, c) == [op[p] EXCEPT !.pc = "pinned", !.cid = c, !.todo = @ \ {c}]
Fetch(p, c) ==
  [op[p] EXCEPT !.pc = "tryGet", !.then = "pinned", !.cid = c, !.todo = @ \ {c}]

Pin(p) ==
  /\ At(p, "pin")
  /\ \E c \in op[p].todo :
       /\ pins' = pins \cup {c}
       /\ UNCHANGED <<blocks, kept>>
       /\ OpAfter(p, Fetch(p, c))
  /\ WantsUnchanged

(* The content is here.  ObjectApi.LinksAsync gets it a second time.       *)
Pinned(p) ==
  /\ At(p, "pinned")
  /\ StoresUnchanged /\ WantsUnchanged
  /\ IF op[p].deep /\ Links[Cid(p)] # {}
     THEN OpAfter(p, [op[p] EXCEPT !.pc = "tryGet", !.then = "push"])
     ELSE OpAfter(p, [Loop(p, "pin") EXCEPT !.dones = @ \cup {Cid(p)}])

PushLinks(p) ==
  /\ At(p, "push")
  /\ StoresUnchanged /\ WantsUnchanged
  /\ OpAfter(p, [Loop(p, "pin") EXCEPT !.todo = @ \cup Links[Cid(p)],
                                       !.dones = @ \cup {Cid(p)}])

PinReturns(p) ==
  /\ At(p, "pin") /\ op[p].todo = {}
  /\ kept' = kept \cup op[p].dones
  /\ UNCHANGED <<blocks, pins>> /\ WantsUnchanged
  /\ Finish(p)

-----------------------------------------------------------------------------
(* PinApi.RemoveAsync                                                      *)

(* A user who removes a pin gives the block up; a remote peer who sends it *)
(* does not speak for him.                                                 *)
GivenUp(p, c) == IF op[p].kind \in {"put", "pinRemove", "remove"} THEN kept \ {c} ELSE kept

Unpin(p) ==
  /\ At(p, "unpin")
  /\ \E c \in op[p].todo :
       /\ pins' = pins \ {c}
       /\ kept' = GivenUp(p, c)
       /\ blocks' = blocks
       /\ OpAfter(p, IF op[p].deep
                     THEN [op[p] EXCEPT !.pc = "unpinned", !.cid = c, !.todo = @ \ {c}]
                     ELSE [op[p] EXCEPT !.todo = @ \ {c}])
  /\ WantsUnchanged

(* IsLocallyAvailable, then the links; an exception is swallowed.          *)
Unpinned(p) ==
  /\ At(p, "unpinned")
  /\ StoresUnchanged /\ WantsUnchanged
  /\ IF Cid(p) \in blocks /\ Links[Cid(p)] # {}
     THEN OpAfter(p, [op[p] EXCEPT !.pc = "tryGet", !.then = "pushUnpin"])
     ELSE OpAfter(p, Loop(p, "unpin"))

PushUnpinLinks(p) ==
  /\ At(p, "pushUnpin")
  /\ StoresUnchanged /\ WantsUnchanged
  /\ OpAfter(p, [Loop(p, "unpin") EXCEPT !.todo = @ \cup Links[Cid(p)]])

UnpinReturns(p) ==
  /\ At(p, "unpin") /\ op[p].todo = {}
  /\ StoresUnchanged /\ WantsUnchanged
  /\ Finish(p)

-----------------------------------------------------------------------------
(* BlockApi.GetAsync                                                       *)

(* GetAsync returns the block, or throws, to its caller.                   *)
Return(p) == IF op[p].then = "idle" THEN Finish(p) ELSE Goto(p, op[p].then)
Throw(p) == IF op[p].then = "pushUnpin" THEN OpAfter(p, Loop(p, "unpin")) ELSE Finish(p)

TryGet(p) ==
  /\ At(p, "tryGet")
  /\ StoresUnchanged /\ WantsUnchanged
  /\ IF Cid(p) \in blocks THEN Return(p) ELSE Goto(p, "want")

Listed(p) == wants[Cid(p)] \cup {p}

(* ipfs.Bitswap.GetAsync is started: WantAsync.                            *)
Want(p) ==
  /\ At(p, "want")
  /\ wants' = [wants EXCEPT ![Cid(p)] = Listed(p)]
  /\ got' = [got EXCEPT ![p] = "pending"]
  /\ StoresUnchanged /\ UNCHANGED owed
  /\ Goto(p, "providers")

(* The providers found by the DHT (external) are enumerated to the end.    *)
ProvidersEnd(p) ==
  /\ At(p, "providers")
  /\ StoresUnchanged /\ WantsUnchanged
  /\ Goto(p, "await")

(* The query throws, and so does GetAsync.  Its consumer stays on the want *)
(* list, but nobody awaits it and it is no longer counted here.            *)
ProvidersThrow(p) ==
  /\ At(p, "providers")
  /\ wants' = [wants EXCEPT ![Cid(p)] = @ \ {p}]
  /\ got' = [got EXCEPT ![p] = "none"]
  /\ owed' = {d \in owed : d[1] # p}
  /\ StoresUnchanged
  /\ Throw(p)

(* await bitswapGet.                                                       *)
Await(p) ==
  /\ At(p, "await") /\ got[p] # "pending"
  /\ got' = [got EXCEPT ![p] = "none"]
  /\ StoresUnchanged /\ UNCHANGED <<wants, owed>>
  /\ IF got[p] = "found" THEN Goto(p, "stopQuery") ELSE Throw(p)

(* queryCancel.Cancel: "stop the network query"; the registration of       *)
(* WantAsync makes it Unwant(id) as well.                                  *)
StopQuery(p) ==
  /\ At(p, "stopQuery")
  /\ Settle(Cid(p), "stopped")
  /\ StoresUnchanged
  /\ Return(p)

(* The caller cancels a get that waits; its token is linked to queryCancel. *)
Cancel(p) ==
  /\ op[p].pc \in {"providers", "await"} /\ got[p] = "pending"
  /\ Settle(Cid(p), "cancelled")
  /\ StoresUnchanged /\ UNCHANGED op

-----------------------------------------------------------------------------
(* BlockApi.RemoveAsync and BlockRepositoryApi.RemoveGarbageAsync          *)

(* Mutant: the collection ends with its first removal.                     *)
RemoveEndsGc(p) == Finish(p)
RemoveReturns(p) == IF op[p].kind = "gc" THEN OpAfter(p, Loop(p, "gc")) ELSE Finish(p)

RemoveExists(p) ==
  /\ At(p, "rmExists")
  /\ StoresUnchanged /\ WantsUnchanged
  /\ IF Cid(p) \in blocks THEN Goto(p, "rmBlock") ELSE RemoveReturns(p)

RemoveBlock(p) ==
  /\ At(p, "rmBlock")
  /\ blocks' = blocks \ {Cid(p)}
  /\ kept' = GivenUp(p, Cid(p))
  /\ pins' = pins /\ WantsUnchanged
  /\ Goto(p, "rmPin")

RemovePin(p) ==
  /\ At(p, "rmPin")
  /\ pins' = pins \ {Cid(p)}
  /\ kept' = GivenUp(p, Cid(p))
  /\ blocks' = blocks /\ WantsUnchanged
  /\ RemoveReturns(p)

(* Mutants: pins are not looked up; visited files are listed again.        *)
NeverPinned(c) == FALSE
IsPinned(c) == c \in pins
Relisted(p) == op[p].todo \cup blocks
Unvisited(p) == (op[p].todo \cup blocks) \ op[p].dones

(* The next file of the listing (which may show files added meanwhile);    *)
(* it is removed unless it is pinned.                                      *)
GcNext(p) ==
  /\ At(p, "gc")
  /\ StoresUnchanged /\ WantsUnchanged
  /\ \E c \in Unvisited(p) :
       OpAfter(p, IF IsPinned(c)
                  THEN [op[p] EXCEPT !.dones = @ \cup {c}]
                  ELSE [op[p] EXCEPT !.pc = "rmExists", !.cid = c, !.dones = @ \cup {c}])

GcReturns(p) ==
  /\ At(p, "gc") /\ op[p].todo \cap blocks \subseteq op[p].dones
  /\ StoresUnchanged /\ WantsUnchanged
  /\ Finish(p)

-----------------------------------------------------------------------------
Step(p) ==
  \/ Exists(p) \/ Store(p) \/ Provide(p) \/ Found(p)
  \/ Pin(p) \/ Pinned(p) \/ PushLinks(p) \/ PinReturns(p)
  \/ Unpin(p) \/ Unpinned(p) \/ PushUnpinLinks(p) \/ UnpinReturns(p)
  \/ TryGet(p) \/ Want(p) \/ ProvidersEnd(p) \/ ProvidersThrow(p) \/ Await(p) \/ StopQuery(p)
  \/ RemoveExists(p) \/ RemoveBlock(p) \/ RemovePin(p) \/ GcNext(p) \/ GcReturns(p)

Next == \E p \in Procs : Call(p) \/ Step(p) \/ Cancel(p)

Spec == Init /\ [][Next]_vars

(* An operation in progress gets its turns; nobody has to cancel a get.    *)
FairSpec == Spec /\ \A p \in Procs : WF_vars(Step(p))

-----------------------------------------------------------------------------
(* Whatever the interleaving.                                              *)

(* A garbage collection never deletes a block that was pinned when it      *)
(* started and has been pinned ever since.                                 *)
GcSparesPinned ==
  \A p \in Procs : At(p, "rmBlock") /\ op[p].kind = "gc" => Cid(p) \notin op[p].since

(* ... and when it ends, no block is left that was there, unpinned, all    *)
(* the while: "it enumerates the local set of blocks and remove ones that  *)
(* are not pinned".                                                        *)
GcCollectsGarbage ==
  [][\A p \in Procs :
      op[p].kind = "gc" /\ op'[p].kind # "gc" => op[p].waste = {}]_vars

(* A consumer that was on the want list when its block was stored is       *)
(* continued: as long as it still waits, some Put of the block is on its   *)
(* way to Found.                                                           *)
EarlyWaiterContinued ==
  \A d \in owed : \E p \in Procs : op[p].pc \in {"provide", "found"} /\ Cid(p) = d[2]

(* Every operation ends, unless it waits for a block nobody has sent: the  *)
(* loops over files and links end while other operations add and remove.   *)
Waits(p) == At(p, "await") /\ got[p] = "pending"
OperationsEnd == \A p \in Procs : ~At(p, "idle") ~> At(p, "idle") \/ Waits(p)

-----------------------------------------------------------------------------
(* What a user is told, and what overlapping operations make of it.        *)

(* Pinned data "is important and mustn't be thrown away": what was pinned  *)
(* with success is pinned and stored until a user gives it up.             *)
PinnedIsKept == kept \subseteq blocks \cap pins
=============================================================================
