------------------------------ MODULE Bitswap ------------------------------
(***************************************************************************)
(* The want list of src/BlockExchange/Bitswap.cs at the granularity of its *)
(* threads.  WantAsync, Unwant, Found, StopAsync and the callbacks of      *)
(* cancellation tokens run on any thread of the pool and share `wants', a  *)
(* ConcurrentDictionary whose values (WantedBlock) hold a plain List of    *)
(* the TaskCompletionSources to complete.                                  *)
(*                                                                         *)
(* A call of WantAsync is named by the task it returns, and a WantedBlock  *)
(* by the call that created it (a call inserts at most one).  Every access *)
(* to shared state is a step of its own:                                   *)
(*   - AddOrUpdate looks the entry up, runs the update delegate outside    *)
(*     the dictionary's lock and publishes with a compare-and-swap;        *)
(*   - List.Add reads the list and writes it back, so that two overlapping *)
(*     calls lose a consumer;                                              *)
(*   - foreach over a list throws when the list changes under it, and      *)
(*     SetResult/SetCanceled throw on a task that is already completed.    *)
(***************************************************************************)
EXTENDS Naturals, FiniteSets

CONSTANTS
  Cids,        \* content ids
  Tasks,       \* the calls of WantAsync
  Workers,     \* threads that call Found, Unwant, StopAsync or cancel a token
  Tokens,      \* cancellation tokens, each passed to any number of calls
  None,        \* no entry, no object, no token
  Concurrent   \* FALSE: a call starts only when no other call is in progress

ASSUME ConstantsAssumption ==
  /\ None \notin Cids \cup Tasks \cup Workers \cup Tokens
  /\ Tasks \cap Workers = {}
  /\ Concurrent \in BOOLEAN

Threads == Tasks \cup Workers

VARIABLES
  wants,       \* [Cids -> Tasks \cup {None}], the dictionary
  consumers,   \* [Tasks -> SUBSET Tasks], WantedBlock.Consumers
  outcome,     \* the state of each task
  call,        \* the control state of each thread
  regs,        \* live registrations cancel.Register(() => Unwant(id))
  cancelled,   \* tokens that were cancelled
  announced    \* <<t, o>>: call t sent object o to all peers and raised BlockNeeded

vars == <<wants, consumers, outcome, call, regs, cancelled, announced>>

Resting == {"idle", "returned", "threw"}
WantPcs == {"lookup", "adding", "publish", "register", "announce"}
SignalPcs == {"remove", "removed", "signal"}

CallRecord ==
  [ pc    : Resting \cup WantPcs \cup SignalPcs \cup {"next"},
    op    : {"none", "want", "found", "unwant", "cancel", "stop"},
    cid   : Cids \cup {None},     \* the block the call is about
    token : Tokens \cup {None},   \* WantAsync: its token; cancel: the cancelled one
    want  : Tasks \cup {None},    \* WantAsync: the object AddOrUpdate works on
    block : Tasks \cup {None},    \* Found, Unwant: the object they removed
    seen  : SUBSET Tasks,         \* its consumers as this thread last read them
    todo  : SUBSET Tasks,         \* consumers the foreach has still to complete
    queue : SUBSET Cids,          \* content ids still to Unwant (or the one found)
    failed : BOOLEAN ]            \* Cancel: a callback has thrown

Idle == [ pc |-> "idle", op |-> "none", cid |-> None, token |-> None,
          want |-> None, block |-> None, seen |-> {}, todo |-> {}, queue |-> {},
          failed |-> FALSE ]

Outcome == [ status : {"unused", "pending", "found", "cancelled"},
             value  : Cids \cup Tokens \cup {None} ]

TypeOK ==
  /\ wants \in [Cids -> Tasks \cup {None}]
  /\ consumers \in [Tasks -> SUBSET Tasks]
  /\ outcome \in [Tasks -> Outcome]
  /\ call \in [Threads -> CallRecord]
  /\ regs \subseteq Tokens \X Cids
  /\ cancelled \subseteq Tokens
  /\ announced \subseteq Tasks \X Tasks

Init ==
  /\ wants = [c \in Cids |-> None]
  /\ consumers = [t \in Tasks |-> {}]
  /\ outcome = [t \in Tasks |-> [status |-> "unused", value |-> None]]
  /\ call = [x \in Threads |-> Idle]
  /\ regs = {}
  /\ cancelled = {}
  /\ announced = {}

At(x, pc) == call[x].pc = pc

MayStart == Concurrent \/ \A x \in Threads : call[x].pc \in Resting

-----------------------------------------------------------------------------
(* WantAsync(id, peer, cancel)                                             *)

WantAsync(t, c, k) ==
  /\ At(t, "idle") /\ MayStart
  /\ outcome' = [outcome EXCEPT ![t] = [status |-> "pending", value |-> None]]
  /\ call' = [call EXCEPT ![t] = [Idle EXCEPT !.pc = "lookup", !.op = "want",
                                              !.cid = c, !.token = k]]
  /\ UNCHANGED <<wants, consumers, regs, cancelled, announced>>

(* Mutant: the entry of another key does as well.                          *)
AnyEntry(t) ==
  IF wants[call[t].cid] = None /\ \E c \in Cids : wants[c] # None
  THEN wants[CHOOSE c \in Cids : wants[c] # None] ELSE wants[call[t].cid]

(* The entry AddOrUpdate finds under its key.                              *)
Entry(t) == wants[call[t].cid]

(* AddOrUpdate, the key is absent: the add delegate's object is inserted.  *)
Insert(t) ==
  /\ At(t, "lookup") /\ Entry(t) = None
  /\ wants' = [wants EXCEPT ![call[t].cid] = t]
  /\ consumers' = [consumers EXCEPT ![t] = {t}]
  /\ call' = [call EXCEPT ![t].pc = "register", ![t].want = t]
  /\ UNCHANGED <<outcome, regs, cancelled, announced>>

(* AddOrUpdate, the key is present: the update delegate starts its Add.    *)
Update(t) ==
  LET o == Entry(t) IN
  /\ At(t, "lookup") /\ o # None
  /\ call' = [call EXCEPT ![t].pc = "adding", ![t].want = o, ![t].seen = consumers[o]]
  /\ UNCHANGED <<wants, consumers, outcome, regs, cancelled, announced>>

(* Mutant: a new list takes the place of the old one.                      *)
OnlyNew(t) == {t}

(* block.Consumers.Add(tsc) writes back what it read, plus the new task.   *)
Appended(t) == call[t].seen \cup {t}

AddConsumer(t) ==
  /\ At(t, "adding")
  /\ consumers' = [consumers EXCEPT ![call[t].want] = Appended(t)]
  /\ call' = [call EXCEPT ![t].pc = "publish"]
  /\ UNCHANGED <<wants, outcome, regs, cancelled, announced>>

(* Mutant: a retry after success, none after failure.                      *)
Replaced(t) == wants[call[t].cid] # call[t].want

(* Is the object still the entry of its key?                               *)
Unchanged(t) == wants[call[t].cid] = call[t].want

(* Mutant of Publish: a plain store.                                       *)
PublishBlindly(t) ==
  /\ At(t, "publish")
  /\ wants' = [wants EXCEPT ![call[t].cid] = call[t].want]
  /\ call' = [call EXCEPT ![t].pc = "register", ![t].seen = {}]
  /\ UNCHANGED <<consumers, outcome, regs, cancelled, announced>>

(* The compare-and-swap: on failure AddOrUpdate starts over, and the task  *)
(* stays in the list of the object that was removed meanwhile.             *)
Publish(t) ==
  /\ At(t, "publish")
  /\ call' = [call EXCEPT ![t].pc = IF Unchanged(t) THEN "register" ELSE "lookup",
                           ![t].seen = {}]
  /\ UNCHANGED <<wants, consumers, outcome, regs, cancelled, announced>>

(* Mutant: the parts swapped.                                              *)
SwappedRegistration(t) == <<call[t].cid, call[t].token>>
Registration(t) == <<call[t].token, call[t].cid>>

(* cancel.Register(() => Unwant(id)): nothing ever disposes of the         *)
(* registration; with a token already cancelled Unwant runs at once, and   *)
(* CancellationToken.None (the default) registers nothing.                 *)
Register(t) ==
  /\ At(t, "register")
  /\ IF call[t].token \in cancelled
     THEN /\ call' = [call EXCEPT ![t].pc = "remove", ![t].op = "cancel"]
          /\ regs' = regs
     ELSE /\ call' = [call EXCEPT ![t].pc = "announce"]
          /\ regs' = IF call[t].token = None THEN regs
                      ELSE regs \cup {Registration(t)}
  /\ UNCHANGED <<wants, consumers, outcome, cancelled, announced>>

(* Mutants: no test of the count, and the count off by one.                *)
AnyConsumers(o) == TRUE
TwoConsumers(o) == \E u, v \in Tasks : u # v /\ consumers[o] = {u, v}

OneConsumer(o) == \E u \in Tasks : consumers[o] = {u}

(* if (want.Consumers.Count == 1) tell the peers and raise BlockNeeded.    *)
Announce(t) ==
  LET o == call[t].want IN
  /\ At(t, "announce")
  /\ announced' = IF OneConsumer(o)
                  THEN announced \cup {<<t, o>>} ELSE announced
  /\ call' = [call EXCEPT ![t].pc = "returned", ![t].want = None]
  /\ UNCHANGED <<wants, consumers, outcome, regs, cancelled>>

-----------------------------------------------------------------------------
(* The body shared by Found and Unwant, run by thread x: remove the entry, *)
(* then complete its consumers one by one.                                 *)

(* Where a thread goes when Unwant or Found returns, and when it throws:   *)
(* Cancel(false) runs all of its callbacks and throws what they threw at   *)
(* the end, any other caller is abandoned at once.                         *)
Goto(x, pc) == call' = [call EXCEPT ![x].pc = pc, ![x].block = None,
                                    ![x].seen = {}, ![x].todo = {}]
Return(x) == Goto(x, IF x \in Tasks THEN "announce" ELSE "next")
Cancelling(x) == x \in Workers /\ call[x].op = "cancel"
Throw(x) ==
  IF Cancelling(x)
  THEN call' = [call EXCEPT ![x].pc = "next", ![x].failed = TRUE, ![x].block = None,
                            ![x].seen = {}, ![x].todo = {}]
  ELSE Goto(x, "threw")

(* Mutant: TryGetValue in place of TryRemove.                              *)
KeepEntry(c) == wants
DropEntry(c) == [wants EXCEPT ![c] = None]

TryRemove(x) ==
  LET o == wants[call[x].cid] IN
  /\ At(x, "remove")
  /\ wants' = DropEntry(call[x].cid)
  /\ IF o = None THEN Return(x)
     ELSE call' = [call EXCEPT ![x].pc = "removed", ![x].block = o]
  /\ UNCHANGED <<consumers, outcome, regs, cancelled, announced>>

(* GetEnumerator: the list must not change from here on.                   *)
Enumerate(x) ==
  LET s == consumers[call[x].block] IN
  /\ At(x, "removed")
  /\ call' = [call EXCEPT ![x].pc = "signal", ![x].seen = s, ![x].todo = s]
  /\ UNCHANGED <<wants, consumers, outcome, regs, cancelled, announced>>

Settled(x) ==
  IF call[x].op = "found" THEN [status |-> "found", value |-> call[x].cid]
                          ELSE [status |-> "cancelled", value |-> call[x].token]

(* One consumer.SetResult or consumer.SetCanceled.                         *)
Complete(x, u) ==
  /\ At(x, "signal") /\ u \in call[x].todo
  /\ consumers[call[x].block] = call[x].seen
  /\ outcome[u].status = "pending"
  /\ outcome' = [outcome EXCEPT ![u] = Settled(x)]
  /\ call' = [call EXCEPT ![x].todo = @ \ {u}]
  /\ UNCHANGED <<wants, consumers, regs, cancelled, announced>>

(* InvalidOperationException: the list was modified, or u is completed.    *)
(* The consumers left in todo are signalled by nobody.                     *)
CompletionThrows(x) ==
  /\ At(x, "signal")
  /\ \/ consumers[call[x].block] # call[x].seen
     \/ \E u \in call[x].todo : outcome[u].status # "pending"
  /\ Throw(x)
  /\ UNCHANGED <<wants, consumers, outcome, regs, cancelled, announced>>

AllCompleted(x) ==
  /\ At(x, "signal") /\ call[x].todo = {}
  /\ consumers[call[x].block] = call[x].seen
  /\ Return(x)
  /\ UNCHANGED <<wants, consumers, outcome, regs, cancelled, announced>>

-----------------------------------------------------------------------------
(* The calls of the workers                                                *)

Begin(w, op, k, q) ==
  /\ call[w].pc \in Resting /\ MayStart
  /\ call' = [call EXCEPT ![w] = [Idle EXCEPT !.pc = "next", !.op = op,
                                              !.token = k, !.queue = q]]

Found(w, c) ==
  /\ Begin(w, "found", None, {c})
  /\ UNCHANGED <<wants, consumers, outcome, regs, cancelled, announced>>

Unwant(w, c) ==
  /\ Begin(w, "unwant", None, {c})
  /\ UNCHANGED <<wants, consumers, outcome, regs, cancelled, announced>>

(* foreach (var cid in wants.Keys) Unwant(cid), over a snapshot of Keys.   *)
StopAsync(w) ==
  /\ Begin(w, "stop", None, {c \in Cids : wants[c] # None})
  /\ UNCHANGED <<wants, consumers, outcome, regs, cancelled, announced>>

(* Mutant: the whole want list, as StopAsync does.                         *)
WholeList(k) == {c \in Cids : wants[c] # None}

(* The content ids to Unwant: the callbacks registered with token k.       *)
Callbacks(k) == {c \in Cids : <<k, c>> \in regs}

(* The owner of token k cancels it: its callbacks run on this thread,      *)
(* whatever became of the calls that registered them.                      *)
CancelToken(w, k) ==
  /\ k \notin cancelled
  /\ Begin(w, "cancel", k, Callbacks(k))
  /\ cancelled' = cancelled \cup {k}
  /\ regs' = {r \in regs : r[1] # k}
  /\ UNCHANGED <<wants, consumers, outcome, announced>>

(* The next content id to find or to Unwant, or the end of the call: after *)
(* its last callback Cancel throws an AggregateException if one of them    *)
(* has thrown.                                                             *)
NextCid(w) ==
  /\ At(w, "next")
  /\ \/ \E c \in call[w].queue :
          call' = [call EXCEPT ![w].pc = "remove", ![w].cid = c,
                               ![w].queue = @ \ {c}]
     \/ /\ call[w].queue = {}
        /\ call' = [call EXCEPT ![w] = IF call[w].failed THEN [Idle EXCEPT !.pc = "threw"]
                                                        ELSE Idle]
  /\ UNCHANGED <<wants, consumers, outcome, regs, cancelled, announced>>

-----------------------------------------------------------------------------
Signal(x) ==
  TryRemove(x) \/ Enumerate(x) \/ CompletionThrows(x) \/ AllCompleted(x)
    \/ \E u \in Tasks : Complete(x, u)

(* The steps of a call that has started, and the calls the program may make. *)
TaskStep(t) == Insert(t) \/ Update(t) \/ AddConsumer(t) \/ Publish(t)
                 \/ Register(t) \/ Announce(t) \/ Signal(t)
WorkerStep(w) == NextCid(w) \/ Signal(w)
Calls == \/ \E t \in Tasks, c \in Cids, k \in Tokens \cup {None} : WantAsync(t, c, k)
         \/ \E w \in Workers, c \in Cids : Found(w, c) \/ Unwant(w, c)
         \/ \E w \in Workers : StopAsync(w)
         \/ \E w \in Workers, k \in Tokens : CancelToken(w, k)

Next == Calls \/ (\E t \in Tasks : TaskStep(t)) \/ (\E w \in Workers : WorkerStep(w))

Spec == Init /\ [][Next]_vars

(* Threads of the pool are scheduled: a call in progress gets its steps.   *)
Fairness == /\ \A t \in Tasks : WF_vars(TaskStep(t))
            /\ \A w \in Workers : WF_vars(WorkerStep(w))

FairSpec == Spec /\ Fairness

-----------------------------------------------------------------------------
(* Whatever the interleaving.                                              *)

(* A task only ever completes with the block it was asked for: the want    *)
(* list never hands the block of one content id to a consumer of another,  *)
(* however AddOrUpdate is retried and lists are shared.                    *)
RightBlock ==
  \A t \in Tasks : outcome[t].status = "found" => outcome[t].value = call[t].cid

(* Cancelling a token reaches every task that waits for the same block as  *)
(* a call that passed the token (its callback is Unwant of the whole       *)
(* entry), and no task that waits for another block.  Value None: the      *)
(* thread was in Unwant or StopAsync.                                      *)
CancelStaysWithinBlock ==
  \A t \in Tasks :
    outcome[t].status = "cancelled" /\ outcome[t].value # None
      => \E u \in Tasks : call[u].cid = call[t].cid /\ call[u].token = outcome[t].value

(* BlockNeeded "is only raised when a block is first requested": only the  *)
(* call that created a want entry announces it, never one that joined it.  *)
AnnouncedByCreator == \A a \in announced : a[1] = a[2]

(* An object that left the dictionary never comes back: nobody waits on an *)
(* entry that Found or Unwant is already completing.                       *)
Listed(o) == \E c \in Cids : wants[c] = o
RemovedForGood ==
  [][\A o \in Tasks : o \in consumers[o] /\ ~Listed(o) => ~Listed(o)']_vars

(* Every call of WantAsync returns or throws: the retries of AddOrUpdate   *)
(* come to an end.                                                         *)
WantAsyncReturns ==
  \A t \in Tasks : call[t].pc = "lookup" ~> call[t].pc \in {"returned", "threw"}

-----------------------------------------------------------------------------
(* When calls do not overlap (Concurrent = FALSE).                         *)

(* A task that is still pending after its call returned is on the want     *)
(* list, or some thread is about to complete it: nothing else could ever   *)
(* continue it (Found: "will continue any Task that is waiting").          *)
OnList(t) == \E c \in Cids : wants[c] # None /\ t \in consumers[wants[c]]
InHand(t) == \E x \in Threads : \/ t \in call[x].todo
                                \/ call[x].pc = "removed" /\ t \in consumers[call[x].block]
NoConsumerLost ==
  \A t \in Tasks : outcome[t].status = "pending" /\ call[t].pc \in {"returned", "threw"}
                     => OnList(t) \/ InHand(t)

(* Found, Unwant and StopAsync never complete a task twice and never see a *)
(* list change under them, and neither does a callback of a token: Cancel  *)
(* has no exception to throw.                                              *)
NeverThrows == \A x \in Threads : call[x].pc # "threw" /\ ~call[x].failed

(* A block on the want list was announced to the peers once every call     *)
(* waiting for it has returned ("If first time, tell other peers").        *)
FirstWantAnnounced ==
  \A c \in Cids :
    LET o == wants[c] IN
    o # None /\ (\A t \in consumers[o] : call[t].pc = "returned") => <<o, o>> \in announced
=============================================================================
