--------------------------- MODULE BitswapProofs ---------------------------
(***************************************************************************)
(* What holds of the want list for any number of calls, threads, content   *)
(* ids and tokens: in every interleaving, and when calls do not overlap.   *)
(*                                                                         *)
(* No property is inductive by itself.  In every interleaving IInv says    *)
(* how the dictionary, the lists and the local variables of the calls in   *)
(* progress fit together: an entry's object has its creator in its list, a *)
(* list only mixes calls for the same content id, and a call that could    *)
(* still insert an object owns an empty list.  CancelInv adds that what is *)
(* unwanted for a token was asked for with it.  SerialInv is about calls   *)
(* that do not overlap: no thread's view of the list is ever stale, so no  *)
(* consumer is lost.                                                       *)
(***************************************************************************)
EXTENDS Bitswap, TLAPS

Started(u) == call[u].pc # "idle"

(* The object under a key was created, and is still held, by a call for it. *)
EntryInv ==
  \A c \in Cids : wants[c] # None =>
    wants[c] \in consumers[wants[c]] /\ call[wants[c]].cid = c

ListInv ==
  \A o \in Tasks : \A u \in consumers[o] :
    Started(o) /\ Started(u) /\ call[u].cid = call[o].cid

(* A call that has no object of its own yet.                               *)
FreshPcs == {"idle", "lookup", "adding", "publish"}
FreshInv == \A t \in Tasks : call[t].pc \in FreshPcs => consumers[t] = {}

(* A call past its lookup holds an object whose creator stays in the list, *)
(* and if that is not the call itself then it never is alone there.        *)
HoldPcs == {"adding", "publish", "register", "announce"} \cup SignalPcs
CallOK(t) ==
  /\ Started(t) => call[t].cid \in Cids
  /\ call[t].pc \in HoldPcs =>
       call[t].want \in Tasks /\ call[t].want \in consumers[call[t].want]
  /\ call[t].pc = "adding" =>
       /\ call[t].want # t /\ call[t].want \in call[t].seen
       /\ \A u \in call[t].seen : Started(u) /\ call[u].cid = call[t].cid
  /\ call[t].pc \in HoldPcs \ {"adding"} =>
       call[t].want = t \/ \E u \in consumers[call[t].want] : u # call[t].want
CallInv == \A t \in Tasks : CallOK(t)

(* A thread that completes consumers works on calls for its content id.    *)
SignalOK(x) ==
  /\ call[x].pc \in SignalPcs => call[x].cid \in Cids
  /\ call[x].pc = "removed" => /\ call[x].block \in Tasks /\ Started(call[x].block)
                               /\ call[call[x].block].cid = call[x].cid
  /\ call[x].pc = "signal" => \A u \in call[x].todo : Started(u) /\ call[u].cid = call[x].cid
SignalInv == \A x \in Threads : SignalOK(x)

WantListInv == EntryInv /\ ListInv /\ FreshInv /\ CallInv /\ SignalInv

IInv == TypeOK /\ WantListInv /\ RightBlock /\ AnnouncedByCreator

-----------------------------------------------------------------------------
(* How a step changes the state of the one thread that takes it.           *)

LEMMA IdleRecord ==
  /\ Idle \in CallRecord
  /\ Idle.pc = "idle" /\ Idle.op = "none" /\ Idle.cid = None /\ Idle.token = None
  /\ Idle.want = None /\ Idle.block = None
  /\ Idle.seen = {} /\ Idle.todo = {} /\ Idle.queue = {} /\ Idle.failed = FALSE
BY DEF Idle, CallRecord, Resting

LEMMA CallStep ==
  ASSUME TypeOK, NEW x \in Threads, NEW r \in CallRecord, call' = [call EXCEPT ![x] = r]
  PROVE  /\ call' \in [Threads -> CallRecord]
         /\ call'[x] = r
         /\ \A y \in Threads : y # x => call'[y] = call[y]
BY DEF TypeOK

(* What the types say, in the form the steps below use.                    *)
LEMMA Typing ==
  ASSUME TypeOK
  PROVE  /\ \A u \in Tasks : u \in Threads
         /\ \A u \in Workers : u \in Threads /\ u \notin Tasks
         /\ None \notin Tasks /\ None \notin Cids
         /\ wants \in [Cids -> Tasks \cup {None}]
         /\ consumers \in [Tasks -> SUBSET Tasks]
         /\ outcome \in [Tasks -> Outcome]
         /\ \A y \in Threads : call[y] \in CallRecord
         /\ \A y \in Threads : call[y].todo \subseteq Tasks /\ call[y].seen \subseteq Tasks
BY ConstantsAssumption DEF TypeOK, Threads, CallRecord

(* A step that changes no list, removes entries at most, and leaves its    *)
(* thread with the object it held: the want list stays in order.           *)
LEMMA QuietStep ==
  ASSUME TypeOK, WantListInv, NEW x \in Threads,
         consumers' = consumers,
         \A c \in Cids : wants'[c] \in {wants[c], None},
         \A y \in Threads : y # x => call'[y] = call[y],
         x \in Tasks =>
           /\ call[x].pc \in HoldPcs \ {"adding"}
           /\ call'[x].pc \in (HoldPcs \ {"adding", "publish"}) \cup {"returned", "threw"}
           /\ call'[x].cid = call[x].cid
           /\ call'[x].pc \in HoldPcs => call'[x].want = call[x].want,
         call'[x].pc \in SignalPcs => call'[x].cid \in Cids,
         call'[x].pc = "removed" =>
           /\ call'[x].block \in Tasks /\ Started(call'[x].block)
           /\ call[call'[x].block].cid = call'[x].cid,
         call'[x].pc = "signal" =>
           \A u \in call'[x].todo : u \in Tasks /\ Started(u) /\ call[u].cid = call'[x].cid
  PROVE  /\ WantListInv'
         /\ \A u \in Tasks : call'[u].cid = call[u].cid
<1>1. /\ \A u \in Tasks : u \in Threads
      /\ wants \in [Cids -> Tasks \cup {None}]
      /\ consumers \in [Tasks -> SUBSET Tasks]
      /\ \A y \in Threads : call[y].todo \subseteq Tasks /\ call[y].seen \subseteq Tasks
      /\ None \notin Tasks
  BY Typing
<1>2. EntryInv /\ ListInv /\ FreshInv /\ CallInv /\ SignalInv
  BY DEF WantListInv
<1>3. \A u \in Tasks : /\ Started(u)' <=> Started(u)
                       /\ call'[u].cid = call[u].cid
  BY <1>1 DEF Started, HoldPcs, SignalPcs
<1>4. EntryInv'
  BY <1>1, <1>2, <1>3 DEF EntryInv
<1>5. ListInv'
  BY <1>1, <1>2, <1>3 DEF ListInv
<1>6. FreshInv'
  BY <1>1, <1>2 DEF FreshInv, FreshPcs, HoldPcs, SignalPcs
<1>7. CallInv'
  <2> SUFFICES ASSUME NEW t \in Tasks
               PROVE  CallOK(t)'
    BY DEF CallInv
  <2>1. CASE t = x
    BY <1>1, <1>2, <1>3, <2>1 DEF CallInv, CallOK, HoldPcs, SignalPcs
  <2>2. CASE t # x
    BY <1>1, <1>2, <1>3, <2>2 DEF CallInv, CallOK
  <2> QED
    BY <2>1, <2>2
<1>8. SignalInv'
  <2> SUFFICES ASSUME NEW y \in Threads
               PROVE  SignalOK(y)'
    BY DEF SignalInv
  <2>1. CASE y = x
    BY <1>1, <1>3, <2>1 DEF SignalOK
  <2>2. CASE y # x
    BY <1>1, <1>2, <1>3, <2>2 DEF SignalInv, SignalOK
  <2> QED
    BY <2>1, <2>2
<1> QED
  BY <1>3, <1>4, <1>5, <1>6, <1>7, <1>8 DEF WantListInv

-----------------------------------------------------------------------------
(* The steps of WantAsync.                                                 *)

LEMMA InsertStep ==
  ASSUME IInv, NEW t \in Tasks, Insert(t)
  PROVE  IInv'
<1> DEFINE r == [call[t] EXCEPT !.pc = "register", !.want = t]
<1>1. /\ TypeOK /\ t \in Threads /\ call[t] \in CallRecord
      /\ \A u \in Tasks : u \in Threads
      /\ wants \in [Cids -> Tasks \cup {None}] /\ consumers \in [Tasks -> SUBSET Tasks]
      /\ \A y \in Threads : call[y].todo \subseteq Tasks /\ call[y].seen \subseteq Tasks
      /\ None \notin Tasks
  BY Typing DEF IInv
<1>2. /\ EntryInv /\ ListInv /\ FreshInv /\ CallInv /\ SignalInv
      /\ RightBlock /\ AnnouncedByCreator
  BY DEF IInv, WantListInv
<1>3. /\ r \in CallRecord
      /\ r.pc = "register" /\ r.want = t /\ r.cid = call[t].cid
  BY <1>1 DEF CallRecord, WantPcs
<1>4. call' = [call EXCEPT ![t] = r]
  BY <1>1 DEF Insert, TypeOK
<1> HIDE DEF r
<1>5. /\ call' \in [Threads -> CallRecord]
      /\ call'[t] = r
      /\ \A y \in Threads : y # t => call'[y] = call[y]
  BY <1>1, <1>3, <1>4, CallStep
<1>6. /\ wants' = [wants EXCEPT ![call[t].cid] = t]
      /\ consumers' = [consumers EXCEPT ![t] = {t}]
      /\ call[t].pc = "lookup" /\ consumers[t] = {} /\ call[t].cid \in Cids
  BY <1>1, <1>2 DEF Insert, At, FreshInv, FreshPcs, CallInv, CallOK, Started
<1>7. TypeOK'
  BY <1>1, <1>5, <1>6 DEF TypeOK, Insert
<1>8. \A u \in Tasks : Started(u)' = Started(u) /\ call'[u].cid = call[u].cid
  BY <1>1, <1>3, <1>5, <1>6 DEF Started
<1>9. EntryInv'
  BY <1>1, <1>2, <1>6, <1>8 DEF EntryInv
<1>10. ListInv'
  BY <1>1, <1>2, <1>3, <1>5, <1>6 DEF ListInv, Started
<1>11. FreshInv'
  BY <1>1, <1>2, <1>3, <1>5, <1>6 DEF FreshInv, FreshPcs
<1>12. CallInv'
  <2> SUFFICES ASSUME NEW s \in Tasks
               PROVE  CallOK(s)'
    BY DEF CallInv
  <2>1. CASE s = t
    BY <1>1, <1>3, <1>5, <1>6, <2>1 DEF CallOK, Started, HoldPcs, SignalPcs
  <2>2. CASE s # t
    BY <1>1, <1>2, <1>5, <1>6, <1>8, <2>2 DEF CallInv, CallOK, HoldPcs, SignalPcs
  <2> QED
    BY <2>1, <2>2
<1>13. SignalInv'
  BY <1>1, <1>2, <1>3, <1>5, <1>8 DEF SignalInv, SignalOK, SignalPcs
<1>14. RightBlock' /\ AnnouncedByCreator'
  BY <1>2, <1>8 DEF RightBlock, AnnouncedByCreator, Insert
<1> QED
  BY <1>7, <1>9, <1>10, <1>11, <1>12, <1>13, <1>14 DEF IInv, WantListInv

(* t was idle, so no list, entry or thread refers to it yet.               *)
LEMMA WantAsyncStep ==
  ASSUME IInv, NEW t \in Tasks, NEW c \in Cids, NEW k \in Tokens \cup {None},
         WantAsync(t, c, k)
  PROVE  IInv'
<1> DEFINE r == [Idle EXCEPT !.pc = "lookup", !.op = "want", !.cid = c, !.token = k]
<1>1. /\ TypeOK /\ t \in Threads /\ call[t] \in CallRecord
      /\ \A u \in Tasks : u \in Threads
      /\ wants \in [Cids -> Tasks \cup {None}] /\ consumers \in [Tasks -> SUBSET Tasks]
      /\ \A y \in Threads : call[y].todo \subseteq Tasks /\ call[y].seen \subseteq Tasks
      /\ None \notin Tasks
  BY Typing DEF IInv
<1>2. /\ EntryInv /\ ListInv /\ FreshInv /\ CallInv /\ SignalInv
      /\ RightBlock /\ AnnouncedByCreator
  BY DEF IInv, WantListInv
<1>3. /\ r \in CallRecord
      /\ r.pc = "lookup" /\ r.cid = c
  BY IdleRecord DEF CallRecord, WantPcs
<1>4. call' = [call EXCEPT ![t] = r]
  BY DEF WantAsync
<1> HIDE DEF r
<1>5. /\ call' \in [Threads -> CallRecord]
      /\ call'[t] = r
      /\ \A y \in Threads : y # t => call'[y] = call[y]
  BY <1>1, <1>3, <1>4, CallStep
<1>6. wants' = wants /\ consumers' = consumers /\ call[t].pc = "idle" /\ consumers[t] = {}
  BY <1>2 DEF WantAsync, At, FreshInv, FreshPcs
<1>7. \A o \in Tasks : t \notin consumers[o]
  BY <1>2, <1>6 DEF ListInv, Started
<1>8. TypeOK'
  BY <1>1, <1>5, <1>6 DEF TypeOK, WantAsync, Outcome
<1>9. EntryInv'
  BY <1>1, <1>2, <1>5, <1>6, <1>7 DEF EntryInv
<1>10. ListInv'
  BY <1>1, <1>2, <1>3, <1>5, <1>6, <1>7 DEF ListInv, Started
<1>11. FreshInv'
  BY <1>1, <1>2, <1>3, <1>5, <1>6 DEF FreshInv, FreshPcs
<1>12. CallInv'
  <2> SUFFICES ASSUME NEW s \in Tasks
               PROVE  CallOK(s)'
    BY DEF CallInv
  <2>1. CASE s = t
    BY <1>1, <1>3, <1>5, <1>6, <2>1 DEF CallOK, Started, HoldPcs, SignalPcs
  <2>2. CASE s # t
    <3>1. t \notin call[s].seen \/ call[s].pc # "adding"
      BY <1>2, <1>6 DEF CallInv, CallOK, Started
    <3>2. call'[s] = call[s]
      BY <1>1, <1>5, <2>2
    <3> QED
      BY <1>1, <1>2, <1>3, <1>5, <1>6, <2>2, <3>1, <3>2
      DEF CallInv, CallOK, Started, HoldPcs, SignalPcs
  <2> QED
    BY <2>1, <2>2
<1>13. SignalInv'
  <2> SUFFICES ASSUME NEW y \in Threads
               PROVE  SignalOK(y)'
    BY DEF SignalInv
  <2>1. CASE y = t
    BY <1>3, <1>5, <2>1 DEF SignalOK, SignalPcs
  <2>2. CASE y # t
    BY <1>1, <1>2, <1>3, <1>5, <1>6, <2>2 DEF SignalInv, SignalOK, Started
  <2> QED
    BY <2>1, <2>2
<1>14. RightBlock' /\ AnnouncedByCreator'
  BY <1>1, <1>2, <1>5 DEF RightBlock, AnnouncedByCreator, WantAsync, TypeOK
<1> QED
  BY <1>8, <1>9, <1>10, <1>11, <1>12, <1>13, <1>14 DEF IInv, WantListInv

(* The entry's object is not t's own: t has none while it looks up.        *)
LEMMA UpdateStep ==
  ASSUME IInv, NEW t \in Tasks, Update(t)
  PROVE  IInv'
<1> DEFINE o == wants[call[t].cid]
           r == [call[t] EXCEPT !.pc = "adding", !.want = o, !.seen = consumers[o]]
<1>1. /\ TypeOK /\ t \in Threads /\ call[t] \in CallRecord
      /\ \A u \in Tasks : u \in Threads
      /\ wants \in [Cids -> Tasks \cup {None}] /\ consumers \in [Tasks -> SUBSET Tasks]
      /\ \A y \in Threads : call[y].todo \subseteq Tasks /\ call[y].seen \subseteq Tasks
      /\ None \notin Tasks
  BY Typing DEF IInv
<1>2. /\ EntryInv /\ ListInv /\ FreshInv /\ CallInv /\ SignalInv
      /\ RightBlock /\ AnnouncedByCreator
  BY DEF IInv, WantListInv
<1>2a. /\ call[t].pc = "lookup" /\ call[t].cid \in Cids /\ consumers[t] = {}
       /\ o # None
  BY <1>2 DEF Update, Entry, At, CallInv, CallOK, Started, FreshInv, FreshPcs
<1>2b. /\ o \in Tasks /\ o \in consumers[o] /\ o # t /\ call[o].cid = call[t].cid
       /\ consumers[o] \subseteq Tasks
       /\ \A u \in consumers[o] : Started(u) /\ call[u].cid = call[t].cid
  BY <1>1, <1>2, <1>2a DEF EntryInv, ListInv
<1>3. /\ r \in CallRecord
      /\ r.pc = "adding" /\ r.want = o /\ r.cid = call[t].cid /\ r.seen = consumers[o]
  BY <1>1, <1>2b DEF CallRecord, WantPcs
<1>4. call' = [call EXCEPT ![t] = r]
  BY <1>1 DEF Update, Entry, TypeOK
<1> HIDE DEF o
<1> HIDE DEF r
<1>5. /\ call' \in [Threads -> CallRecord]
      /\ call'[t] = r
      /\ \A y \in Threads : y # t => call'[y] = call[y]
  BY <1>1, <1>3, <1>4, CallStep
<1>6. wants' = wants /\ consumers' = consumers
  BY DEF Update
<1>7. TypeOK'
  BY <1>1, <1>5 DEF TypeOK, Update
<1>8. \A u \in Tasks : Started(u)' = Started(u) /\ call'[u].cid = call[u].cid
  BY <1>1, <1>2a, <1>3, <1>5 DEF Started
<1>9. EntryInv' /\ ListInv'
  BY <1>1, <1>2, <1>6, <1>8 DEF EntryInv, ListInv
<1>10. FreshInv'
  BY <1>1, <1>2, <1>2a, <1>5, <1>6 DEF FreshInv
<1>11. CallInv'
  <2> SUFFICES ASSUME NEW s \in Tasks
               PROVE  CallOK(s)'
    BY DEF CallInv
  <2>1. CASE s = t
    BY <1>1, <1>2a, <1>2b, <1>3, <1>5, <1>6, <1>8, <2>1 DEF CallOK
  <2>2. CASE s # t
    BY <1>1, <1>2, <1>5, <1>6, <1>8, <2>2 DEF CallInv, CallOK
  <2> QED
    BY <2>1, <2>2
<1>12. SignalInv'
  BY <1>1, <1>2, <1>3, <1>5, <1>8 DEF SignalInv, SignalOK, SignalPcs
<1>13. RightBlock' /\ AnnouncedByCreator'
  BY <1>2, <1>8 DEF RightBlock, AnnouncedByCreator, Update
<1> QED
  BY <1>7, <1>9, <1>10, <1>11, <1>12, <1>13 DEF IInv, WantListInv

(* The write-back may lose consumers, but never the creator, and whoever   *)
(* else holds the object still finds a task that is not the creator: t.    *)
LEMMA AddConsumerStep ==
  ASSUME IInv, NEW t \in Tasks, AddConsumer(t)
  PROVE  IInv'
<1> DEFINE o == call[t].want
           r == [call[t] EXCEPT !.pc = "publish"]
<1>1. /\ TypeOK /\ t \in Threads /\ call[t] \in CallRecord
      /\ \A u \in Tasks : u \in Threads
      /\ wants \in [Cids -> Tasks \cup {None}] /\ consumers \in [Tasks -> SUBSET Tasks]
      /\ \A y \in Threads : call[y].todo \subseteq Tasks /\ call[y].seen \subseteq Tasks
      /\ None \notin Tasks
  BY Typing DEF IInv
<1>2. /\ EntryInv /\ ListInv /\ FreshInv /\ CallInv /\ SignalInv
      /\ RightBlock /\ AnnouncedByCreator
  BY DEF IInv, WantListInv
<1>3. /\ r \in CallRecord
      /\ r.pc = "publish" /\ r.want = o /\ r.cid = call[t].cid
  BY <1>1 DEF CallRecord, WantPcs
<1>4. call' = [call EXCEPT ![t] = r]
  BY <1>1 DEF AddConsumer, TypeOK
<1> HIDE DEF r
<1>5. /\ call' \in [Threads -> CallRecord]
      /\ call'[t] = r
      /\ \A y \in Threads : y # t => call'[y] = call[y]
  BY <1>1, <1>3, <1>4, CallStep
<1>6. /\ call[t].pc = "adding"
      /\ o \in Tasks /\ o \in consumers[o] /\ o # t /\ o \in call[t].seen
      /\ \A u \in call[t].seen : u \in Tasks /\ Started(u) /\ call[u].cid = call[t].cid
      /\ consumers[t] = {}
  BY <1>1, <1>2 DEF AddConsumer, At, CallInv, CallOK, HoldPcs, FreshInv, FreshPcs
<1>7. /\ wants' = wants
      /\ consumers' = [consumers EXCEPT ![o] = call[t].seen \cup {t}]
      /\ UNCHANGED <<outcome, regs, cancelled, announced>>
  BY DEF AddConsumer, Appended
<1> HIDE DEF o
<1>8. TypeOK'
  BY <1>1, <1>5, <1>6, <1>7 DEF TypeOK
<1>9. \A u \in Tasks : Started(u)' = Started(u) /\ call'[u].cid = call[u].cid
  BY <1>1, <1>3, <1>5, <1>6 DEF Started
<1>10. EntryInv'
  BY <1>1, <1>2, <1>6, <1>7, <1>9 DEF EntryInv
<1>11. ListInv'
  <2>1. Started(t)
    BY <1>6 DEF Started
  <2> QED
    BY <1>1, <1>2, <1>6, <1>7, <1>9, <2>1 DEF ListInv
<1>12. FreshInv'
  <2>1. call[o].pc \notin FreshPcs
    BY <1>2, <1>6 DEF FreshInv
  <2> QED
    BY <1>1, <1>2, <1>3, <1>5, <1>6, <1>7, <2>1 DEF FreshInv, FreshPcs
<1>13. CallInv'
  <2> SUFFICES ASSUME NEW s \in Tasks
               PROVE  CallOK(s)'
    BY DEF CallInv
  <2>1. CASE s = t
    <3>1. t \in consumers'[o] /\ o \in consumers'[o] /\ call[t].cid \in Cids
      BY <1>1, <1>2, <1>6, <1>7 DEF CallInv, CallOK, Started
    <3> QED
      BY <1>3, <1>5, <1>6, <2>1, <3>1 DEF CallOK
  <2>2. CASE s # t
    <3>1. /\ \A p \in Tasks : p \in consumers[p] => p \in consumers'[p]
          /\ \A p \in Tasks : (\E u \in consumers[p] : u # p) => \E u \in consumers'[p] : u # p
      BY <1>1, <1>6, <1>7
    <3>2. call'[s] = call[s] /\ call[s].seen \subseteq Tasks
      BY <1>1, <1>5, <2>2
    <3>3. CallOK(s)
      BY <1>2 DEF CallInv
    <3> QED
      BY <1>9, <3>1, <3>2, <3>3 DEF CallOK
  <2> QED
    BY <2>1, <2>2
<1>14. SignalInv'
  BY <1>1, <1>2, <1>3, <1>5, <1>9 DEF SignalInv, SignalOK, SignalPcs
<1>15. RightBlock' /\ AnnouncedByCreator'
  BY <1>2, <1>9 DEF RightBlock, AnnouncedByCreator, AddConsumer
<1> QED
  BY <1>8, <1>10, <1>11, <1>12, <1>13, <1>14, <1>15 DEF IInv, WantListInv

LEMMA PublishStep ==
  ASSUME IInv, NEW t \in Tasks, Publish(t)
  PROVE  IInv'
<1> DEFINE r == [call[t] EXCEPT !.pc = IF Unchanged(t) THEN "register" ELSE "lookup",
                                !.seen = {}]
<1>1. /\ TypeOK /\ t \in Threads /\ call[t] \in CallRecord
      /\ \A u \in Tasks : u \in Threads
      /\ wants \in [Cids -> Tasks \cup {None}] /\ consumers \in [Tasks -> SUBSET Tasks]
      /\ \A y \in Threads : call[y].todo \subseteq Tasks /\ call[y].seen \subseteq Tasks
      /\ None \notin Tasks
  BY Typing DEF IInv
<1>2. /\ EntryInv /\ ListInv /\ FreshInv /\ CallInv /\ SignalInv
      /\ RightBlock /\ AnnouncedByCreator
  BY DEF IInv, WantListInv
<1>3. /\ r \in CallRecord
      /\ r.pc \in {"register", "lookup"} /\ r.want = call[t].want /\ r.cid = call[t].cid
  BY <1>1 DEF CallRecord, WantPcs
<1>4. call' = [call EXCEPT ![t] = r]
  BY <1>1 DEF Publish, TypeOK
<1> HIDE DEF r
<1>5. /\ call' \in [Threads -> CallRecord]
      /\ call'[t] = r
      /\ \A y \in Threads : y # t => call'[y] = call[y]
  BY <1>1, <1>3, <1>4, CallStep
<1>6. call[t].pc = "publish" /\ wants' = wants /\ consumers' = consumers
  BY DEF Publish, At
<1>7. TypeOK'
  BY <1>1, <1>5 DEF TypeOK, Publish
<1>8. \A u \in Tasks : Started(u)' = Started(u) /\ call'[u].cid = call[u].cid
  BY <1>1, <1>3, <1>5, <1>6 DEF Started
<1>9. EntryInv' /\ ListInv'
  BY <1>1, <1>2, <1>6, <1>8 DEF EntryInv, ListInv
<1>10. FreshInv'
  BY <1>1, <1>2, <1>5, <1>6 DEF FreshInv, FreshPcs
<1>11. CallInv'
  <2> SUFFICES ASSUME NEW s \in Tasks
               PROVE  CallOK(s)'
    BY DEF CallInv
  <2>1. CASE s = t
    BY <1>1, <1>2, <1>3, <1>5, <1>6, <1>8, <2>1 DEF CallInv, CallOK, HoldPcs, SignalPcs
  <2>2. CASE s # t
    BY <1>1, <1>2, <1>5, <1>6, <1>8, <2>2 DEF CallInv, CallOK
  <2> QED
    BY <2>1, <2>2
<1>12. SignalInv'
  BY <1>1, <1>2, <1>3, <1>5, <1>8 DEF SignalInv, SignalOK, SignalPcs
<1>13. RightBlock' /\ AnnouncedByCreator'
  BY <1>2, <1>8 DEF RightBlock, AnnouncedByCreator, Publish
<1> QED
  BY <1>7, <1>9, <1>10, <1>11, <1>12, <1>13 DEF IInv, WantListInv

-----------------------------------------------------------------------------
(* The steps that leave every list as it is.                               *)

LEMMA RegisterStep ==
  ASSUME IInv, NEW t \in Tasks, Register(t)
  PROVE  IInv'
<1> DEFINE q == IF call[t].token \in cancelled
                THEN [call[t] EXCEPT !.pc = "remove", !.op = "cancel"]
                ELSE [call[t] EXCEPT !.pc = "announce"]
<1>1. /\ TypeOK /\ WantListInv /\ t \in Threads /\ call[t] \in CallRecord
      /\ RightBlock /\ AnnouncedByCreator
  BY Typing DEF IInv
<1>2. /\ q \in CallRecord
      /\ q.pc \in {"remove", "announce"} /\ q.want = call[t].want /\ q.cid = call[t].cid
  BY <1>1 DEF CallRecord, WantPcs, SignalPcs
<1>3. call' = [call EXCEPT ![t] = q]
  BY <1>1 DEF Register, TypeOK
<1> HIDE DEF q
<1>4. /\ call' \in [Threads -> CallRecord]
      /\ call'[t] = q
      /\ \A y \in Threads : y # t => call'[y] = call[y]
  BY <1>1, <1>2, <1>3, CallStep
<1>5. /\ call[t].pc = "register" /\ call[t].cid \in Cids
      /\ UNCHANGED <<wants, consumers, outcome, cancelled, announced>>
  BY <1>1 DEF Register, At, WantListInv, CallInv, CallOK, Started
<1>6. regs' \subseteq Tokens \X Cids
  <2>1. call[t].token \in Tokens \cup {None}
    BY <1>1 DEF CallRecord
  <2> QED
    BY <1>1, <1>5, <2>1 DEF Register, Registration, TypeOK
<1>7. TypeOK'
  BY <1>1, <1>4, <1>5, <1>6 DEF TypeOK
<1>8. WantListInv' /\ \A u \in Tasks : call'[u].cid = call[u].cid
  BY <1>1, <1>2, <1>4, <1>5, QuietStep DEF HoldPcs, SignalPcs
<1>9. RightBlock' /\ AnnouncedByCreator'
  BY <1>1, <1>5, <1>8 DEF RightBlock, AnnouncedByCreator
<1> QED
  BY <1>7, <1>8, <1>9 DEF IInv

(* A single consumer is the creator of the object, so it is t itself.      *)
LEMMA AnnounceStep ==
  ASSUME IInv, NEW t \in Tasks, Announce(t)
  PROVE  IInv'
<1> DEFINE r == [call[t] EXCEPT !.pc = "returned", !.want = None]
<1>1. /\ TypeOK /\ WantListInv /\ t \in Threads /\ call[t] \in CallRecord
      /\ RightBlock /\ AnnouncedByCreator
  BY Typing DEF IInv
<1>2. r \in CallRecord /\ r.pc = "returned" /\ r.cid = call[t].cid
  BY <1>1 DEF CallRecord, Resting
<1>3. call' = [call EXCEPT ![t] = r]
  BY <1>1 DEF Announce, TypeOK
<1> HIDE DEF r
<1>4. /\ call' \in [Threads -> CallRecord]
      /\ call'[t] = r
      /\ \A y \in Threads : y # t => call'[y] = call[y]
  BY <1>1, <1>2, <1>3, CallStep
<1>5. /\ call[t].pc = "announce"
      /\ UNCHANGED <<wants, consumers, outcome, regs, cancelled>>
  BY DEF Announce, At
<1>6. /\ call[t].want \in Tasks
      /\ OneConsumer(call[t].want) => call[t].want = t
  BY <1>1, <1>5 DEF OneConsumer, WantListInv, CallInv, CallOK, HoldPcs
<1>7. announced' \in {announced, announced \cup {<<t, call[t].want>>}}
      /\ (announced' # announced => call[t].want = t)
  BY <1>6 DEF Announce
<1>8. TypeOK'
  BY <1>1, <1>4, <1>5, <1>6, <1>7 DEF TypeOK
<1>9. WantListInv' /\ \A u \in Tasks : call'[u].cid = call[u].cid
  BY <1>1, <1>2, <1>4, <1>5, QuietStep DEF HoldPcs, SignalPcs
<1>10. RightBlock' /\ AnnouncedByCreator'
  BY <1>1, <1>5, <1>7, <1>9 DEF RightBlock, AnnouncedByCreator
<1> QED
  BY <1>8, <1>9, <1>10 DEF IInv

(* Goto, Return and Throw: the thread only lets go of the object it        *)
(* removed; its call and what it has still to do stay the same.            *)
LetsGo(x, r) ==
  /\ call' = [call EXCEPT ![x] = r]
  /\ r.pc \in {"announce", "next", "threw"} /\ (x \in Tasks => r.pc # "next")
  /\ r.want = call[x].want /\ r.cid = call[x].cid
  /\ r.token = call[x].token /\ r.queue = call[x].queue

LEMMA GotoForm ==
  ASSUME IInv, NEW x \in Threads, NEW pc \in {"announce", "next", "threw"}, Goto(x, pc),
         x \in Tasks => pc # "next"
  PROVE  \E r \in CallRecord : LetsGo(x, r)
<1>1. call \in [Threads -> CallRecord] /\ call[x] \in CallRecord
  BY Typing DEF IInv, TypeOK
<1> DEFINE r == [call[x] EXCEPT !.pc = pc, !.block = None, !.seen = {}, !.todo = {}]
<1>2. r \in CallRecord /\ r.pc = pc /\ r.want = call[x].want /\ r.cid = call[x].cid
      /\ r.token = call[x].token /\ r.queue = call[x].queue
  BY <1>1 DEF CallRecord, Resting, WantPcs
<1>3. call' = [call EXCEPT ![x] = r]
  BY <1>1 DEF Goto
<1> QED
  BY <1>2, <1>3 DEF LetsGo

LEMMA SignalEndForm ==
  ASSUME IInv, NEW x \in Threads, CompletionThrows(x) \/ AllCompleted(x)
  PROVE  \E r \in CallRecord : LetsGo(x, r)
<1>1. /\ call \in [Threads -> CallRecord] /\ call[x] \in CallRecord
      /\ x \in Tasks => x \notin Workers
  BY Typing DEF IInv, TypeOK
<1>2. CASE Cancelling(x) /\ Throw(x)
  <2> DEFINE r == [call[x] EXCEPT !.pc = "next", !.failed = TRUE, !.block = None,
                                  !.seen = {}, !.todo = {}]
  <2>1. r \in CallRecord /\ r.pc = "next" /\ r.want = call[x].want /\ r.cid = call[x].cid
        /\ r.token = call[x].token /\ r.queue = call[x].queue
    BY <1>1 DEF CallRecord
  <2>2. call' = [call EXCEPT ![x] = r]
    BY <1>1, <1>2 DEF Throw
  <2> QED
    BY <1>1, <1>2, <2>1, <2>2 DEF LetsGo, Cancelling
<1>3. CASE ~Cancelling(x) /\ Throw(x)
  BY <1>3, GotoForm DEF Throw
<1>4. CASE Return(x)
  BY <1>1, <1>4, GotoForm DEF Return
<1> QED
  BY <1>2, <1>3, <1>4 DEF CompletionThrows, AllCompleted

LEMMA LetsGoStep ==
  ASSUME IInv, NEW x \in Threads, NEW r \in CallRecord, LetsGo(x, r),
         call[x].pc \in SignalPcs,
         \A c \in Cids : wants'[c] \in {wants[c], None},
         wants' \in [Cids -> Tasks \cup {None}],
         UNCHANGED <<consumers, outcome, regs, cancelled, announced>>
  PROVE  IInv'
<1>1. /\ TypeOK /\ WantListInv /\ RightBlock /\ AnnouncedByCreator
  BY DEF IInv
<1>2. /\ call' \in [Threads -> CallRecord]
      /\ call'[x] = r
      /\ \A y \in Threads : y # x => call'[y] = call[y]
  BY <1>1, CallStep DEF LetsGo
<1>3. TypeOK'
  BY <1>1, <1>2 DEF TypeOK
<1>4. WantListInv' /\ \A u \in Tasks : call'[u].cid = call[u].cid
  BY <1>1, <1>2, QuietStep DEF HoldPcs, SignalPcs, LetsGo
<1>5. RightBlock' /\ AnnouncedByCreator'
  BY <1>1, <1>4 DEF RightBlock, AnnouncedByCreator
<1> QED
  BY <1>3, <1>4, <1>5 DEF IInv

LEMMA TryRemoveStep ==
  ASSUME IInv, NEW x \in Threads, TryRemove(x)
  PROVE  IInv'
<1> DEFINE o == wants[call[x].cid]
           r == [call[x] EXCEPT !.pc = "removed", !.block = o]
<1>1. /\ TypeOK /\ WantListInv /\ call[x] \in CallRecord
      /\ RightBlock /\ AnnouncedByCreator
      /\ wants \in [Cids -> Tasks \cup {None}] /\ consumers \in [Tasks -> SUBSET Tasks]
      /\ None \notin Tasks
      /\ x \in Tasks => x \notin Workers
  BY Typing DEF IInv
<1>2. /\ call[x].pc = "remove" /\ call[x].cid \in Cids
      /\ UNCHANGED <<consumers, outcome, regs, cancelled, announced>>
  BY <1>1 DEF TryRemove, At, WantListInv, SignalInv, SignalOK, SignalPcs
<1>3. /\ wants' \in [Cids -> Tasks \cup {None}]
      /\ \A c \in Cids : wants'[c] \in {wants[c], None}
  BY <1>1, <1>2 DEF TryRemove, DropEntry
<1>4. CASE o = None
  <2>1. Goto(x, IF x \in Tasks THEN "announce" ELSE "next")
    BY <1>4 DEF TryRemove, Return
  <2>2. PICK s \in CallRecord : LetsGo(x, s)
    BY <2>1, GotoForm
  <2> QED
    BY <1>2, <1>3, <2>2, LetsGoStep DEF SignalPcs
<1>5. CASE o # None
  <2>1. o \in Tasks /\ Started(o) /\ call[o].cid = call[x].cid
    BY <1>1, <1>2, <1>5 DEF WantListInv, EntryInv, ListInv
  <2>2. /\ r \in CallRecord
        /\ r.pc = "removed" /\ r.block = o /\ r.want = call[x].want /\ r.cid = call[x].cid
    BY <1>1, <2>1 DEF CallRecord, SignalPcs
  <2>3. call' = [call EXCEPT ![x] = r]
    BY <1>1, <1>5 DEF TryRemove, TypeOK
  <2> HIDE DEF r, o
  <2>4. /\ call' \in [Threads -> CallRecord]
        /\ call'[x] = r
        /\ \A y \in Threads : y # x => call'[y] = call[y]
    BY <1>1, <2>2, <2>3, CallStep
  <2>5. TypeOK'
    BY <1>1, <1>2, <1>3, <2>4 DEF TypeOK
  <2>6. WantListInv' /\ \A u \in Tasks : call'[u].cid = call[u].cid
    BY <1>1, <1>2, <1>3, <2>1, <2>2, <2>4, QuietStep DEF HoldPcs, SignalPcs
  <2>7. RightBlock' /\ AnnouncedByCreator'
    BY <1>1, <1>2, <2>6 DEF RightBlock, AnnouncedByCreator
  <2> QED
    BY <2>5, <2>6, <2>7 DEF IInv
<1> QED
  BY <1>4, <1>5

LEMMA EnumerateStep ==
  ASSUME IInv, NEW x \in Threads, Enumerate(x)
  PROVE  IInv'
<1> DEFINE s == consumers[call[x].block]
           r == [call[x] EXCEPT !.pc = "signal", !.seen = s, !.todo = s]
<1>1. /\ TypeOK /\ WantListInv /\ call[x] \in CallRecord
      /\ RightBlock /\ AnnouncedByCreator
      /\ consumers \in [Tasks -> SUBSET Tasks]
  BY Typing DEF IInv
<1>2. /\ call[x].pc = "removed" /\ call[x].cid \in Cids
      /\ call[x].block \in Tasks /\ call[call[x].block].cid = call[x].cid
      /\ UNCHANGED <<wants, consumers, outcome, regs, cancelled, announced>>
  BY <1>1 DEF Enumerate, At, WantListInv, SignalInv, SignalOK, SignalPcs
<1>3. \A u \in s : u \in Tasks /\ Started(u) /\ call[u].cid = call[x].cid
  BY <1>1, <1>2 DEF WantListInv, ListInv
<1>4. /\ r \in CallRecord
      /\ r.pc = "signal" /\ r.todo = s /\ r.want = call[x].want /\ r.cid = call[x].cid
  BY <1>1, <1>3 DEF CallRecord, SignalPcs
<1>5. call' = [call EXCEPT ![x] = r]
  BY <1>1 DEF Enumerate, TypeOK
<1> HIDE DEF r, s
<1>6. /\ call' \in [Threads -> CallRecord]
      /\ call'[x] = r
      /\ \A y \in Threads : y # x => call'[y] = call[y]
  BY <1>1, <1>4, <1>5, CallStep
<1>7. TypeOK'
  BY <1>1, <1>2, <1>6 DEF TypeOK
<1>8. WantListInv' /\ \A u \in Tasks : call'[u].cid = call[u].cid
  BY <1>1, <1>2, <1>3, <1>4, <1>6, QuietStep DEF HoldPcs, SignalPcs
<1>9. RightBlock' /\ AnnouncedByCreator'
  BY <1>1, <1>2, <1>8 DEF RightBlock, AnnouncedByCreator
<1> QED
  BY <1>7, <1>8, <1>9 DEF IInv

(* A consumer gets the block of the thread's content id, which is its own. *)
LEMMA CompleteStep ==
  ASSUME IInv, NEW x \in Threads, NEW v \in Tasks, Complete(x, v)
  PROVE  IInv'
<1> DEFINE r == [call[x] EXCEPT !.todo = call[x].todo \ {v}]
<1>1. /\ TypeOK /\ WantListInv /\ call[x] \in CallRecord
      /\ RightBlock /\ AnnouncedByCreator
      /\ call[x].todo \subseteq Tasks
      /\ outcome \in [Tasks -> Outcome]
  BY Typing DEF IInv
<1>2. /\ call[x].pc = "signal" /\ v \in call[x].todo
      /\ outcome' = [outcome EXCEPT ![v] = Settled(x)]
      /\ UNCHANGED <<wants, consumers, regs, cancelled, announced>>
  BY DEF Complete, At
<1>3. /\ call[x].cid \in Cids
      /\ \A u \in call[x].todo : Started(u) /\ call[u].cid = call[x].cid
  BY <1>1, <1>2 DEF WantListInv, SignalInv, SignalOK, SignalPcs
<1>4. /\ r \in CallRecord
      /\ r.pc = "signal" /\ r.todo = call[x].todo \ {v}
      /\ r.want = call[x].want /\ r.cid = call[x].cid
  BY <1>1, <1>2 DEF CallRecord, SignalPcs
<1>5. call' = [call EXCEPT ![x] = r]
  BY <1>1 DEF Complete, TypeOK
<1> HIDE DEF r
<1>6. /\ call' \in [Threads -> CallRecord]
      /\ call'[x] = r
      /\ \A y \in Threads : y # x => call'[y] = call[y]
  BY <1>1, <1>4, <1>5, CallStep
<1>7. /\ Settled(x) \in Outcome
      /\ Settled(x).status = "found" => Settled(x).value = call[x].cid
  BY <1>1 DEF Settled, Outcome, CallRecord
<1>8. TypeOK'
  BY <1>1, <1>2, <1>6, <1>7 DEF TypeOK
<1>9. WantListInv' /\ \A u \in Tasks : call'[u].cid = call[u].cid
  BY <1>1, <1>2, <1>3, <1>4, <1>6, QuietStep DEF HoldPcs, SignalPcs
<1>10. RightBlock' /\ AnnouncedByCreator'
  BY <1>1, <1>2, <1>3, <1>7, <1>9 DEF RightBlock, AnnouncedByCreator
<1> QED
  BY <1>8, <1>9, <1>10 DEF IInv

LEMMA SignalEndStep ==
  ASSUME IInv, NEW x \in Threads, CompletionThrows(x) \/ AllCompleted(x)
  PROVE  IInv'
<1>1. /\ call[x].pc = "signal"
      /\ UNCHANGED <<wants, consumers, outcome, regs, cancelled, announced>>
      /\ wants \in [Cids -> Tasks \cup {None}]
  BY Typing DEF CompletionThrows, AllCompleted, At, IInv
<1>2. PICK r \in CallRecord : LetsGo(x, r)
  BY SignalEndForm
<1> QED
  BY <1>1, <1>2, LetsGoStep DEF SignalPcs

-----------------------------------------------------------------------------
(* The steps of a worker: it starts a call, or goes on to the next cid.    *)

LEMMA WorkerCallStep ==
  ASSUME IInv, NEW w \in Workers, NEW r \in CallRecord,
         call' = [call EXCEPT ![w] = r],
         r.pc \in {"next", "idle", "threw", "remove"}, r.pc = "remove" => r.cid \in Cids,
         UNCHANGED <<wants, consumers, outcome, announced>>,
         regs' \subseteq regs, cancelled' \subseteq Tokens
  PROVE  IInv'
<1>1. /\ TypeOK /\ WantListInv /\ w \in Threads /\ w \notin Tasks
      /\ RightBlock /\ AnnouncedByCreator
  BY Typing DEF IInv
<1>2. /\ call' \in [Threads -> CallRecord]
      /\ call'[w] = r
      /\ \A y \in Threads : y # w => call'[y] = call[y]
  BY <1>1, CallStep
<1>3. TypeOK'
  BY <1>1, <1>2 DEF TypeOK
<1>4. WantListInv' /\ \A u \in Tasks : call'[u].cid = call[u].cid
  BY <1>1, <1>2, QuietStep DEF SignalPcs
<1>5. RightBlock' /\ AnnouncedByCreator'
  BY <1>1, <1>4 DEF RightBlock, AnnouncedByCreator
<1> QED
  BY <1>3, <1>4, <1>5 DEF IInv

LEMMA NextCidStep ==
  ASSUME IInv, NEW w \in Workers, NextCid(w)
  PROVE  IInv'
<1>1. TypeOK /\ call[w] \in CallRecord /\ call[w].queue \subseteq Cids
  BY Typing DEF IInv, CallRecord
<1>2. ASSUME NEW r \in {Idle, [Idle EXCEPT !.pc = "threw"]}, call' = [call EXCEPT ![w] = r]
      PROVE  IInv'
  <2>1. /\ UNCHANGED <<wants, consumers, outcome, announced>>
        /\ regs' \subseteq regs /\ cancelled' \subseteq Tokens
    BY <1>1 DEF NextCid, TypeOK
  <2>2. r \in CallRecord /\ r.pc \in {"idle", "threw"}
    BY <1>2, IdleRecord DEF CallRecord, Resting
  <2> QED
    BY <1>2, <2>1, <2>2, WorkerCallStep
<1>3. ASSUME NEW c \in call[w].queue,
             call' = [call EXCEPT ![w].pc = "remove", ![w].cid = c,
                                  ![w].queue = @ \ {c}]
      PROVE  IInv'
  <2> DEFINE r == [call[w] EXCEPT !.pc = "remove", !.cid = c, !.queue = call[w].queue \ {c}]
  <2>1. r \in CallRecord /\ r.pc = "remove" /\ r.cid \in Cids
    BY <1>1 DEF CallRecord, SignalPcs
  <2>2. call' = [call EXCEPT ![w] = r]
    BY <1>1, <1>3 DEF TypeOK
  <2> HIDE DEF r
  <2> QED
    BY <1>1, <2>1, <2>2, WorkerCallStep DEF NextCid, TypeOK
<1> QED
  BY <1>2, <1>3 DEF NextCid

LEMMA BeginStep ==
  ASSUME IInv, NEW w \in Workers, NEW op \in {"found", "unwant", "stop", "cancel"},
         NEW k \in Tokens \cup {None}, NEW q \in SUBSET Cids, Begin(w, op, k, q),
         UNCHANGED <<wants, consumers, outcome, announced>>,
         regs' \subseteq regs, cancelled' \subseteq Tokens
  PROVE  IInv'
<1> DEFINE r == [Idle EXCEPT !.pc = "next", !.op = op, !.token = k, !.queue = q]
<1>1. r \in CallRecord /\ r.pc = "next"
  BY IdleRecord DEF CallRecord
<1>2. call' = [call EXCEPT ![w] = r]
  BY DEF Begin
<1> HIDE DEF r
<1> QED
  BY <1>1, <1>2, WorkerCallStep

LEMMA WorkerCalls ==
  ASSUME IInv, NEW w \in Workers,
         \/ \E c \in Cids : Found(w, c) \/ Unwant(w, c)
         \/ StopAsync(w)
         \/ \E k \in Tokens : CancelToken(w, k)
  PROVE  IInv'
<1>1. regs \subseteq Tokens \X Cids /\ cancelled \subseteq Tokens
  BY DEF IInv, TypeOK
<1>2. ASSUME NEW c \in Cids, Found(w, c) \/ Unwant(w, c)
      PROVE  IInv'
  BY <1>1, <1>2, BeginStep DEF Found, Unwant
<1>3. CASE StopAsync(w)
  BY <1>1, <1>3, BeginStep DEF StopAsync
<1>4. ASSUME NEW k \in Tokens, CancelToken(w, k)
      PROVE  IInv'
  BY <1>1, <1>4, BeginStep DEF CancelToken, Callbacks
<1> QED
  BY <1>2, <1>3, <1>4

-----------------------------------------------------------------------------
LEMMA InitInv == Init => IInv
<1> SUFFICES ASSUME Init PROVE IInv
  OBVIOUS
<1>1. \A x \in Threads : call[x] = Idle
  BY DEF Init
<1>2. TypeOK
  BY ConstantsAssumption, IdleRecord DEF Init, TypeOK, Outcome
<1>3. \A u \in Tasks : u \in Threads
  BY <1>2, Typing
<1>4. WantListInv
  BY <1>1, <1>3, IdleRecord DEF Init, WantListInv, EntryInv, ListInv, FreshInv, CallInv,
     CallOK, SignalInv, SignalOK, Started, HoldPcs, SignalPcs
<1>5. RightBlock /\ AnnouncedByCreator
  BY DEF Init, RightBlock, AnnouncedByCreator
<1> QED
  BY <1>2, <1>4, <1>5 DEF IInv

LEMMA NextInv == IInv /\ [Next]_vars => IInv'
<1> SUFFICES ASSUME IInv, [Next]_vars PROVE IInv'
  OBVIOUS
<1>1. CASE UNCHANGED vars
  BY <1>1 DEF vars, IInv, TypeOK, WantListInv, EntryInv, ListInv, FreshInv, CallInv,
     CallOK, SignalInv, SignalOK, Started, RightBlock, AnnouncedByCreator
<1>2. ASSUME NEW x \in Threads, Signal(x)
      PROVE  IInv'
  BY <1>2, TryRemoveStep, EnumerateStep, CompleteStep, SignalEndStep DEF Signal
<1>3. ASSUME NEW t \in Tasks, TaskStep(t)
      PROVE  IInv'
  BY <1>2, <1>3, InsertStep, UpdateStep, AddConsumerStep, PublishStep, RegisterStep,
     AnnounceStep DEF TaskStep, Threads
<1>4. ASSUME NEW w \in Workers, WorkerStep(w)
      PROVE  IInv'
  BY <1>2, <1>4, NextCidStep DEF WorkerStep, Threads
<1>5. CASE Calls
  BY <1>5, WantAsyncStep, WorkerCalls DEF Calls
<1> QED
  BY <1>1, <1>3, <1>4, <1>5 DEF Next

LEMMA Inductive == Spec => []IInv
BY InitInv, NextInv, PTL DEF Spec

(* The state stays well formed.                                            *)
THEOREM TypeCorrect == Spec => []TypeOK
<1>1. IInv => TypeOK
  BY DEF IInv
<1> QED
  BY <1>1, Inductive, PTL

(* No consumer is handed the block of another content id.                  *)
THEOREM RightBlockAlways == Spec => []RightBlock
<1>1. IInv => RightBlock
  BY DEF IInv
<1> QED
  BY <1>1, Inductive, PTL

(* Only the call that created an entry announces it.                       *)
THEOREM OnlyCreatorAnnounces == Spec => []AnnouncedByCreator
<1>1. IInv => AnnouncedByCreator
  BY DEF IInv
<1> QED
  BY <1>1, Inductive, PTL

(* An entry is only ever inserted for the object of a call that has none   *)
(* yet, so an object that left the dictionary stays out of it.             *)
THEOREM RemovedStaysOut == Spec => RemovedForGood
<1> DEFINE StaysOut == \A o \in Tasks : o \in consumers[o] /\ ~Listed(o) => ~Listed(o)'
<1>1. IInv /\ [Next]_vars => [StaysOut]_vars
  <2> SUFFICES ASSUME IInv, [Next]_vars, NEW o \in Tasks, o \in consumers[o], ~Listed(o)
               PROVE  ~Listed(o)'
    OBVIOUS
  <2>1. /\ TypeOK /\ FreshInv /\ CallInv /\ SignalInv
        /\ None \notin Tasks /\ wants \in [Cids -> Tasks \cup {None}]
    BY Typing DEF IInv, WantListInv
  <2>2. ASSUME NEW t \in Tasks, Insert(t)
        PROVE  ~Listed(o)'
    <3>1. t # o
      BY <2>1, <2>2 DEF FreshInv, FreshPcs, Insert, At
    <3> QED
      BY <2>1, <2>2, <3>1 DEF Insert, Listed
  <2>3. ASSUME NEW x \in Threads, TryRemove(x)
        PROVE  ~Listed(o)'
    BY <2>1, <2>3 DEF TryRemove, DropEntry, Listed
  <2>4. CASE wants' = wants
    BY <2>4 DEF Listed
  <2>5. ASSUME NEW x \in Threads, Signal(x)
        PROVE  ~Listed(o)'
    BY <2>3, <2>4, <2>5 DEF Signal, Enumerate, Complete, CompletionThrows, AllCompleted
  <2>6. CASE Calls
    BY <2>4, <2>6 DEF Calls, WantAsync, Found, Unwant, StopAsync, CancelToken
  <2>7. ASSUME NEW t \in Tasks, TaskStep(t)
        PROVE  ~Listed(o)'
    BY <2>2, <2>4, <2>5, <2>7
    DEF TaskStep, Update, AddConsumer, Publish, Register, Announce, Threads
  <2>8. ASSUME NEW w \in Workers, WorkerStep(w)
        PROVE  ~Listed(o)'
    BY <2>4, <2>5, <2>8 DEF WorkerStep, NextCid, Threads
  <2>9. CASE UNCHANGED vars
    BY <2>4, <2>9 DEF vars
  <2> QED
    BY <2>6, <2>7, <2>8, <2>9 DEF Next
<1> QED
  BY <1>1, Inductive, PTL DEF RemovedForGood, Spec

-----------------------------------------------------------------------------
(* Cancellation.  What a thread unwants on behalf of a token was asked for *)
(* by a call that passed the token.                                        *)

Asked(k, c) == \E u \in Tasks : Started(u) /\ call[u].token = k /\ call[u].cid = c

ForToken(x) ==
  call[x].token # None =>
    /\ \A c \in call[x].queue : Asked(call[x].token, c)
    /\ call[x].pc \in SignalPcs => Asked(call[x].token, call[x].cid)

CancelledOK(t) ==
  outcome[t].status = "cancelled" /\ outcome[t].value # None
    => Asked(outcome[t].value, call[t].cid)

CancelInv ==
  /\ \A r \in regs : Asked(r[1], r[2])
  /\ \A x \in Threads : ForToken(x)
  /\ \A t \in Tasks : CancelledOK(t)

CInv == IInv /\ CancelInv

(* A call keeps its content id and its token for good.                     *)
LEMMA TasksKeep ==
  ASSUME IInv, [Next]_vars, NEW u \in Tasks, Started(u)
  PROVE  Started(u)' /\ call'[u].token = call[u].token /\ call'[u].cid = call[u].cid
<1>1. TypeOK /\ u \in Threads /\ call \in [Threads -> CallRecord] /\ (\A w \in Workers : w # u)
  BY Typing DEF IInv, TypeOK
<1>2. call[u].pc # "idle"
  BY DEF Started
<1>2a. call[u] \in CallRecord
  BY <1>1
<1>3. ASSUME NEW x \in Threads, Signal(x)
      PROVE  Started(u)' /\ call'[u].token = call[u].token /\ call'[u].cid = call[u].cid
  <2>1. ASSUME NEW pc \in {"announce", "threw", "next"}, Goto(x, pc)
        PROVE  Started(u)' /\ call'[u].token = call[u].token /\ call'[u].cid = call[u].cid
    BY <1>1, <1>2, <1>2a, <2>1 DEF Goto, Started, CallRecord
  <2>2. CASE TryRemove(x)
    BY <1>1, <1>2, <1>2a, <2>1, <2>2 DEF TryRemove, Return, Started, CallRecord
  <2>3. CASE Enumerate(x)
    BY <1>1, <1>2, <1>2a, <2>3 DEF Enumerate, Started, CallRecord
  <2>4. CASE CompletionThrows(x) \/ AllCompleted(x)
    <3>1. PICK r \in CallRecord : LetsGo(x, r)
      BY <1>1, <2>4, SignalEndForm
    <3> QED
      BY <1>1, <1>2, <1>2a, <3>1 DEF LetsGo, Started
  <2>5. ASSUME NEW v \in Tasks, Complete(x, v)
        PROVE  Started(u)' /\ call'[u].token = call[u].token /\ call'[u].cid = call[u].cid
    BY <1>1, <1>2, <1>2a, <2>5 DEF Complete, Started, CallRecord
  <2> QED
    BY <1>3, <2>2, <2>3, <2>4, <2>5 DEF Signal
<1>4. ASSUME NEW t \in Tasks, TaskStep(t)
      PROVE  Started(u)' /\ call'[u].token = call[u].token /\ call'[u].cid = call[u].cid
  <2>1. CASE Signal(t)
    BY <1>3, <2>1 DEF Threads
  <2>2. CASE Insert(t) \/ Update(t)
    BY <1>1, <1>2, <1>2a, <2>2 DEF Insert, Update, Started, CallRecord
  <2>3. CASE AddConsumer(t) \/ Publish(t)
    BY <1>1, <1>2, <1>2a, <2>3 DEF AddConsumer, Publish, Started, CallRecord
  <2>4. CASE Register(t) \/ Announce(t)
    BY <1>1, <1>2, <1>2a, <2>4 DEF Register, Announce, Started, CallRecord
  <2> QED
    BY <1>4, <2>1, <2>2, <2>3, <2>4 DEF TaskStep
<1>5. ASSUME NEW w \in Workers, WorkerStep(w)
      PROVE  Started(u)' /\ call'[u].token = call[u].token /\ call'[u].cid = call[u].cid
  <2>1. CASE Signal(w)
    BY <1>3, <2>1 DEF Threads
  <2>2. CASE NextCid(w)
    BY <1>1, <1>2, <2>2 DEF NextCid, Started
  <2> QED
    BY <1>5, <2>1, <2>2 DEF WorkerStep
<1>6. CASE Calls
  BY <1>1, <1>2, <1>6
  DEF Calls, WantAsync, At, Found, Unwant, StopAsync, CancelToken, Begin, Started
<1>7. CASE UNCHANGED vars
  BY <1>2, <1>7 DEF vars, Started
<1> QED
  BY <1>4, <1>5, <1>6, <1>7 DEF Next

LEMMA AskedStays ==
  ASSUME IInv, [Next]_vars, NEW k, NEW c, Asked(k, c)
  PROVE  \E u \in Tasks : Started(u)' /\ call'[u].token = k /\ call'[u].cid = c
BY TasksKeep DEF Asked

(* One thread moves: the others ask, unwant and wait for what they did.    *)
LEMMA CancelMove ==
  ASSUME CInv, [Next]_vars, NEW x \in Threads,
         \A y \in Threads : y # x => call'[y] = call[y],
         ForToken(x)',
         \A e \in regs' : e \in regs \/ Asked(e[1], e[2])',
         \A t \in Tasks :
           CancelledOK(t)' \/ (outcome'[t] = outcome[t] /\ (t = x => Started(t)))
  PROVE  CancelInv'
<1>1. IInv /\ \A u \in Tasks : u \in Threads
  BY Typing DEF CInv, IInv
<1>2. ASSUME NEW k, NEW c, Asked(k, c)
      PROVE  Asked(k, c)'
  BY <1>1, <1>2, AskedStays DEF Asked, Started
<1>3. \A e \in regs' : Asked(e[1], e[2])'
  BY <1>2 DEF CInv, CancelInv
<1>4. ASSUME NEW y \in Threads, y # x
      PROVE  ForToken(y)'
  <2>1. ForToken(y) /\ call'[y] = call[y]
    BY <1>4 DEF CInv, CancelInv
  <2>2. ASSUME NEW c, Asked(call[y].token, c)
        PROVE  Asked(call[y].token, c)'
    <3>1. PICK u \in Tasks : Started(u)' /\ call'[u].token = call[y].token /\ call'[u].cid = c
      BY <1>1, <2>2, AskedStays
    <3> QED
      BY <2>1, <3>1 DEF Asked, Started
  <2> QED
    BY <2>1, <2>2 DEF ForToken, Asked, Started
<1>5. ASSUME NEW t \in Tasks
      PROVE  CancelledOK(t)'
  <2>1. CASE outcome'[t] = outcome[t] /\ (t = x => Started(t))
    <3>1. call'[t].cid = call[t].cid
      BY <1>1, <2>1, TasksKeep
    <3>2. CancelledOK(t)
      BY DEF CInv, CancelInv
    <3>3. Asked(outcome[t].value, call[t].cid)
            => \E u \in Tasks : /\ Started(u)' /\ call'[u].token = outcome[t].value
                                /\ call'[u].cid = call[t].cid
      BY <1>1, AskedStays
    <3> QED
      BY <2>1, <3>1, <3>2, <3>3 DEF CancelledOK, Asked, Started
  <2> QED
    BY <2>1
<1> QED
  BY <1>3, <1>4, <1>5 DEF CancelInv

LEMMA CancelTaskStep ==
  ASSUME CInv, NEW t \in Tasks, TaskStep(t), ~Signal(t)
  PROVE  CancelInv'
<1>1. /\ IInv /\ [Next]_vars /\ t \in Threads /\ call[t] \in CallRecord
      /\ call \in [Threads -> CallRecord]
      /\ ForToken(t)
  BY Typing DEF CInv, CancelInv, IInv, TypeOK, Next
<1>2. /\ \A y \in Threads : y # t => call'[y] = call[y]
      /\ call'[t].queue = call[t].queue
      /\ Started(t) /\ outcome' = outcome
  <2>1. CASE Insert(t) \/ Update(t)
    BY <1>1, <2>1 DEF Insert, Update, Started, At, CallRecord
  <2>2. CASE AddConsumer(t) \/ Publish(t)
    BY <1>1, <2>2 DEF AddConsumer, Publish, Started, At, CallRecord
  <2>3. CASE Register(t) \/ Announce(t)
    BY <1>1, <2>3 DEF Register, Announce, Started, At, CallRecord
  <2> QED
    BY <2>1, <2>2, <2>3 DEF TaskStep
<1>3. Started(t)' /\ call'[t].token = call[t].token /\ call'[t].cid = call[t].cid
  BY <1>1, <1>2, TasksKeep
<1>4. Asked(call[t].token, call[t].cid)'
  <2>1. Started(t)' /\ call'[t].token = call'[t].token /\ call'[t].cid = call'[t].cid
    BY <1>3
  <2> QED
    BY <1>3 DEF Asked, Started
<1>5. ForToken(t)'
  <2>1. ASSUME NEW c \in call[t].queue, call[t].token # None
        PROVE  \E u \in Tasks : Started(u)' /\ call'[u].token = call[t].token /\ call'[u].cid = c
    BY <1>1, <2>1, AskedStays DEF ForToken
  <2> QED
    BY <1>2, <1>3, <2>1 DEF ForToken, Asked, Started
<1>6. \A e \in regs' : e \in regs \/ Asked(e[1], e[2])'
  <2>1. regs' \in {regs, regs \cup {<<call[t].token, call[t].cid>>}}
    BY DEF TaskStep, Insert, Update, AddConsumer, Publish, Register, Registration, Announce
  <2> QED
    BY <1>3, <2>1 DEF Asked, Started
<1> QED
  BY <1>1, <1>2, <1>5, <1>6, CancelMove

LEMMA CancelSignalStep ==
  ASSUME CInv, NEW x \in Threads, Signal(x), [Next]_vars
  PROVE  CancelInv'
<1>1. /\ IInv /\ call[x] \in CallRecord /\ call \in [Threads -> CallRecord]
      /\ ForToken(x) /\ SignalInv
      /\ \A u \in Tasks : u \in Threads
      /\ outcome \in [Tasks -> Outcome]
  BY Typing DEF CInv, CancelInv, IInv, TypeOK, WantListInv
<1>2. /\ \A y \in Threads : y # x => call'[y] = call[y]
      /\ call'[x].queue = call[x].queue /\ call'[x].token = call[x].token
      /\ call'[x].cid = call[x].cid /\ call[x].pc \in SignalPcs
      /\ regs' = regs
  <2>1. ASSUME NEW pc \in {"announce", "threw", "next"}, Goto(x, pc)
        PROVE  /\ \A y \in Threads : y # x => call'[y] = call[y]
               /\ call'[x].queue = call[x].queue /\ call'[x].token = call[x].token
               /\ call'[x].cid = call[x].cid
    BY <1>1, <2>1 DEF Goto, CallRecord
  <2>2. CASE TryRemove(x)
    BY <1>1, <2>1, <2>2 DEF TryRemove, Return, At, SignalPcs, CallRecord
  <2>3. CASE Enumerate(x)
    BY <1>1, <2>3 DEF Enumerate, At, SignalPcs, CallRecord
  <2>4. CASE CompletionThrows(x) \/ AllCompleted(x)
    <3>1. PICK r \in CallRecord : LetsGo(x, r)
      BY <1>1, <2>4, SignalEndForm
    <3> QED
      BY <1>1, <2>4, <3>1 DEF LetsGo, CompletionThrows, AllCompleted, At, SignalPcs
  <2>5. ASSUME NEW v \in Tasks, Complete(x, v)
        PROVE  /\ \A y \in Threads : y # x => call'[y] = call[y]
               /\ call'[x].queue = call[x].queue /\ call'[x].token = call[x].token
               /\ call'[x].cid = call[x].cid /\ call[x].pc \in SignalPcs
               /\ regs' = regs
    BY <1>1, <2>5 DEF Complete, At, SignalPcs, CallRecord
  <2> QED
    BY <2>2, <2>3, <2>4, <2>5 DEF Signal
<1>3. ASSUME NEW c, call[x].token # None, Asked(call[x].token, c)
      PROVE  \E u \in Tasks : Started(u)' /\ call'[u].token = call[x].token /\ call'[u].cid = c
  BY <1>1, <1>3, AskedStays
<1>4. ForToken(x)'
  <2>1. ASSUME NEW c \in call[x].queue, call[x].token # None
        PROVE  \E u \in Tasks : Started(u)' /\ call'[u].token = call[x].token /\ call'[u].cid = c
    BY <1>1, <1>3, <2>1 DEF ForToken
  <2>2. call[x].token # None =>
          \E u \in Tasks : /\ Started(u)' /\ call'[u].token = call[x].token
                           /\ call'[u].cid = call[x].cid
    BY <1>1, <1>2, <1>3 DEF ForToken
  <2> QED
    BY <1>2, <2>1, <2>2 DEF ForToken, Asked, Started
<1>5. ASSUME NEW t \in Tasks
      PROVE  CancelledOK(t)' \/ (outcome'[t] = outcome[t] /\ (t = x => Started(t)))
  <2>1. x \in Tasks => Started(x)
    BY <1>2 DEF SignalPcs, Started
  <2>2. CASE outcome' = outcome
    BY <2>1, <2>2
  <2>3. ASSUME NEW v \in Tasks, Complete(x, v)
        PROVE  CancelledOK(t)' \/ (outcome'[t] = outcome[t] /\ (t = x => Started(t)))
    <3>1. CASE t = v
      <4>1. Started(t) /\ call[t].cid = call[x].cid
        BY <1>1, <2>3, <3>1 DEF Complete, At, SignalInv, SignalOK
      <4>2. call'[t].cid = call[x].cid
        BY <1>1, <4>1, TasksKeep
      <4>3. outcome'[t] = Settled(x)
        BY <1>1, <2>3, <3>1 DEF Complete
      <4>4. outcome'[t].status = "cancelled" => outcome'[t].value = call[x].token
        BY <4>3 DEF Settled
      <4>5. call[x].token # None =>
              \E u \in Tasks : /\ Started(u)' /\ call'[u].token = call[x].token
                               /\ call'[u].cid = call[x].cid
        BY <1>1, <1>2, <1>3 DEF ForToken
      <4> QED
        BY <4>2, <4>4, <4>5 DEF CancelledOK, Asked, Started
    <3>2. CASE t # v
      BY <1>1, <2>1, <2>3, <3>2 DEF Complete
    <3> QED
      BY <3>1, <3>2
  <2> QED
    BY <2>2, <2>3 DEF Signal, TryRemove, Enumerate, CompletionThrows, AllCompleted
<1> QED
  BY <1>1, <1>2, <1>4, <1>5, CancelMove

LEMMA CancelCallStep ==
  ASSUME CInv, [Next]_vars,
         \/ \E t \in Tasks, c \in Cids, k \in Tokens \cup {None} : WantAsync(t, c, k)
         \/ \E w \in Workers, c \in Cids : Found(w, c) \/ Unwant(w, c)
         \/ \E w \in Workers : StopAsync(w) \/ NextCid(w)
         \/ \E w \in Workers, k \in Tokens : CancelToken(w, k)
  PROVE  CancelInv'
<1>1. /\ IInv /\ call \in [Threads -> CallRecord]
      /\ \A u \in Tasks : u \in Threads
      /\ \A w \in Workers : w \in Threads /\ w \notin Tasks
      /\ outcome \in [Tasks -> Outcome]
      /\ None \notin Tokens /\ None \notin Tasks
  BY Typing, ConstantsAssumption DEF CInv, IInv, TypeOK
<1>2. ASSUME NEW k, NEW c, Asked(k, c)
      PROVE  Asked(k, c)'
  BY <1>1, <1>2, AskedStays DEF Asked, Started
<1>3. ASSUME NEW t \in Tasks, NEW c \in Cids, NEW k \in Tokens \cup {None}, WantAsync(t, c, k)
      PROVE  CancelInv'
  <2>1. /\ \A y \in Threads : y # t => call'[y] = call[y]
        /\ call'[t].queue = {} /\ call'[t].pc = "lookup"
        /\ outcome'[t].status = "pending" /\ \A u \in Tasks : u # t => outcome'[u] = outcome[u]
        /\ regs' = regs
    BY <1>1, <1>3, IdleRecord DEF WantAsync, Idle
  <2>2. ForToken(t)'
    BY <2>1 DEF ForToken, SignalPcs
  <2>3. CancelledOK(t)'
    BY <2>1 DEF CancelledOK
  <2> QED
    BY <1>1, <2>1, <2>2, <2>3, CancelMove
<1>4. ASSUME NEW w \in Workers, NEW op, NEW k \in Tokens \cup {None}, NEW q \in SUBSET Cids,
             Begin(w, op, k, q), outcome' = outcome, regs' \subseteq regs,
             k # None => \A c \in q : Asked(k, c)
      PROVE  CancelInv'
  <2>1. /\ \A y \in Threads : y # w => call'[y] = call[y]
        /\ call'[w].queue = q /\ call'[w].pc = "next" /\ call'[w].token = k
    BY <1>1, <1>4 DEF Begin, Idle
  <2>2. ForToken(w)'
    BY <1>2, <1>4, <2>1 DEF ForToken, SignalPcs, Asked, Started
  <2> QED
    BY <1>1, <1>4, <2>1, <2>2, CancelMove
<1>5. ASSUME NEW w \in Workers, NEW c \in Cids, Found(w, c) \/ Unwant(w, c)
      PROVE  CancelInv'
  BY <1>1, <1>4, <1>5 DEF Found, Unwant
<1>6. ASSUME NEW w \in Workers, StopAsync(w)
      PROVE  CancelInv'
  BY <1>1, <1>4, <1>6 DEF StopAsync
<1>7. ASSUME NEW w \in Workers, NEW k \in Tokens, CancelToken(w, k)
      PROVE  CancelInv'
  <2>1. \A c \in Callbacks(k) : Asked(k, c)
    BY DEF CInv, CancelInv, Callbacks
  <2>2. Callbacks(k) \in SUBSET Cids
    BY DEF Callbacks
  <2> QED
    BY <1>4, <1>7, <2>1, <2>2 DEF CancelToken
<1>8. ASSUME NEW w \in Workers, NextCid(w)
      PROVE  CancelInv'
  <2>1. ForToken(w) /\ call[w] \in CallRecord
    BY <1>1 DEF CInv, CancelInv
  <2>2. /\ \A y \in Threads : y # w => call'[y] = call[y]
        /\ outcome' = outcome /\ regs' = regs
    BY <1>1, <1>8 DEF NextCid
  <2>3. ASSUME NEW r \in {Idle, [Idle EXCEPT !.pc = "threw"]}, call' = [call EXCEPT ![w] = r]
        PROVE  CancelInv'
    <3>1. call'[w].token = None
      BY <1>1, <2>3, IdleRecord DEF CallRecord
    <3>2. ForToken(w)'
      BY <3>1 DEF ForToken
    <3> QED
      BY <1>1, <2>2, <3>2, CancelMove
  <2>4. ASSUME NEW c \in call[w].queue,
               call' = [call EXCEPT ![w].pc = "remove", ![w].cid = c,
                                    ![w].queue = @ \ {c}]
        PROVE  CancelInv'
    <3>1. /\ call'[w].token = call[w].token /\ call'[w].cid = c
          /\ call'[w].queue = call[w].queue \ {c}
      BY <1>1, <2>1, <2>4 DEF CallRecord
    <3>2. ASSUME NEW d \in call[w].queue, call[w].token # None
          PROVE  \E u \in Tasks : Started(u)' /\ call'[u].token = call[w].token /\ call'[u].cid = d
      BY <1>1, <2>1, <3>2, AskedStays DEF ForToken
    <3>3. ForToken(w)'
      BY <3>1, <3>2 DEF ForToken, Asked, Started
    <3> QED
      BY <1>1, <2>2, <3>3, CancelMove
  <2> QED
    BY <1>8, <2>3, <2>4 DEF NextCid
<1> QED
  BY <1>3, <1>5, <1>6, <1>7, <1>8

LEMMA CancelNext == CInv /\ [Next]_vars => CInv'
<1> SUFFICES ASSUME CInv, [Next]_vars PROVE CInv'
  OBVIOUS
<1>1. IInv'
  BY NextInv DEF CInv
<1>2. ASSUME NEW x \in Threads, Signal(x)
      PROVE  CancelInv'
  BY <1>2, CancelSignalStep
<1>3. ASSUME NEW t \in Tasks, TaskStep(t)
      PROVE  CancelInv'
  BY <1>2, <1>3, CancelTaskStep DEF Threads
<1>4. ASSUME NEW w \in Workers, WorkerStep(w)
      PROVE  CancelInv'
  BY <1>2, <1>4, CancelCallStep DEF WorkerStep, Threads
<1>5. ASSUME Calls
      PROVE  CancelInv'
  BY <1>5, CancelCallStep DEF Calls
<1>6. ASSUME UNCHANGED vars
      PROVE  CancelInv'
  BY <1>6 DEF vars, CInv, CancelInv, ForToken, CancelledOK, Asked, Started
<1> QED
  BY <1>1, <1>3, <1>4, <1>5, <1>6 DEF CInv, Next

(* A cancelled token only ever reaches tasks that wait for a block some    *)
(* call passed the token for.                                              *)
THEOREM CancellationContained == Spec => []CancelStaysWithinBlock
<1>1. Init => CInv
  <2> SUFFICES ASSUME Init PROVE CInv
    OBVIOUS
  <2>1. IInv
    BY InitInv
  <2>2. \A x \in Threads : call[x].token = None
    BY IdleRecord DEF Init
  <2> QED
    BY <2>1, <2>2 DEF Init, CInv, CancelInv, ForToken, CancelledOK
<1>2. CInv => CancelStaysWithinBlock
  BY DEF CInv, CancelInv, CancelledOK, CancelStaysWithinBlock, Asked
<1> QED
  BY <1>1, <1>2, CancelNext, PTL DEF Spec

-----------------------------------------------------------------------------
(* When calls do not overlap, one thread at a time is in a call: what it   *)
(* read is what is there, the consumers of an entry are pending, and a     *)
(* pending task is on the list or in the hand of that thread.              *)

Pending(u) == outcome[u].status = "pending"

One == \A x, y \in Threads : call[x].pc \notin Resting /\ call[y].pc \notin Resting => x = y

AllPending ==
  \A c \in Cids : wants[c] # None => \A u \in consumers[wants[c]] : Pending(u)

Held ==
  \A t \in Tasks :
    Pending(t) /\ call[t].pc \notin {"idle", "lookup", "adding"} => OnList(t) \/ InHand(t)

Told == \A o \in Tasks : Listed(o) /\ call[o].pc = "returned" => <<o, o>> \in announced

Joining(t) ==
  /\ call[t].pc \in {"lookup", "adding"} => Pending(t)
  /\ call[t].pc \in {"adding", "publish", "register"} => wants[call[t].cid] = call[t].want
  /\ call[t].pc = "adding" => call[t].seen = consumers[call[t].want]
  /\ call[t].pc = "announce" => wants[call[t].cid] \in {None, call[t].want}
  /\ call[t].pc \in {"register", "announce"} /\ wants[call[t].cid] = t => consumers[t] = {t}

Signalling(x) ==
  /\ call[x].pc \in {"removed", "signal"} => wants[call[x].cid] = None
  /\ call[x].pc = "removed" => \A u \in consumers[call[x].block] : Pending(u)
  /\ call[x].pc = "signal" => /\ consumers[call[x].block] = call[x].seen
                              /\ \A u \in call[x].todo : Pending(u)
  /\ call[x].pc # "signal" => call[x].todo = {}

SerialInv ==
  /\ One /\ NeverThrows /\ AllPending /\ Held /\ Told
  /\ \A t \in Tasks : Joining(t)
  /\ \A x \in Threads : Signalling(x)

SInv == IInv /\ SerialInv

Alone(x) == \A y \in Threads : y # x => call[y].pc \in Resting

LEMMA SerialFacts ==
  ASSUME SInv
  PROVE  /\ TypeOK /\ EntryInv /\ ListInv /\ FreshInv /\ CallInv /\ SignalInv
         /\ One /\ NeverThrows /\ AllPending /\ Held /\ Told
         /\ \A t \in Tasks : Joining(t)
         /\ \A x \in Threads : Signalling(x)
         /\ wants \in [Cids -> Tasks \cup {None}] /\ consumers \in [Tasks -> SUBSET Tasks]
         /\ call \in [Threads -> CallRecord] /\ outcome \in [Tasks -> Outcome]
         /\ \A u \in Tasks : u \in Threads
         /\ None \notin Tasks /\ None \notin Cids
BY Typing DEF SInv, IInv, WantListInv, SerialInv, TypeOK

LEMMA BusyAlone ==
  ASSUME SInv, NEW x \in Threads, call[x].pc \notin Resting
  PROVE  Alone(x)
BY DEF SInv, SerialInv, One, Alone

(* Nothing is in the hand of a thread that rests.                          *)
LEMMA HandOf ==
  ASSUME SInv, NEW x \in Threads, Alone(x), NEW t \in Tasks, InHand(t)
  PROVE  \/ t \in call[x].todo /\ call[x].pc = "signal"
         \/ call[x].pc = "removed" /\ t \in consumers[call[x].block]
<1>1. PICK y \in Threads : \/ t \in call[y].todo
                           \/ call[y].pc = "removed" /\ t \in consumers[call[y].block]
  BY DEF InHand
<1>2. call[y].pc \in {"signal", "removed"} /\ (t \in call[y].todo => call[y].pc = "signal")
  BY <1>1, SerialFacts DEF Signalling
<1>3. y = x
  BY <1>2 DEF Alone, Resting
<1> QED
  BY <1>1, <1>2, <1>3

(* The thread that moves is the only one there is something to say about.  *)
LEMMA OthersRest ==
  ASSUME SInv, NEW x \in Threads, Alone(x),
         \A y \in Threads : y # x => call'[y] = call[y],
         call'[x].pc # "threw", call'[x].failed => call[x].failed,
         x \in Tasks => Joining(x)', Signalling(x)'
  PROVE  /\ One' /\ NeverThrows'
         /\ \A t \in Tasks : Joining(t)'
         /\ \A y \in Threads : Signalling(y)'
<1>1. One'
  BY DEF One, Alone
<1>2. NeverThrows'
  BY SerialFacts DEF NeverThrows
<1>3. ASSUME NEW t \in Tasks
      PROVE  Joining(t)'
  <2>1. CASE t = x
    BY <2>1
  <2>2. CASE t # x
    <3>1. call'[t].pc \in Resting
      BY <2>2, SerialFacts DEF Alone
    <3> QED
      BY <3>1 DEF Joining, Resting
  <2> QED
    BY <2>1, <2>2
<1>4. ASSUME NEW y \in Threads
      PROVE  Signalling(y)'
  <2>1. CASE y = x
    BY <2>1
  <2>2. CASE y # x
    <3>1. call'[y] = call[y] /\ call[y].pc \in Resting /\ Signalling(y)
      BY <2>2, SerialFacts DEF Alone
    <3> QED
      BY <3>1 DEF Signalling, Resting
  <2> QED
    BY <2>1, <2>2
<1> QED
  BY <1>1, <1>2, <1>3, <1>4

(* The steps that change no entry, list or task.                           *)
LEMMA SerialQuiet ==
  ASSUME SInv, NEW x \in Threads, Alone(x),
         \A y \in Threads : y # x => call'[y] = call[y],
         wants' = wants, consumers' = consumers, outcome' = outcome,
         announced \subseteq announced',
         call[x].pc # "removed", call[x].pc = "signal" => call[x].todo = {},
         call[x].pc \in {"idle", "lookup", "adding"}
           => x \notin Tasks \/ call'[x].pc \in {"idle", "lookup", "adding"},
         x \in Tasks /\ call'[x].pc = "returned" /\ Listed(x) => <<x, x>> \in announced',
         call'[x].pc # "threw", call'[x].failed => call[x].failed,
         x \in Tasks => Joining(x)', Signalling(x)'
  PROVE  SerialInv'
<1>1. AllPending'
  BY SerialFacts DEF AllPending, Pending
<1>2. Told'
  <2> SUFFICES ASSUME NEW o \in Tasks, Listed(o)', call'[o].pc = "returned"
               PROVE  <<o, o>> \in announced'
    BY DEF Told
  <2>1. Listed(o)
    BY DEF Listed
  <2>2. CASE o = x
    BY <2>1, <2>2
  <2>3. CASE o # x
    BY <2>1, <2>3, SerialFacts DEF Told
  <2> QED
    BY <2>2, <2>3
<1>3. Held'
  <2> SUFFICES ASSUME NEW t \in Tasks, Pending(t)', call'[t].pc \notin {"idle", "lookup", "adding"}
               PROVE  OnList(t)'
    BY DEF Held
  <2>1. Pending(t) /\ t \in Threads
    BY SerialFacts DEF Pending
  <2>2. call[t].pc \notin {"idle", "lookup", "adding"}
    BY <2>1
  <2>3. OnList(t) \/ InHand(t)
    BY <2>1, <2>2, SerialFacts DEF Held
  <2>4. ~InHand(t)
    BY HandOf
  <2> QED
    BY <2>3, <2>4 DEF OnList
<1> QED
  BY <1>1, <1>2, <1>3, OthersRest DEF SerialInv

-----------------------------------------------------------------------------
(* The steps of WantAsync, one call at a time.                             *)

LEMMA SerialUpdate ==
  ASSUME SInv, NEW t \in Tasks, Update(t)
  PROVE  SerialInv'
<1>1. /\ t \in Threads /\ call[t] \in CallRecord /\ call \in [Threads -> CallRecord]
      /\ Joining(t) /\ Signalling(t)
  BY SerialFacts
<1>2. call[t].pc = "lookup" /\ UNCHANGED <<wants, consumers, outcome, regs, cancelled, announced>>
  BY DEF Update, At
<1>3. /\ \A y \in Threads : y # t => call'[y] = call[y]
      /\ call'[t].pc = "adding" /\ call'[t].cid = call[t].cid
      /\ call'[t].want = wants[call[t].cid]
      /\ call'[t].seen = consumers[wants[call[t].cid]]
      /\ call'[t].todo = call[t].todo
      /\ call'[t].failed = call[t].failed
  BY <1>1 DEF Update, Entry, CallRecord
<1>4. Alone(t)
  BY <1>1, <1>2, BusyAlone DEF Resting
<1>5. Joining(t)' /\ Signalling(t)'
  BY <1>1, <1>2, <1>3 DEF Joining, Signalling, Pending
<1> QED
  BY <1>1, <1>2, <1>3, <1>4, <1>5, SerialQuiet

LEMMA SerialPublish ==
  ASSUME SInv, NEW t \in Tasks, Publish(t)
  PROVE  SerialInv'
<1>1. /\ t \in Threads /\ call[t] \in CallRecord /\ call \in [Threads -> CallRecord]
      /\ Joining(t) /\ Signalling(t) /\ CallInv /\ FreshInv
  BY SerialFacts
<1>2. call[t].pc = "publish" /\ UNCHANGED <<wants, consumers, outcome, regs, cancelled, announced>>
  BY DEF Publish, At
<1>3. call[t].want = wants[call[t].cid] /\ call[t].want # t
  BY <1>1, <1>2 DEF Joining, CallInv, CallOK, HoldPcs, FreshInv, FreshPcs
<1>4. /\ \A y \in Threads : y # t => call'[y] = call[y]
      /\ call'[t].pc = "register" /\ call'[t].cid = call[t].cid
      /\ call'[t].want = call[t].want /\ call'[t].todo = call[t].todo
      /\ call'[t].failed = call[t].failed
  BY <1>1, <1>3 DEF Publish, Unchanged, CallRecord
<1>5. Alone(t)
  BY <1>1, <1>2, BusyAlone DEF Resting
<1>6. Joining(t)' /\ Signalling(t)'
  BY <1>1, <1>2, <1>3, <1>4 DEF Joining, Signalling, Pending
<1> QED
  BY <1>1, <1>2, <1>4, <1>5, <1>6, SerialQuiet

LEMMA SerialRegister ==
  ASSUME SInv, NEW t \in Tasks, Register(t)
  PROVE  SerialInv'
<1>1. /\ t \in Threads /\ call[t] \in CallRecord /\ call \in [Threads -> CallRecord]
      /\ Joining(t) /\ Signalling(t)
  BY SerialFacts
<1>2. call[t].pc = "register" /\ UNCHANGED <<wants, consumers, outcome, cancelled, announced>>
  BY DEF Register, At
<1>3. /\ \A y \in Threads : y # t => call'[y] = call[y]
      /\ call'[t].pc \in {"remove", "announce"} /\ call'[t].cid = call[t].cid
      /\ call'[t].want = call[t].want /\ call'[t].todo = call[t].todo
      /\ call'[t].failed = call[t].failed
  BY <1>1 DEF Register, CallRecord
<1>4. Alone(t)
  BY <1>1, <1>2, BusyAlone DEF Resting
<1>5. Joining(t)' /\ Signalling(t)'
  BY <1>1, <1>2, <1>3 DEF Joining, Signalling, Pending
<1> QED
  BY <1>1, <1>2, <1>3, <1>4, <1>5, SerialQuiet

(* A call that returns with its object on the list was alone in it.        *)
LEMMA SerialAnnounce ==
  ASSUME SInv, NEW t \in Tasks, Announce(t)
  PROVE  SerialInv'
<1>1. /\ t \in Threads /\ call[t] \in CallRecord /\ call \in [Threads -> CallRecord]
      /\ Joining(t) /\ Signalling(t) /\ EntryInv /\ CallInv
      /\ None \notin Tasks
  BY SerialFacts
<1>2. call[t].pc = "announce" /\ UNCHANGED <<wants, consumers, outcome, regs, cancelled>>
  BY DEF Announce, At
<1>3. /\ \A y \in Threads : y # t => call'[y] = call[y]
      /\ call'[t].pc = "returned" /\ call'[t].todo = call[t].todo
      /\ call'[t].failed = call[t].failed
  BY <1>1 DEF Announce, CallRecord
<1>4. Alone(t)
  BY <1>1, <1>2, BusyAlone DEF Resting
<1>5. Joining(t)' /\ Signalling(t)'
  BY <1>1, <1>2, <1>3 DEF Joining, Signalling, Pending
<1>6. announced \subseteq announced'
  BY DEF Announce
<1>7. Listed(t) => <<t, t>> \in announced'
  <2> SUFFICES ASSUME NEW c \in Cids, wants[c] = t
               PROVE  <<t, t>> \in announced'
    BY DEF Listed
  <2>1. call[t].cid = c
    BY <1>1 DEF EntryInv
  <2>2. call[t].want = t /\ consumers[t] = {t}
    BY <1>1, <1>2, <2>1 DEF Joining
  <2> QED
    BY <2>2 DEF Announce, OneConsumer
<1> QED
  BY <1>1, <1>2, <1>3, <1>4, <1>5, <1>6, <1>7, SerialQuiet

LEMMA SerialInsert ==
  ASSUME SInv, NEW t \in Tasks, Insert(t)
  PROVE  SerialInv'
<1>1. /\ t \in Threads /\ call[t] \in CallRecord /\ call \in [Threads -> CallRecord]
      /\ Joining(t) /\ Signalling(t) /\ EntryInv /\ CallInv /\ FreshInv
      /\ wants \in [Cids -> Tasks \cup {None}] /\ consumers \in [Tasks -> SUBSET Tasks]
      /\ AllPending /\ Held /\ Told /\ None \notin Tasks
      /\ \A u \in Tasks : u \in Threads
  BY SerialFacts
<1> DEFINE c == call[t].cid
<1>2. /\ call[t].pc = "lookup" /\ wants[c] = None /\ c \in Cids /\ consumers[t] = {}
      /\ outcome' = outcome /\ announced' = announced
      /\ wants' = [wants EXCEPT ![c] = t]
      /\ consumers' = [consumers EXCEPT ![t] = {t}]
  BY <1>1 DEF Insert, Entry, At, CallInv, CallOK, Started, FreshInv, FreshPcs
<1>3. /\ \A y \in Threads : y # t => call'[y] = call[y]
      /\ call'[t].pc = "register" /\ call'[t].cid = c
      /\ call'[t].want = t /\ call'[t].todo = call[t].todo
      /\ call'[t].failed = call[t].failed
  BY <1>1 DEF Insert, CallRecord
<1> HIDE DEF c
<1>4. Alone(t)
  BY <1>1, <1>2, BusyAlone DEF Resting
<1>5. Joining(t)' /\ Signalling(t)'
  BY <1>1, <1>2, <1>3 DEF Joining, Signalling, Pending
<1>6. AllPending'
  BY <1>1, <1>2 DEF AllPending, Joining, Pending, EntryInv
<1>7. Told'
  BY <1>1, <1>2, <1>3 DEF Told, Listed
<1>8. Held'
  <2> SUFFICES ASSUME NEW u \in Tasks, Pending(u)', call'[u].pc \notin {"idle", "lookup", "adding"}
               PROVE  OnList(u)'
    BY DEF Held
  <2>1. CASE u = t
    BY <1>1, <1>2, <2>1 DEF OnList
  <2>2. CASE u # t
    <3>1. OnList(u) \/ InHand(u)
      BY <1>1, <1>2, <1>3, <2>2 DEF Held, Pending
    <3>2. ~InHand(u)
      BY <1>1, <1>2, <1>4, HandOf
    <3>3. PICK d \in Cids : wants[d] # None /\ u \in consumers[wants[d]]
      BY <3>1, <3>2 DEF OnList
    <3>4. d # c /\ wants[d] # t
      BY <1>1, <1>2, <3>3 DEF EntryInv
    <3> QED
      BY <1>1, <1>2, <3>3, <3>4 DEF OnList
  <2> QED
    BY <2>1, <2>2
<1> QED
  BY <1>1, <1>3, <1>4, <1>5, <1>6, <1>7, <1>8, OthersRest DEF SerialInv

(* The write-back appends to the list as it is.                            *)
LEMMA SerialAddConsumer ==
  ASSUME SInv, NEW t \in Tasks, AddConsumer(t)
  PROVE  SerialInv'
<1>1. /\ t \in Threads /\ call[t] \in CallRecord /\ call \in [Threads -> CallRecord]
      /\ Joining(t) /\ Signalling(t) /\ EntryInv /\ CallInv
      /\ wants \in [Cids -> Tasks \cup {None}] /\ consumers \in [Tasks -> SUBSET Tasks]
      /\ AllPending /\ Held /\ Told /\ None \notin Tasks
      /\ \A u \in Tasks : u \in Threads
  BY SerialFacts
<1> DEFINE o == call[t].want
<1>2. /\ call[t].pc = "adding" /\ wants[call[t].cid] = o /\ call[t].cid \in Cids
      /\ o \in Tasks /\ o # t /\ Pending(t)
      /\ wants' = wants /\ outcome' = outcome /\ announced' = announced
      /\ consumers' = [consumers EXCEPT ![o] = consumers[o] \cup {t}]
  BY <1>1 DEF AddConsumer, Appended, At, CallInv, CallOK, HoldPcs, Started, Joining
<1>3. /\ \A y \in Threads : y # t => call'[y] = call[y]
      /\ call'[t].pc = "publish" /\ call'[t].cid = call[t].cid
      /\ call'[t].want = o /\ call'[t].todo = call[t].todo
      /\ call'[t].failed = call[t].failed
  BY <1>1 DEF AddConsumer, CallRecord
<1> HIDE DEF o
<1>4. Alone(t)
  BY <1>1, <1>2, BusyAlone DEF Resting
<1>5. Joining(t)' /\ Signalling(t)'
  BY <1>1, <1>2, <1>3 DEF Joining, Signalling, Pending
<1>6. AllPending'
  BY <1>1, <1>2 DEF AllPending, Pending
<1>7. Told'
  BY <1>1, <1>2, <1>3 DEF Told, Listed
<1>8. Held'
  <2> SUFFICES ASSUME NEW u \in Tasks, Pending(u)', call'[u].pc \notin {"idle", "lookup", "adding"}
               PROVE  OnList(u)'
    BY DEF Held
  <2>1. CASE u = t
    BY <1>1, <1>2, <2>1 DEF OnList
  <2>2. CASE u # t
    <3>1. OnList(u) \/ InHand(u)
      BY <1>1, <1>2, <1>3, <2>2 DEF Held, Pending
    <3>2. ~InHand(u)
      BY <1>1, <1>2, <1>4, HandOf
    <3>3. PICK d \in Cids : wants[d] # None /\ u \in consumers[wants[d]]
      BY <3>1, <3>2 DEF OnList
    <3> QED
      BY <1>1, <1>2, <3>3 DEF OnList
  <2> QED
    BY <2>1, <2>2
<1> QED
  BY <1>1, <1>3, <1>4, <1>5, <1>6, <1>7, <1>8, OthersRest DEF SerialInv

(* The call that starts has a task nobody has in a list yet.               *)
LEMMA SerialWantAsync ==
  ASSUME SInv, Concurrent = FALSE, NEW t \in Tasks, NEW c \in Cids,
         NEW k \in Tokens \cup {None}, WantAsync(t, c, k)
  PROVE  SerialInv'
<1>1. /\ t \in Threads /\ call \in [Threads -> CallRecord]
      /\ Signalling(t) /\ EntryInv /\ ListInv /\ FreshInv
      /\ wants \in [Cids -> Tasks \cup {None}] /\ consumers \in [Tasks -> SUBSET Tasks]
      /\ AllPending /\ Held /\ Told /\ None \notin Tasks
      /\ \A u \in Tasks : u \in Threads
      /\ outcome \in [Tasks -> Outcome]
  BY SerialFacts
<1>2. /\ call[t].pc = "idle" /\ Alone(t)
      /\ wants' = wants /\ consumers' = consumers /\ announced' = announced
      /\ outcome'[t].status = "pending"
      /\ \A u \in Tasks : u # t => outcome'[u] = outcome[u]
  BY <1>1 DEF WantAsync, At, MayStart, Alone
<1>3. /\ \A y \in Threads : y # t => call'[y] = call[y]
      /\ call'[t].pc = "lookup" /\ call'[t].todo = {} /\ ~call'[t].failed
  BY <1>1, IdleRecord DEF WantAsync, Idle
<1>4. Joining(t)' /\ Signalling(t)'
  BY <1>2, <1>3 DEF Joining, Signalling, Pending
<1>5. \A o \in Tasks : t \notin consumers[o]
  BY <1>1, <1>2 DEF ListInv, Started
<1>6. AllPending'
  BY <1>1, <1>2, <1>5 DEF AllPending, Pending
<1>7. Told'
  BY <1>1, <1>2, <1>3 DEF Told, Listed
<1>8. Held'
  <2> SUFFICES ASSUME NEW u \in Tasks, Pending(u)', call'[u].pc \notin {"idle", "lookup", "adding"}
               PROVE  OnList(u)'
    BY DEF Held
  <2>1. u # t /\ Pending(u) /\ call'[u] = call[u]
    BY <1>1, <1>2, <1>3 DEF Pending
  <2>2. OnList(u) \/ InHand(u)
    BY <1>1, <2>1 DEF Held
  <2>3. ~InHand(u)
    BY <1>1, <1>2, HandOf
  <2> QED
    BY <1>2, <2>2, <2>3 DEF OnList
<1> QED
  BY <1>1, <1>2, <1>3, <1>4, <1>6, <1>7, <1>8, OthersRest DEF SerialInv

-----------------------------------------------------------------------------
(* The steps of a worker, one call at a time.                              *)

LEMMA SerialWorkerStep ==
  ASSUME SInv, NEW w \in Workers, Alone(w), NEW r \in CallRecord,
         call' = [call EXCEPT ![w] = r], r.pc \in {"next", "idle", "remove"},
         r.todo = {}, ~r.failed, call[w].pc \notin {"removed", "signal"},
         UNCHANGED <<wants, consumers, outcome, announced>>
  PROVE  SerialInv'
<1>1. w \in Threads /\ w \notin Tasks /\ call \in [Threads -> CallRecord]
  BY SerialFacts, ConstantsAssumption DEF Threads
<1>2. /\ \A y \in Threads : y # w => call'[y] = call[y]
      /\ call'[w] = r
  BY <1>1
<1>3. Signalling(w)'
  BY <1>2 DEF Signalling
<1> QED
  BY <1>1, <1>2, <1>3, SerialQuiet

LEMMA SerialWorker ==
  ASSUME SInv, Concurrent = FALSE, NEW w \in Workers,
         \/ \E c \in Cids : Found(w, c) \/ Unwant(w, c)
         \/ StopAsync(w) \/ NextCid(w)
         \/ \E k \in Tokens : CancelToken(w, k)
  PROVE  SerialInv'
<1>1. /\ w \in Threads /\ call[w] \in CallRecord /\ call \in [Threads -> CallRecord]
      /\ Signalling(w) /\ regs \subseteq Tokens \X Cids
  BY SerialFacts DEF Threads, TypeOK
<1>2. ASSUME NEW op \in {"found", "unwant", "stop", "cancel"}, NEW k \in Tokens \cup {None},
             NEW q \in SUBSET Cids, Begin(w, op, k, q),
             UNCHANGED <<wants, consumers, outcome, announced>>
      PROVE  SerialInv'
  <2> DEFINE r == [Idle EXCEPT !.pc = "next", !.op = op, !.token = k, !.queue = q]
  <2>1. r \in CallRecord /\ r.pc = "next" /\ r.todo = {} /\ ~r.failed
    BY IdleRecord DEF CallRecord
  <2>2. call' = [call EXCEPT ![w] = r] /\ Alone(w) /\ call[w].pc \in Resting
    BY <1>1, <1>2 DEF Begin, MayStart, Alone
  <2> HIDE DEF r
  <2>3. call[w].pc \notin {"removed", "signal"}
    BY <2>2 DEF Resting
  <2> QED
    BY <1>2, <2>1, <2>2, <2>3, SerialWorkerStep
<1>3. ASSUME NEW c \in Cids, Found(w, c) \/ Unwant(w, c)
      PROVE  SerialInv'
  BY <1>2, <1>3 DEF Found, Unwant
<1>4. ASSUME StopAsync(w)
      PROVE  SerialInv'
  BY <1>2, <1>4 DEF StopAsync
<1>5. ASSUME NEW k \in Tokens, CancelToken(w, k)
      PROVE  SerialInv'
  BY <1>2, <1>5 DEF CancelToken, Callbacks
<1>6. ASSUME NextCid(w)
      PROVE  SerialInv'
  <2>1. /\ call[w].pc = "next" /\ call[w].todo = {} /\ call[w].queue \subseteq Cids
        /\ ~call[w].failed
        /\ UNCHANGED <<wants, consumers, outcome, regs, cancelled, announced>>
    BY <1>1, <1>6, SerialFacts DEF NeverThrows, NextCid, At, Signalling, CallRecord
  <2>2. Alone(w)
    BY <1>1, <2>1, BusyAlone DEF Resting
  <2>3. ASSUME call' = [call EXCEPT ![w] = Idle]
        PROVE  SerialInv'
    BY <2>1, <2>2, <2>3, IdleRecord, SerialWorkerStep
  <2>4. ASSUME NEW c \in call[w].queue,
               call' = [call EXCEPT ![w].pc = "remove", ![w].cid = c,
                                    ![w].queue = @ \ {c}]
        PROVE  SerialInv'
    <3> DEFINE r == [call[w] EXCEPT !.pc = "remove", !.cid = c, !.queue = call[w].queue \ {c}]
    <3>1. r \in CallRecord /\ r.pc = "remove" /\ r.todo = {} /\ ~r.failed
      BY <1>1, <2>1, <2>4 DEF CallRecord, SignalPcs
    <3>2. call' = [call EXCEPT ![w] = r]
      BY <1>1, <2>4
    <3> HIDE DEF r
    <3> QED
      BY <2>1, <2>2, <3>1, <3>2, SerialWorkerStep
  <2> QED
    BY <1>6, <2>1, <2>3, <2>4 DEF NextCid
<1> QED
  BY <1>3, <1>4, <1>5, <1>6

-----------------------------------------------------------------------------
(* Removing an entry and completing its consumers, one call at a time.     *)

LEMMA SerialGoto ==
  ASSUME SInv, NEW x \in Threads, NEW pc \in {"announce", "next"}, Goto(x, pc),
         call[x].pc \in SignalPcs, call[x].pc # "removed",
         call[x].pc = "signal" => call[x].todo = {},
         wants[call[x].cid] = None,
         x \in Tasks => pc = "announce",
         UNCHANGED <<wants, consumers, outcome, announced>>
  PROVE  SerialInv'
<1>1. /\ call[x] \in CallRecord /\ call \in [Threads -> CallRecord]
      /\ Signalling(x) /\ None \notin Tasks
  BY SerialFacts
<1>2. /\ \A y \in Threads : y # x => call'[y] = call[y]
      /\ call'[x].pc = pc /\ call'[x].cid = call[x].cid /\ call'[x].todo = {}
      /\ call'[x].failed = call[x].failed
  BY <1>1 DEF Goto, CallRecord
<1>3. Alone(x)
  BY BusyAlone DEF Resting, SignalPcs
<1>4. Signalling(x)'
  BY <1>2 DEF Signalling
<1>5. x \in Tasks => Joining(x)'
  BY <1>1, <1>2 DEF Joining
<1>6. call[x].pc \notin {"idle", "lookup", "adding"} /\ call'[x].pc \notin {"returned", "threw"}
  BY <1>2 DEF SignalPcs
<1> QED
  BY <1>2, <1>3, <1>4, <1>5, <1>6, SerialQuiet

LEMMA SerialTryRemove ==
  ASSUME SInv, NEW x \in Threads, TryRemove(x)
  PROVE  SerialInv'
<1>1. /\ call[x] \in CallRecord /\ call \in [Threads -> CallRecord]
      /\ Signalling(x) /\ None \notin Tasks /\ SignalInv /\ EntryInv
      /\ wants \in [Cids -> Tasks \cup {None}] /\ consumers \in [Tasks -> SUBSET Tasks]
      /\ AllPending /\ Held /\ Told
      /\ \A u \in Tasks : u \in Threads
  BY SerialFacts
<1> DEFINE c == call[x].cid
           o == wants[c]
<1>2. /\ call[x].pc = "remove" /\ c \in Cids /\ wants' = [wants EXCEPT ![c] = None]
      /\ consumers' = consumers /\ outcome' = outcome /\ announced' = announced
  BY <1>1 DEF TryRemove, DropEntry, At, SignalInv, SignalOK, SignalPcs
<1>3. ASSUME o = None
      PROVE  SerialInv'
  <2>1. wants' = wants
    BY <1>1, <1>2, <1>3
  <2>2. PICK pc \in {"announce", "next"} : Goto(x, pc) /\ (x \in Tasks => pc = "announce")
    BY <1>3 DEF TryRemove, Return
  <2> QED
    BY <1>2, <1>3, <2>1, <2>2, SerialGoto DEF SignalPcs
<1>4. ASSUME o # None
      PROVE  SerialInv'
  <2>1. /\ \A y \in Threads : y # x => call'[y] = call[y]
        /\ call'[x].pc = "removed" /\ call'[x].cid = c /\ call'[x].block = o
        /\ call'[x].todo = call[x].todo
        /\ call'[x].failed = call[x].failed
    BY <1>1, <1>4 DEF TryRemove, CallRecord
  <2>2. o \in Tasks /\ \A u \in consumers[o] : Pending(u)
    BY <1>1, <1>2, <1>4 DEF AllPending
  <2> HIDE DEF c, o
  <2>3. Alone(x)
    BY <1>2, BusyAlone DEF Resting
  <2>4. Signalling(x)' /\ (x \in Tasks => Joining(x)')
    BY <1>1, <1>2, <2>1, <2>2 DEF Signalling, Joining, Pending
  <2>5. AllPending'
    BY <1>1, <1>2 DEF AllPending, Pending
  <2>6. Told'
    BY <1>1, <1>2, <2>1 DEF Told, Listed
  <2>7. Held'
    <3> SUFFICES ASSUME NEW u \in Tasks, Pending(u)', call'[u].pc \notin {"idle", "lookup", "adding"}
                 PROVE  OnList(u)' \/ InHand(u)'
      BY DEF Held
    <3>1. OnList(u) \/ InHand(u)
      BY <1>1, <1>2, <2>1 DEF Held, Pending
    <3>2. ~InHand(u)
      BY <1>2, <2>3, HandOf
    <3>3. PICK d \in Cids : wants[d] # None /\ u \in consumers[wants[d]]
      BY <3>1, <3>2 DEF OnList
    <3>4. CASE d = c
      BY <1>2, <2>1, <3>3, <3>4 DEF InHand, o
    <3>5. CASE d # c
      BY <1>1, <1>2, <3>3, <3>5 DEF OnList
    <3> QED
      BY <3>4, <3>5
  <2> QED
    BY <2>1, <2>3, <2>4, <2>5, <2>6, <2>7, OthersRest DEF SerialInv
<1> QED
  BY <1>3, <1>4

LEMMA SerialEnumerate ==
  ASSUME SInv, NEW x \in Threads, Enumerate(x)
  PROVE  SerialInv'
<1>1. /\ call[x] \in CallRecord /\ call \in [Threads -> CallRecord]
      /\ Signalling(x) /\ AllPending /\ Held /\ Told
      /\ \A u \in Tasks : u \in Threads
  BY SerialFacts
<1>2. /\ call[x].pc = "removed"
      /\ UNCHANGED <<wants, consumers, outcome, regs, cancelled, announced>>
  BY DEF Enumerate, At
<1>3. /\ \A y \in Threads : y # x => call'[y] = call[y]
      /\ call'[x].pc = "signal" /\ call'[x].cid = call[x].cid /\ call'[x].block = call[x].block
      /\ call'[x].seen = consumers[call[x].block] /\ call'[x].todo = consumers[call[x].block]
      /\ call'[x].failed = call[x].failed
  BY <1>1 DEF Enumerate, CallRecord
<1>4. Alone(x)
  BY <1>2, BusyAlone DEF Resting
<1>5. Signalling(x)' /\ (x \in Tasks => Joining(x)')
  BY <1>1, <1>2, <1>3 DEF Signalling, Joining, Pending
<1>6. AllPending' /\ Told'
  BY <1>1, <1>2, <1>3 DEF AllPending, Pending, Told, Listed
<1>7. Held'
  <2> SUFFICES ASSUME NEW u \in Tasks, Pending(u)', call'[u].pc \notin {"idle", "lookup", "adding"}
               PROVE  OnList(u)' \/ InHand(u)'
    BY DEF Held
  <2>1. OnList(u) \/ InHand(u)
    BY <1>1, <1>2, <1>3 DEF Held, Pending
  <2>2. InHand(u) => u \in consumers[call[x].block]
    BY <1>2, <1>4, HandOf
  <2>3. u \in consumers[call[x].block] => InHand(u)'
    BY <1>3 DEF InHand
  <2> QED
    BY <1>2, <2>1, <2>2, <2>3 DEF OnList
<1> QED
  BY <1>3, <1>4, <1>5, <1>6, <1>7, OthersRest DEF SerialInv

(* The task that is completed was in the removed list, so it is in no      *)
(* other: the tasks on the want list stay pending.                         *)
LEMMA SerialComplete ==
  ASSUME SInv, NEW x \in Threads, NEW v \in Tasks, Complete(x, v)
  PROVE  SerialInv'
<1>1. /\ call[x] \in CallRecord /\ call \in [Threads -> CallRecord]
      /\ Signalling(x) /\ AllPending /\ Held /\ Told /\ SignalInv /\ EntryInv /\ ListInv
      /\ wants \in [Cids -> Tasks \cup {None}] /\ consumers \in [Tasks -> SUBSET Tasks]
      /\ outcome \in [Tasks -> Outcome]
      /\ \A u \in Tasks : u \in Threads
  BY SerialFacts
<1>2. /\ call[x].pc = "signal" /\ v \in call[x].todo
      /\ outcome' = [outcome EXCEPT ![v] = Settled(x)]
      /\ wants' = wants /\ consumers' = consumers /\ announced' = announced
  BY DEF Complete, At
<1>3. /\ \A y \in Threads : y # x => call'[y] = call[y]
      /\ call'[x].pc = "signal" /\ call'[x].cid = call[x].cid /\ call'[x].block = call[x].block
      /\ call'[x].seen = call[x].seen /\ call'[x].todo = call[x].todo \ {v}
      /\ call'[x].failed = call[x].failed
  BY <1>1, <1>2 DEF Complete, CallRecord
<1>4. Alone(x)
  BY <1>2, BusyAlone DEF Resting
<1>5. outcome'[v].status # "pending" /\ \A u \in Tasks : u # v => outcome'[u] = outcome[u]
  BY <1>1, <1>2 DEF Settled
<1>6. call[x].todo \subseteq Tasks
  BY <1>1 DEF CallRecord
<1>7. Signalling(x)' /\ (x \in Tasks => Joining(x)')
  BY <1>1, <1>2, <1>3, <1>5, <1>6 DEF Signalling, Joining, Pending
<1>8. AllPending'
  <2> SUFFICES ASSUME NEW c \in Cids, wants[c] # None, NEW u \in consumers[wants[c]]
               PROVE  Pending(u)'
    BY <1>2 DEF AllPending, Pending
  <2>1. u \in Tasks /\ Pending(u) /\ call[u].cid = c
    BY <1>1 DEF AllPending, EntryInv, ListInv
  <2>2. wants[call[x].cid] = None /\ call[v].cid = call[x].cid
    BY <1>1, <1>2 DEF Signalling, SignalInv, SignalOK
  <2>3. u # v
    BY <2>1, <2>2
  <2> QED
    BY <1>5, <2>1, <2>3 DEF Pending
<1>9. Told'
  BY <1>1, <1>2, <1>3 DEF Told, Listed
<1>10. Held'
  <2> SUFFICES ASSUME NEW u \in Tasks, Pending(u)', call'[u].pc \notin {"idle", "lookup", "adding"}
               PROVE  OnList(u)' \/ InHand(u)'
    BY DEF Held
  <2>1. u # v /\ Pending(u)
    BY <1>5 DEF Pending
  <2>2. OnList(u) \/ InHand(u)
    BY <1>1, <1>2, <1>3, <2>1 DEF Held
  <2>3. InHand(u) => u \in call[x].todo
    BY <1>2, <1>4, HandOf
  <2>4. u \in call[x].todo => InHand(u)'
    BY <1>3, <2>1 DEF InHand
  <2> QED
    BY <1>2, <2>2, <2>3, <2>4 DEF OnList
<1> QED
  BY <1>3, <1>4, <1>7, <1>8, <1>9, <1>10, OthersRest DEF SerialInv

LEMMA SerialSignalEnd ==
  ASSUME SInv, NEW x \in Threads, CompletionThrows(x) \/ AllCompleted(x)
  PROVE  SerialInv'
<1>1. Signalling(x) /\ call[x].pc = "signal"
  BY SerialFacts DEF CompletionThrows, AllCompleted, At
<1>2. ~CompletionThrows(x)
  BY <1>1 DEF CompletionThrows, Signalling, Pending
<1>3. AllCompleted(x)
  BY <1>2
<1>4. PICK pc \in {"announce", "next"} : Goto(x, pc) /\ (x \in Tasks => pc = "announce")
  BY <1>3 DEF AllCompleted, Return
<1> QED
  BY <1>1, <1>3, <1>4, SerialGoto DEF AllCompleted, SignalPcs, Signalling

-----------------------------------------------------------------------------
LEMMA SerialInit == Init => SInv
<1> SUFFICES ASSUME Init PROVE SInv
  OBVIOUS
<1>1. IInv
  BY InitInv
<1>2. \A x \in Threads : call[x].pc = "idle" /\ call[x].todo = {} /\ ~call[x].failed
  BY IdleRecord DEF Init
<1>3. /\ \A t \in Tasks : t \in Threads /\ outcome[t].status = "unused"
      /\ \A c \in Cids : wants[c] = None
      /\ None \notin Tasks
  BY <1>1, Typing DEF Init, IInv
<1> QED
  BY <1>1, <1>2, <1>3
  DEF SInv, SerialInv, One, NeverThrows, AllPending, Held, Told, Listed, Joining, Signalling,
      Pending, Resting

LEMMA SerialNext ==
  ASSUME Concurrent = FALSE
  PROVE  SInv /\ [Next]_vars => SInv'
<1> SUFFICES ASSUME SInv, [Next]_vars PROVE SInv'
  OBVIOUS
<1>1. IInv'
  BY NextInv DEF SInv
<1>2. ASSUME NEW x \in Threads, Signal(x)
      PROVE  SerialInv'
  BY <1>2, SerialTryRemove, SerialEnumerate, SerialComplete, SerialSignalEnd DEF Signal
<1>3. ASSUME NEW t \in Tasks, TaskStep(t)
      PROVE  SerialInv'
  BY <1>2, <1>3, SerialInsert, SerialUpdate, SerialAddConsumer, SerialPublish, SerialRegister,
     SerialAnnounce DEF TaskStep, Threads
<1>4. ASSUME NEW w \in Workers, WorkerStep(w)
      PROVE  SerialInv'
  BY <1>2, <1>4, SerialWorker DEF WorkerStep, Threads
<1>5. ASSUME Calls
      PROVE  SerialInv'
  BY <1>5, SerialWantAsync, SerialWorker DEF Calls
<1>6. ASSUME UNCHANGED vars
      PROVE  SerialInv'
  BY <1>6 DEF vars, SInv, SerialInv, One, NeverThrows, AllPending, Held, Told, Listed,
     OnList, InHand, Joining, Signalling, Pending
<1> QED
  BY <1>1, <1>3, <1>4, <1>5, <1>6 DEF SInv, Next

LEMMA SerialInductive ==
  ASSUME Concurrent = FALSE
  PROVE  Spec => []SInv
BY SerialInit, SerialNext, PTL DEF Spec

(* As long as calls do not overlap, a task that waits is always one that   *)
(* something can still complete.                                           *)
THEOREM NoWaiterForgotten ==
  ASSUME Concurrent = FALSE
  PROVE  Spec => []NoConsumerLost
<1>1. SInv => NoConsumerLost
  BY DEF SInv, SerialInv, Held, Pending, NoConsumerLost
<1> QED
  BY <1>1, SerialInductive, PTL

(* As long as calls do not overlap, no call throws, and no callback of a   *)
(* cancelled token does.                                                   *)
THEOREM CompletionNeverThrows ==
  ASSUME Concurrent = FALSE
  PROVE  Spec => []NeverThrows
<1>1. SInv => NeverThrows
  BY DEF SInv, SerialInv
<1> QED
  BY <1>1, SerialInductive, PTL

(* As long as calls do not overlap, the peers know of every wanted block   *)
(* whose calls have returned.                                              *)
THEOREM WantedIsAnnounced ==
  ASSUME Concurrent = FALSE
  PROVE  Spec => []FirstWantAnnounced
<1>1. SInv => FirstWantAnnounced
  BY SerialFacts DEF FirstWantAnnounced, EntryInv, Told, Listed
<1> QED
  BY <1>1, SerialInductive, PTL
=============================================================================
