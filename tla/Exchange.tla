------------------------------ MODULE Exchange -----------------------------
(***************************************************************************)
(* The block exchange between nodes, each running this program: who asks   *)
(* whom for which block, over connections that come and go.  A node serves *)
(* a remote peer's want like its own user's: it looks into its store,      *)
(* wants the block itself if it is not there (and tells its own peers so), *)
(* and sends it on.  Protocol 1.1.0, where every want is served by a task  *)
(* of its own; a stream carries one message, so messages overtake each     *)
(* other.  WantAsync joins an entry, counts its consumers and tells the    *)
(* peers in steps of their own, and so does a new connection; Found and    *)
(* Unwant are one step each (module Bitswap has their inside).  A send may *)
(* fail on a connection that lives: that is logged, and nobody tries       *)
(* again.  No block is removed from a store.                               *)
(***************************************************************************)
EXTENDS Naturals, FiniteSets, Bags

CONSTANTS
  Nodes, Cids,
  Pairs,      \* the pairs {n, p} of nodes that can be connected
  Connected,  \* those that are connected at first, when nobody wants anything yet
  Seeds,      \* [Nodes -> SUBSET Cids], what is stored at first
  Calls,      \* the Gets and Puts that users make, <<kind, n, c>>, once each
  MaxFaults   \* bound: how many connections break, sends and providing fail, and wants
              \* are cancelled or expire

ASSUME ConstantsAssumption ==
  /\ \A pair \in Pairs : \E n, p \in Nodes : n # p /\ pair = {n, p}
  /\ Connected \subseteq Pairs
  /\ Seeds \in [Nodes -> SUBSET Cids]
  /\ Calls \subseteq {"get", "put"} \X Nodes \X Cids
  /\ MaxFaults \in Nat

VARIABLES
  blocks,     \* [Nodes -> SUBSET Cids], the block stores
  links,      \* the pairs that are connected
  met,        \* <<n, p>>: n is about to learn that p has connected
  greet,      \* <<n, p>>: n is about to send its whole want list to p
  net,        \* the bag of messages on their way
  tasks,      \* the bag of tasks in progress
  timers,     \* <<n, c>>: a token of a remote want of c, which may expire, is registered at n
  gaveUp,     \* history: <<n, p, c>>: n dropped what p (a peer, or n's user) waited for
  lost,       \* history: <<n, p, c>>: n did not tell p that it wants c, p was not told,
              \* or what p answered did not reach the want list
  calls,      \* the users' calls to come
  faults      \* counted up to MaxFaults

vars == <<blocks, links, met, greet, net, tasks, timers, gaveUp, lost, calls, faults>>

Message == [kind : {"want", "block"}, from : Nodes, to : Nodes, cid : Cids]

(* What node does about a block on behalf of peer, or of its user (peer =  *)
(* node): GetAsync and GetBlockAsync look it up, want it (count, announce),*)
(* wait for it, and send it or stop the query; PutAsync stores it, tells   *)
(* the DHT and calls Found.  A task may still have to announce its want    *)
(* when the block was found, or the want dropped, already.                 *)
Listed == {"count", "announce", "waiting"}
Announcing == {"announce", "announceFound", "announceDropped"}
Pcs == Listed \cup Announcing \cup {"lookup", "want", "send", "stop", "store", "provide", "found"}
Task == [node : Nodes, peer : Nodes, cid : Cids, pc : Pcs]

TypeOK ==
  /\ blocks \in [Nodes -> SUBSET Cids]
  /\ links \subseteq Pairs
  /\ met \subseteq Nodes \X Nodes /\ greet \subseteq Nodes \X Nodes
  /\ IsABag(net) /\ BagToSet(net) \subseteq Message
  /\ IsABag(tasks) /\ BagToSet(tasks) \subseteq Task
  /\ timers \subseteq Nodes \X Cids
  /\ gaveUp \subseteq Nodes \X Nodes \X Cids /\ lost \subseteq Nodes \X Nodes \X Cids
  /\ calls \subseteq Calls
  /\ faults \in 0..MaxFaults

Init ==
  /\ blocks = Seeds
  /\ links = Connected /\ met = {} /\ greet = {}
  /\ net = EmptyBag
  /\ tasks = EmptyBag
  /\ timers = {} /\ gaveUp = {} /\ lost = {}
  /\ calls = Calls /\ faults = 0

WantMessage(n, p, c) == [kind |-> "want", from |-> n, to |-> p, cid |-> c]
BlockMessage(n, p, c) == [kind |-> "block", from |-> n, to |-> p, cid |-> c]
TaskOf(n, p, c, pc) == [node |-> n, peer |-> p, cid |-> c, pc |-> pc]

Linked(n, p) == {n, p} \in links
Remote(t) == t.peer # t.node

(* The consumers of c on n's want list; c has an entry while it has any.   *)
Waiters(n, c) == {p \in Nodes : \E pc \in Listed : BagIn(TaskOf(n, p, c, pc), tasks)}
Wanted(n, c) == Waiters(n, c) # {}

At(t, pc) == BagIn(t, tasks) /\ t.pc = pc
Begin(t) == tasks' = tasks (+) SetToBag({t})
Goto(t, pc) == tasks' = (tasks (-) SetToBag({t})) (+) SetToBag({[t EXCEPT !.pc = pc]})
End(t) == tasks' = tasks (-) SetToBag({t})

Send(ms) == net' = net (+) SetToBag(ms)

(* Those of n's tasks about c that are in WantAsync or after it, by pc.    *)
TasksAt(n, c, pcs) ==
  [t \in {u \in BagToSet(tasks) : u.node = n /\ u.cid = c /\ u.pc \in pcs} |-> tasks[t]]

Fault == faults < MaxFaults /\ faults' = faults + 1

-----------------------------------------------------------------------------
(* Users                                                                   *)

Get(n, c) ==
  /\ <<"get", n, c>> \in calls
  /\ calls' = calls \ {<<"get", n, c>>}
  /\ Begin(TaskOf(n, n, c, "lookup"))
  /\ UNCHANGED <<blocks, links, met, greet, net, timers, gaveUp, lost, faults>>

Put(n, c) ==
  /\ <<"put", n, c>> \in calls
  /\ calls' = calls \ {<<"put", n, c>>}
  /\ Begin(TaskOf(n, n, c, "store"))
  /\ UNCHANGED <<blocks, links, met, greet, net, timers, gaveUp, lost, faults>>

-----------------------------------------------------------------------------
(* Block.GetAsync for the user, GetBlockAsync for a remote peer            *)

Lookup(t) ==
  /\ At(t, "lookup")
  /\ IF t.cid \notin blocks[t.node] THEN Goto(t, "want")
     ELSE IF Remote(t) THEN Goto(t, "send")
     ELSE End(t)
  /\ UNCHANGED <<blocks, links, met, greet, net, timers, gaveUp, lost, calls, faults>>

(* The consumer of the entry of c that will tell the peers: the call that  *)
(* created it has counted only itself, or has yet to count and is alone.   *)
Alone(t) == BagToSet(TasksAt(t.node, t.cid, Listed)) = {t}
Creators(n, c) ==
  {t \in BagToSet(TasksAt(n, c, Listed)) :
     t.pc = "announce" \/ (t.pc = "count" /\ Alone(t))}

(* WantAsync: AddOrUpdate and cancel.Register.  A call that joins an entry *)
(* will count two consumers at least; so will the call that created it if  *)
(* it has yet to count, and then nobody tells the peers (lost).            *)
Want(t) ==
  /\ At(t, "want")
  /\ Goto(t, IF Wanted(t.node, t.cid) THEN "waiting" ELSE "count")
  /\ timers' = IF Remote(t) THEN timers \cup {<<t.node, t.cid>>} ELSE timers
  /\ lost' = IF \E u \in Creators(t.node, t.cid) : u.pc = "count"
             THEN lost \cup ({t.node} \X Nodes \X {t.cid}) ELSE lost
  /\ UNCHANGED <<blocks, links, met, greet, net, gaveUp, calls, faults>>

(* "If first time, tell other peers": the creator counts the consumers.    *)
Count(t) ==
  /\ At(t, "count")
  /\ Goto(t, IF Alone(t) THEN "announce" ELSE "waiting")
  /\ UNCHANGED <<blocks, links, met, greet, net, timers, gaveUp, lost, calls, faults>>

(* Mutant: a remote peer's task ends like the user's, without sending.     *)
AllStop(t) == "stop"

(* Where a task goes on whose block was found.                             *)
Continued(t) == IF Remote(t) THEN "send" ELSE "stop"

(* SendWantListToAllAsync: to every connected peer, also to the one that   *)
(* asked, also when the entry has gone in the meantime.                    *)
ToAll(t) == {WantMessage(t.node, p, t.cid) : p \in {q \in Nodes : Linked(t.node, q)}}
Announce(t) ==
  /\ BagIn(t, tasks) /\ t.pc \in Announcing
  /\ Send(ToAll(t))
  /\ lost' = lost \ {<<m.from, m.to, m.cid>> : m \in ToAll(t)}
  /\ \/ t.pc = "announce" /\ Goto(t, "waiting")
     \/ t.pc = "announceFound" /\ Goto(t, Continued(t))
     \/ t.pc = "announceDropped" /\ End(t)
  /\ UNCHANGED <<blocks, links, met, greet, timers, gaveUp, calls, faults>>

(* Send block to remote; without a connection DialAsync makes one (Connect *)
(* comes first) or throws.                                                 *)
SendBlock(t) ==
  /\ At(t, "send")
  /\ Send(IF Linked(t.node, t.peer) THEN {BlockMessage(t.node, t.peer, t.cid)} ELSE {})
  /\ End(t)
  /\ UNCHANGED <<blocks, links, met, greet, timers, gaveUp, lost, calls, faults>>

(* The entry goes before its creator has told the peers, which it still    *)
(* does: it counts the list of the entry that was removed.                 *)
StillToTell(n, c, pc) == SetToBag({[t EXCEPT !.pc = pc] : t \in Creators(n, c)})

(* Unwant, by a task of ts that ends: the entry goes, with all consumers.  *)
Unwant(n, c, ts) ==
  /\ tasks' = ((tasks (-) SetToBag(ts)) (-) TasksAt(n, c, Listed))
                 (+) StillToTell(n, c, "announceDropped")
  /\ gaveUp' = (gaveUp \ (Nodes \X {n} \X {c})) \cup {<<n, p, c>> : p \in Waiters(n, c)}
  /\ lost' = lost \ ({n} \X Nodes \X {c})
  /\ UNCHANGED <<blocks, links, met, greet, net, timers, calls>>

(* queryCancel.Cancel, when Block.GetAsync has its block.                  *)
StopQuery(t) == At(t, "stop") /\ Unwant(t.node, t.cid, {t}) /\ UNCHANGED faults

(* The five minutes of a remote want are over.  Its token stays registered *)
(* after the want was served.                                              *)
TimeOut(n, c) == <<n, c>> \in timers /\ Wanted(n, c) /\ Unwant(n, c, {}) /\ Fault

(* The user cancels a get.                                                 *)
Cancel(n, c) == n \in Waiters(n, c) /\ Unwant(n, c, {}) /\ Fault

-----------------------------------------------------------------------------
(* Block.PutAsync, for the user or in OnBlockReceivedAsync                 *)

Store(t) ==
  /\ At(t, "store")
  /\ blocks' = [blocks EXCEPT ![t.node] = @ \cup {t.cid}]
  /\ Goto(t, IF t.cid \in blocks[t.node] THEN "found" ELSE "provide")
  /\ UNCHANGED <<links, met, greet, net, timers, gaveUp, lost, calls, faults>>

(* The block is new and ProvideAsync throws: nobody calls Found.           *)
ProvideThrows(t) ==
  /\ At(t, "provide") /\ Fault
  /\ End(t)
  /\ lost' = lost \cup {<<t.node, t.peer, t.cid>>}
  /\ UNCHANGED <<blocks, links, met, greet, net, timers, gaveUp, calls>>

(* The consumers of c that wait, or will when they have counted, go on.    *)
GoOn(n, c) ==
  LET ready == TasksAt(n, c, {"count", "waiting"})
      was(u, pc) == LET v == [u EXCEPT !.pc = pc] IN IF BagIn(v, ready) THEN ready[v] ELSE 0
  IN [u \in {[t EXCEPT !.pc = Continued(t)] : t \in BagToSet(ready) \ Creators(n, c)} |->
        was(u, "count") + was(u, "waiting")]

(* The entry of the block goes, and its consumers go on.                   *)
Found(t) ==
  /\ At(t, "provide") \/ At(t, "found")
  /\ gaveUp' = gaveUp \ (Nodes \X {t.node} \X {t.cid})
  /\ lost' = lost \ ({t.node} \X Nodes \X {t.cid})
  /\ tasks' = (((tasks (-) SetToBag({t})) (-) TasksAt(t.node, t.cid, Listed))
                  (+) StillToTell(t.node, t.cid, "announceFound")) (+) GoOn(t.node, t.cid)
  /\ UNCHANGED <<blocks, links, met, greet, net, timers, calls, faults>>

-----------------------------------------------------------------------------
(* Messages (ProcessMessageAsync) and connections                          *)

Take(m) == net' = net (-) SetToBag({m})

ReceiveWant(m) ==
  /\ BagIn(m, net) /\ m.kind = "want" /\ Take(m)
  /\ Begin(TaskOf(m.to, m.from, m.cid, "lookup"))
  /\ gaveUp' = gaveUp \ {<<m.to, m.from, m.cid>>}
  /\ UNCHANGED <<blocks, links, met, greet, timers, lost, calls, faults>>

ReceiveBlock(m) ==
  /\ BagIn(m, net) /\ m.kind = "block" /\ Take(m)
  /\ Begin(TaskOf(m.to, m.from, m.cid, "store"))
  /\ UNCHANGED <<blocks, links, met, greet, timers, gaveUp, lost, calls, faults>>

(* Sending m failed although the connection lives: SendWantListAsync and   *)
(* GetBlockAsync log the exception and do not try again.                   *)
SendFails(m) ==
  /\ BagIn(m, net) /\ Take(m) /\ Fault
  /\ lost' = lost \cup {IF m.kind = "want" THEN <<m.from, m.to, m.cid>>
                                          ELSE <<m.to, m.from, m.cid>>}
  /\ UNCHANGED <<blocks, links, met, greet, tasks, timers, gaveUp, calls>>

(* The peers show as connected before anybody is told.                     *)
Connect(n, p) ==
  /\ {n, p} \in Pairs \ links
  /\ links' = links \cup {{n, p}}
  /\ met' = met \cup {<<n, p>>, <<p, n>>}
  /\ UNCHANGED <<blocks, greet, net, tasks, timers, gaveUp, lost, calls, faults>>

(* Mutant: the test for an empty want list is the wrong way round.         *)
NothingWanted(n) == \A c \in Cids : ~Wanted(n, c)
SomethingWanted(n) == \E c \in Cids : Wanted(n, c)

(* Swarm_ConnectionEstablished, on n's side: if (wants.IsEmpty) return.    *)
ConnectionEstablished(n, p) ==
  /\ <<n, p>> \in met
  /\ met' = met \ {<<n, p>>}
  /\ greet' = IF SomethingWanted(n) THEN greet \cup {<<n, p>>} ELSE greet
  /\ UNCHANGED <<blocks, links, net, tasks, timers, gaveUp, lost, calls, faults>>

(* The identity of p is established: n sends it all the wants of now.      *)
Greet(n, p) ==
  LET all == {c \in Cids : Wanted(n, c)} IN
  /\ <<n, p>> \in greet
  /\ greet' = greet \ {<<n, p>>}
  /\ Send({WantMessage(n, p, c) : c \in all})
  /\ lost' = lost \ ({n} \X {p} \X all)
  /\ UNCHANGED <<blocks, links, met, tasks, timers, gaveUp, calls, faults>>

(* The connection breaks, with all that is on its way through it.          *)
Disconnect(n, p) ==
  /\ Linked(n, p) /\ Fault
  /\ links' = links \ {{n, p}}
  /\ met' = met \ {<<n, p>>, <<p, n>>}
  /\ greet' = greet \ {<<n, p>>, <<p, n>>}
  /\ net' = [m \in {k \in BagToSet(net) : {k.from, k.to} # {n, p}} |-> net[m]]
  /\ UNCHANGED <<blocks, tasks, timers, gaveUp, lost, calls>>

-----------------------------------------------------------------------------
TaskStep(t) ==
  \/ Lookup(t) \/ Want(t) \/ Count(t) \/ Announce(t) \/ SendBlock(t) \/ StopQuery(t)
  \/ Store(t) \/ Found(t)

Progress ==
  \/ \E t \in BagToSet(tasks) : TaskStep(t)
  \/ \E m \in BagToSet(net) : ReceiveWant(m) \/ ReceiveBlock(m)
  \/ \E n, p \in Nodes : Connect(n, p) \/ ConnectionEstablished(n, p) \/ Greet(n, p)

Next ==
  \/ Progress
  \/ \E n \in Nodes, c \in Cids : Get(n, c) \/ Put(n, c) \/ TimeOut(n, c) \/ Cancel(n, c)
  \/ \E n, p \in Nodes : Disconnect(n, p)
  \/ \E t \in BagToSet(tasks) : ProvideThrows(t)
  \/ \E m \in BagToSet(net) : SendFails(m)

Spec == Init /\ [][Next]_vars

(* Tasks and messages make progress and peers reconnect; nobody has to     *)
(* call, to cancel or to disconnect, and nothing has to fail.              *)
FairSpec == Spec /\ WF_vars(Progress)

-----------------------------------------------------------------------------
(* "Other peers are informed that the block is needed by this peer": every *)
(* peer that is connected to one that wants a block is about to be told    *)
(* so, or serves it, or has answered.  This holds for a peer that connects *)
(* while the block is first wanted, whichever of the two comes first, but  *)
(* not when the peer has dropped the request (by Unwant), or when it was   *)
(* lost: two first wants overlapped and both counted two consumers, a send *)
(* failed on a live connection, or the answer was stored and ProvideAsync  *)
(* threw.  A new announcement or greeting makes up for what was lost.      *)
AboutToTell(n, c) == Creators(n, c) # {}
Serving == Listed \cup {"lookup", "want", "announceFound", "send"}
Informed(n, p, c) ==
  \/ <<n, p>> \in met \cup greet \/ AboutToTell(n, c) \/ BagIn(WantMessage(n, p, c), net)
  \/ \E pc \in Serving : BagIn(TaskOf(p, n, c, pc), tasks)
  \/ BagIn(BlockMessage(p, n, c), net)
  \/ \E pc \in {"store", "provide", "found"} : BagIn(TaskOf(n, p, c, pc), tasks)
  \/ <<p, n, c>> \in gaveUp \/ <<n, p, c>> \in lost

PeersInformed ==
  \A n, p \in Nodes, c \in Cids : Linked(n, p) /\ Wanted(n, c) => Informed(n, p, c)

(* "Hopefully, someone will forward it to us": a block that was stored     *)
(* somewhere in the network at first reaches every user who gets it,       *)
(* through nodes that neither have nor want it, and although connections   *)
(* break, unless somebody drops a request or one is lost (as above).       *)
Reachable ==
  {d \in {<<k[2], k[3]>> : k \in {j \in Calls : j[1] = "get"}} :
    \A S \in SUBSET Nodes :
      d[1] \in S /\ (\A pair \in Pairs : pair \cap S = {} \/ pair \subseteq S)
        => \E n \in S : d[2] \in Seeds[n]}
Asks(n, c) == \E pc \in Serving : BagIn(TaskOf(n, n, c, pc), tasks)
Delivered ==
  \A d \in Reachable :
    Asks(d[1], d[2]) ~> d[2] \in blocks[d[1]] \/ gaveUp \cup lost # {}
=============================================================================
