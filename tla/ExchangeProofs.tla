--------------------------- MODULE ExchangeProofs --------------------------
(***************************************************************************)
(* The block exchange for any network, any blocks and any calls: its state *)
(* stays well formed, and no connected peer is left unaware of a want.     *)
(***************************************************************************)
EXTENDS Exchange, Integers, TLAPS

(* The inductive invariant.                                                *)
IInv == TypeOK /\ PeersInformed

(* Nobody connects to itself, so that the task of a peer is never taken    *)
(* for the task of the node's own user.                                    *)
LEMMA NoLoops ==
  ASSUME TypeOK
  PROVE  \A n, p \in Nodes : Linked(n, p) => n # p
BY ConstantsAssumption DEF TypeOK, Linked

-----------------------------------------------------------------------------
(* Bags: what is in them after adding and removing.                        *)

LEMMA AddBag ==
  ASSUME NEW B, IsABag(B), NEW C, IsABag(C)
  PROVE  IsABag(B (+) C) /\ BagToSet(B (+) C) = BagToSet(B) \cup BagToSet(C)
BY DEF IsABag, BagToSet, (+)

LEMMA AddSet ==
  ASSUME NEW B, IsABag(B), NEW S
  PROVE  IsABag(B (+) SetToBag(S)) /\ BagToSet(B (+) SetToBag(S)) = BagToSet(B) \cup S
BY DEF IsABag, BagToSet, SetToBag, (+)

(* C leaves B: at least the others stay, and nothing is new.               *)
LEMMA Minus ==
  ASSUME NEW B, IsABag(B), NEW D, NEW C \in [D -> Nat]
  PROVE  /\ IsABag(B (-) C) /\ BagToSet(B (-) C) \subseteq BagToSet(B)
         /\ BagToSet(B) \ D \subseteq BagToSet(B (-) C)
         /\ (\A e \in D \cap BagToSet(B) : C[e] >= B[e])
              => BagToSet(B (-) C) = BagToSet(B) \ D
         /\ \A e \in BagToSet(B (-) C) : (B (-) C)[e] <= B[e]
<1> DEFINE R == [e \in DOMAIN B |-> IF e \in DOMAIN C THEN B[e] - C[e] ELSE B[e]]
           E == {d \in DOMAIN R : R[d] > 0}
<1>1. B (-) C = [e \in E |-> R[e]]
  BY DEF (-)
<1>2. \A e \in DOMAIN B : B[e] \in Nat /\ B[e] > 0
  BY DEF IsABag
<1>3. DOMAIN C = D /\ \A e \in D : C[e] \in Nat
  OBVIOUS
<1>4. \A e \in DOMAIN B : R[e] \in Int /\ R[e] <= B[e] /\ (e \notin D => R[e] = B[e])
  BY <1>2, <1>3
<1>5. \A e \in E : e \in DOMAIN B /\ R[e] \in {n \in Nat : n > 0} /\ R[e] <= B[e]
  BY <1>4
<1>6. DOMAIN B \ D \subseteq E
  BY <1>2, <1>4
<1>7. ASSUME \A e \in D \cap DOMAIN B : C[e] >= B[e]
      PROVE  E = DOMAIN B \ D
  <2>1. \A e \in D \cap DOMAIN B : R[e] <= 0
    BY <1>2, <1>3, <1>7
  <2> QED
    BY <1>5, <1>6, <2>1
<1> HIDE DEF R, E
<1>8. DOMAIN (B (-) C) = E /\ \A e \in E : (B (-) C)[e] = R[e]
  BY <1>1
<1>9. IsABag(B (-) C)
  BY <1>1, <1>5 DEF IsABag
<1> QED
  BY <1>5, <1>6, <1>7, <1>8, <1>9 DEF BagToSet

LEMMA TakeSet ==
  ASSUME NEW B, IsABag(B), NEW S
  PROVE  /\ IsABag(B (-) SetToBag(S)) /\ BagToSet(B (-) SetToBag(S)) \subseteq BagToSet(B)
         /\ BagToSet(B) \ S \subseteq BagToSet(B (-) SetToBag(S))
         /\ \A e \in BagToSet(B (-) SetToBag(S)) : (B (-) SetToBag(S))[e] <= B[e]
<1>1. SetToBag(S) \in [S -> Nat]
  BY DEF SetToBag
<1> QED
  BY <1>1, Minus

-----------------------------------------------------------------------------
(* Tasks as records.                                                       *)

LEMMA Tasks ==
  /\ \A t \in Task : /\ t.node \in Nodes /\ t.peer \in Nodes /\ t.cid \in Cids /\ t.pc \in Pcs
                     /\ t = TaskOf(t.node, t.peer, t.cid, t.pc)
                     /\ \A pc \in Pcs : [t EXCEPT !.pc = pc] = TaskOf(t.node, t.peer, t.cid, pc)
  /\ \A n, p \in Nodes, c \in Cids, pc \in Pcs :
       /\ TaskOf(n, p, c, pc) \in Task
       /\ TaskOf(n, p, c, pc).node = n /\ TaskOf(n, p, c, pc).peer = p
       /\ TaskOf(n, p, c, pc).cid = c /\ TaskOf(n, p, c, pc).pc = pc
<1>1. ASSUME NEW t \in Task
      PROVE  /\ t.node \in Nodes /\ t.peer \in Nodes /\ t.cid \in Cids /\ t.pc \in Pcs
             /\ t = TaskOf(t.node, t.peer, t.cid, t.pc)
             /\ \A pc \in Pcs : [t EXCEPT !.pc = pc] = TaskOf(t.node, t.peer, t.cid, pc)
  BY DEF Task, TaskOf
<1>2. ASSUME NEW n \in Nodes, NEW p \in Nodes, NEW c \in Cids, NEW pc \in Pcs
      PROVE  /\ TaskOf(n, p, c, pc) \in Task
             /\ TaskOf(n, p, c, pc).node = n /\ TaskOf(n, p, c, pc).peer = p
             /\ TaskOf(n, p, c, pc).cid = c /\ TaskOf(n, p, c, pc).pc = pc
  BY DEF Task, TaskOf
<1> QED
  BY <1>1, <1>2

LEMMA Messages ==
  /\ \A m \in Message : /\ m.from \in Nodes /\ m.to \in Nodes /\ m.cid \in Cids
                        /\ m.kind = "want" => m = WantMessage(m.from, m.to, m.cid)
                        /\ m.kind = "block" => m = BlockMessage(m.from, m.to, m.cid)
  /\ \A n, p \in Nodes, c \in Cids :
       /\ WantMessage(n, p, c) \in Message /\ BlockMessage(n, p, c) \in Message
       /\ WantMessage(n, p, c).kind = "want" /\ BlockMessage(n, p, c).kind = "block"
       /\ WantMessage(n, p, c).from = n /\ BlockMessage(n, p, c).from = n
       /\ WantMessage(n, p, c).to = p /\ BlockMessage(n, p, c).to = p
       /\ WantMessage(n, p, c).cid = c /\ BlockMessage(n, p, c).cid = c
BY DEF Message, WantMessage, BlockMessage

-----------------------------------------------------------------------------
(* What an action does to the bags.                                        *)

LEMMA BeginEffect ==
  ASSUME TypeOK, NEW t \in Task, Begin(t)
  PROVE  IsABag(tasks') /\ BagToSet(tasks') = BagToSet(tasks) \cup {t}
BY AddSet DEF TypeOK, Begin

LEMMA GotoEffect ==
  ASSUME TypeOK, NEW t, BagIn(t, tasks), NEW pc \in Pcs, Goto(t, pc)
  PROVE  /\ IsABag(tasks')
         /\ BagToSet(tasks') \subseteq
              BagToSet(tasks) \cup {TaskOf(t.node, t.peer, t.cid, pc)}
         /\ BagToSet(tasks) \ {t} \subseteq BagToSet(tasks')
         /\ TaskOf(t.node, t.peer, t.cid, pc) \in BagToSet(tasks')
<1> DEFINE rest == tasks (-) SetToBag({t})
<1>1. t \in Task /\ IsABag(tasks)
  BY DEF TypeOK, BagIn
<1>2. [t EXCEPT !.pc = pc] = TaskOf(t.node, t.peer, t.cid, pc)
  BY <1>1, Tasks
<1>3. tasks' = rest (+) SetToBag({TaskOf(t.node, t.peer, t.cid, pc)})
  BY <1>2 DEF Goto
<1>4. /\ IsABag(rest) /\ BagToSet(rest) \subseteq BagToSet(tasks)
      /\ BagToSet(tasks) \ {t} \subseteq BagToSet(rest)
  BY <1>1, TakeSet
<1> HIDE DEF rest
<1> QED
  BY <1>3, <1>4, AddSet

LEMMA EndEffect ==
  ASSUME TypeOK, NEW t, End(t)
  PROVE  /\ IsABag(tasks') /\ BagToSet(tasks') \subseteq BagToSet(tasks)
         /\ BagToSet(tasks) \ {t} \subseteq BagToSet(tasks')
BY TakeSet DEF TypeOK, End

LEMMA SendEffect ==
  ASSUME TypeOK, NEW S \in SUBSET Message, Send(S)
  PROVE  /\ IsABag(net') /\ BagToSet(net') = BagToSet(net) \cup S
         /\ BagToSet(net') \subseteq Message
BY AddSet DEF TypeOK, Send

LEMMA TakeEffect ==
  ASSUME TypeOK, NEW m, Take(m)
  PROVE  /\ IsABag(net') /\ BagToSet(net') \subseteq BagToSet(net)
         /\ BagToSet(net) \ {m} \subseteq BagToSet(net')
BY TakeSet DEF TypeOK, Take

(* The consumers of c on n.                                                *)
ListedAt(n, c) == {t \in BagToSet(tasks) : t.node = n /\ t.cid = c /\ t.pc \in Listed}

LEMMA CreatorForm ==
  ASSUME NEW n, NEW c, NEW t
  PROVE  t \in Creators(n, c) <=>
           /\ t \in ListedAt(n, c)
           /\ t.pc = "announce" \/ (t.pc = "count" /\ ListedAt(n, c) = {t})
BY DEF Creators, ListedAt, Alone, TasksAt, BagToSet

LEMMA NextCreatorForm ==
  ASSUME NEW n, NEW c, NEW t
  PROVE  (t \in Creators(n, c))' <=>
           /\ t \in ListedAt(n, c)'
           /\ t.pc = "announce" \/ (t.pc = "count" /\ ListedAt(n, c)' = {t})
BY DEF Creators, ListedAt, Alone, TasksAt, BagToSet

LEMMA LeaveEffect ==
  ASSUME TypeOK, NEW n, NEW c, NEW S
  PROVE  LET left == (tasks (-) SetToBag(S)) (-) TasksAt(n, c, Listed)
         IN /\ IsABag(left) /\ BagToSet(left) \subseteq BagToSet(tasks) \ ListedAt(n, c)
            /\ BagToSet(tasks) \ (S \cup ListedAt(n, c)) \subseteq BagToSet(left)
<1> DEFINE rest == tasks (-) SetToBag(S)
           out == TasksAt(n, c, Listed)
           left == rest (-) out
<1>1. IsABag(tasks) /\ \A e \in BagToSet(tasks) : tasks[e] \in Nat
  BY DEF TypeOK, IsABag, BagToSet
<1>2. /\ IsABag(rest) /\ BagToSet(rest) \subseteq BagToSet(tasks)
      /\ BagToSet(tasks) \ S \subseteq BagToSet(rest)
      /\ \A e \in BagToSet(rest) : rest[e] <= tasks[e]
  BY <1>1, TakeSet
<1>3. /\ out \in [ListedAt(n, c) -> Nat]
      /\ \A e \in ListedAt(n, c) : out[e] = tasks[e]
  BY <1>1 DEF TasksAt, ListedAt
<1>4. \A e \in ListedAt(n, c) \cap BagToSet(rest) : out[e] >= rest[e]
  <2> SUFFICES ASSUME NEW e \in ListedAt(n, c) \cap BagToSet(rest)
               PROVE  out[e] >= rest[e]
    OBVIOUS
  <2>1. rest[e] \in Nat
    BY <1>2 DEF IsABag, BagToSet
  <2> HIDE DEF rest, out
  <2> QED
    BY <1>1, <1>2, <1>3, <2>1
<1> HIDE DEF rest, out
<1>5. IsABag(left) /\ BagToSet(left) = BagToSet(rest) \ ListedAt(n, c)
  BY <1>2, <1>3, <1>4, Minus
<1> HIDE DEF left
<1>6. /\ IsABag(left) /\ BagToSet(left) \subseteq BagToSet(tasks) \ ListedAt(n, c)
      /\ BagToSet(tasks) \ (S \cup ListedAt(n, c)) \subseteq BagToSet(left)
  BY <1>2, <1>5
<1> QED
  BY <1>6 DEF left, rest, out

(* Those that have still to tell the peers, at pc.                         *)
Telling(n, c, pc) == {[t EXCEPT !.pc = pc] : t \in Creators(n, c)}

LEMMA UnwantEffect ==
  ASSUME TypeOK, NEW n, NEW c, NEW S, Unwant(n, c, S)
  PROVE  /\ IsABag(tasks')
         /\ BagToSet(tasks') \subseteq
              (BagToSet(tasks) \ ListedAt(n, c)) \cup Telling(n, c, "announceDropped")
         /\ BagToSet(tasks) \ (S \cup ListedAt(n, c)) \subseteq BagToSet(tasks')
<1> DEFINE left == (tasks (-) SetToBag(S)) (-) TasksAt(n, c, Listed)
<1>1. /\ IsABag(left) /\ BagToSet(left) \subseteq BagToSet(tasks) \ ListedAt(n, c)
      /\ BagToSet(tasks) \ (S \cup ListedAt(n, c)) \subseteq BagToSet(left)
  BY LeaveEffect
<1>2. tasks' = left (+) SetToBag(Telling(n, c, "announceDropped"))
  BY DEF Unwant, StillToTell, Telling
<1> HIDE DEF left
<1> QED
  BY <1>1, <1>2, AddSet

(* The consumers that go on when the block is found.                       *)
Going(n, c) == {[t EXCEPT !.pc = Continued(t)] :
                  t \in {u \in ListedAt(n, c) : u.pc \in {"count", "waiting"}} \ Creators(n, c)}

LEMMA GoOnBag ==
  ASSUME TypeOK, NEW n, NEW c
  PROVE  IsABag(GoOn(n, c)) /\ BagToSet(GoOn(n, c)) = Going(n, c)
<1> DEFINE ready == TasksAt(n, c, {"count", "waiting"})
           R == {u \in ListedAt(n, c) : u.pc \in {"count", "waiting"}}
           copies(v) == IF BagIn(v, ready) THEN ready[v] ELSE 0
           was(u, pc) == copies([u EXCEPT !.pc = pc])
           go == [u \in {[t EXCEPT !.pc = Continued(t)] : t \in BagToSet(ready) \ Creators(n, c)} |->
                    was(u, "count") + was(u, "waiting")]
<1>1. IsABag(tasks) /\ \A e \in BagToSet(tasks) : tasks[e] \in Nat /\ tasks[e] > 0
  BY DEF TypeOK, IsABag, BagToSet
<1>2. BagToSet(ready) = R /\ \A e \in R : ready[e] \in Nat /\ ready[e] > 0
  BY <1>1 DEF TasksAt, ListedAt, BagToSet, Listed
<1>3. R \subseteq Task
  BY DEF ListedAt, TypeOK
<1>4. GoOn(n, c) = go
  BY DEF GoOn
<1> HIDE DEF ready, R
<1>5. \A e : copies(e) \in Nat /\ (e \in R => copies(e) > 0)
  BY <1>2 DEF BagIn
<1> HIDE DEF copies
<1>6. ASSUME NEW t \in R, t.pc \in {"count", "waiting"}
      PROVE  LET u == [t EXCEPT !.pc = Continued(t)]
             IN was(u, "count") + was(u, "waiting") \in Nat
                  /\ was(u, "count") + was(u, "waiting") > 0
  <2> DEFINE u == [t EXCEPT !.pc = Continued(t)]
  <2>1. [u EXCEPT !.pc = t.pc] = t
    BY <1>3, <1>6 DEF Task
  <2> HIDE DEF u
  <2>2. was(u, "count") \in Nat /\ was(u, "waiting") \in Nat
    BY <1>5
  <2>3. was(u, t.pc) > 0
    BY <1>5, <2>1
  <2>4. was(u, "count") + was(u, "waiting") \in Nat /\ was(u, "count") + was(u, "waiting") > 0
    BY <1>6, <2>2, <2>3
  <2> QED
    BY <2>4 DEF u
<1>7. \A t \in R : t.pc \in {"count", "waiting"}
  BY DEF R
<1> DEFINE G == {[t EXCEPT !.pc = Continued(t)] : t \in R \ Creators(n, c)}
<1>8. G = Going(n, c)
  BY DEF Going, R
<1>9. go = [u \in G |-> was(u, "count") + was(u, "waiting")]
  BY <1>2
<1>10. \A u \in G : was(u, "count") + was(u, "waiting") \in {k \in Nat : k > 0}
  BY <1>6, <1>7
<1> HIDE DEF go, was, G
<1>11. IsABag(go) /\ BagToSet(go) = G
  BY <1>9, <1>10 DEF IsABag, BagToSet
<1> QED
  BY <1>4, <1>8, <1>11

LEMMA FoundEffect ==
  ASSUME TypeOK, NEW t, Found(t)
  PROVE  LET n == t.node
             c == t.cid
             new == Telling(n, c, "announceFound") \cup Going(n, c)
         IN /\ IsABag(tasks')
            /\ BagToSet(tasks') \subseteq (BagToSet(tasks) \ ListedAt(n, c)) \cup new
            /\ BagToSet(tasks) \ ({t} \cup ListedAt(n, c)) \subseteq BagToSet(tasks')
            /\ new \subseteq BagToSet(tasks')
<1> DEFINE n == t.node
           c == t.cid
           left == (tasks (-) SetToBag({t})) (-) TasksAt(n, c, Listed)
           tell == left (+) SetToBag(Telling(n, c, "announceFound"))
<1>1. /\ IsABag(left) /\ BagToSet(left) \subseteq BagToSet(tasks) \ ListedAt(n, c)
      /\ BagToSet(tasks) \ ({t} \cup ListedAt(n, c)) \subseteq BagToSet(left)
  BY LeaveEffect
<1>2. tasks' = tell (+) GoOn(n, c)
  BY DEF Found, StillToTell, Telling
<1> HIDE DEF left
<1>3. IsABag(tell) /\ BagToSet(tell) = BagToSet(left) \cup Telling(n, c, "announceFound")
  BY <1>1, AddSet
<1>4. IsABag(GoOn(n, c)) /\ BagToSet(GoOn(n, c)) = Going(n, c)
  BY GoOnBag
<1> HIDE DEF tell
<1>5. IsABag(tasks') /\ BagToSet(tasks') = BagToSet(tell) \cup Going(n, c)
  BY <1>2, <1>3, <1>4, AddBag
<1> QED
  BY <1>1, <1>3, <1>5

LEMMA NewPcs ==
  ASSUME TypeOK, NEW n, NEW c
  PROVE  /\ \A pc \in Pcs : \A u \in Telling(n, c, pc) : u \in Task /\ u.pc = pc
         /\ \A u \in Going(n, c) : u \in Task /\ u.pc \in {"send", "stop"}
<1>1. \A t \in ListedAt(n, c) : t \in Task
  BY DEF TypeOK, ListedAt
<1>2. \A t \in Creators(n, c) : t \in Task
  BY <1>1, CreatorForm
<1>3. ASSUME NEW t \in Task, NEW pc \in Pcs
      PROVE  [t EXCEPT !.pc = pc] \in Task /\ [t EXCEPT !.pc = pc].pc = pc
  BY DEF Task
<1>4. \A t \in Task : Continued(t) \in {"send", "stop"}
  BY DEF Continued
<1>5. {"send", "stop"} \subseteq Pcs
  BY DEF Pcs
<1>6. ASSUME NEW pc \in Pcs, NEW u \in Telling(n, c, pc)
      PROVE  u \in Task /\ u.pc = pc
  <2>1. PICK t \in Creators(n, c) : u = [t EXCEPT !.pc = pc]
    BY DEF Telling
  <2> QED
    BY <1>2, <1>3, <2>1
<1>7. ASSUME NEW t \in Task
      PROVE  /\ [t EXCEPT !.pc = Continued(t)] \in Task
             /\ [t EXCEPT !.pc = Continued(t)].pc \in {"send", "stop"}
  BY <1>3, <1>4, <1>5
<1>8. \A u \in Going(n, c) : u \in Task /\ u.pc \in {"send", "stop"}
  BY <1>1, <1>7 DEF Going
<1> QED
  BY <1>6, <1>8

-----------------------------------------------------------------------------
(* Type correctness.                                                       *)

LEMMA StepTypes ==
  ASSUME TypeOK, Next
  PROVE  TypeOK'
<1> DEFINE TasksOK == IsABag(tasks) /\ BagToSet(tasks) \subseteq Task
           NetOK == IsABag(net) /\ BagToSet(net) \subseteq Message
<1>0. \A t \in BagToSet(tasks) : t \in Task
  BY DEF TypeOK
<1>1. ASSUME NEW n \in Nodes, NEW c \in Cids, Get(n, c)
      PROVE  TypeOK'
  <2>1. TaskOf(n, n, c, "lookup") \in Task
    BY Tasks DEF Pcs
  <2>2. TasksOK'
    BY <1>1, <2>1, BeginEffect DEF TypeOK, Get
  <2> QED
    BY <1>1, <2>2 DEF TypeOK, Get
<1>2. ASSUME NEW n \in Nodes, NEW c \in Cids, Put(n, c)
      PROVE  TypeOK'
  <2>1. TaskOf(n, n, c, "store") \in Task
    BY Tasks DEF Pcs
  <2>2. TasksOK'
    BY <1>2, <2>1, BeginEffect DEF TypeOK, Put
  <2> QED
    BY <1>2, <2>2 DEF TypeOK, Put
<1>3. ASSUME NEW t \in BagToSet(tasks), NEW pc \in Pcs, Goto(t, pc)
      PROVE  TasksOK'
  <2>1. t \in Task /\ BagIn(t, tasks)
    BY <1>0 DEF BagIn
  <2>2. TaskOf(t.node, t.peer, t.cid, pc) \in Task
    BY <2>1, Tasks
  <2> QED
    BY <1>3, <2>1, <2>2, GotoEffect DEF TypeOK
<1>4. ASSUME NEW t \in BagToSet(tasks), End(t)
      PROVE  TasksOK'
  BY <1>4, EndEffect DEF TypeOK
<1>5. ASSUME NEW t \in BagToSet(tasks), Lookup(t)
      PROVE  TypeOK'
  <2>1. TasksOK'
    BY <1>5, <1>3, <1>4 DEF Lookup, Pcs
  <2> QED
    BY <1>5, <2>1 DEF TypeOK, Lookup
<1>6. ASSUME NEW t \in BagToSet(tasks), Want(t)
      PROVE  TypeOK'
  <2>1. TasksOK'
    BY <1>6, <1>3 DEF Want, Pcs, Listed
  <2>2. t.node \in Nodes /\ t.cid \in Cids
    BY <1>0, Tasks
  <2>3. (timers \subseteq Nodes \X Cids)'
    BY <1>6, <2>2 DEF Want, TypeOK
  <2>4. (lost \subseteq Nodes \X Nodes \X Cids)'
    BY <1>6, <2>2 DEF Want, TypeOK
  <2> QED
    BY <1>6, <2>1, <2>3, <2>4 DEF TypeOK, Want
<1>7. ASSUME NEW t \in BagToSet(tasks), Count(t)
       PROVE  TypeOK'
  <2>1. TasksOK'
    BY <1>7, <1>3 DEF Count, Pcs, Listed
  <2> QED
    BY <1>7, <2>1 DEF TypeOK, Count
<1>8. ASSUME NEW t \in BagToSet(tasks), Announce(t)
       PROVE  TypeOK'
  <2>1. TasksOK'
    BY <1>8, <1>3, <1>4 DEF Announce, Continued, Pcs, Listed
  <2>2. ToAll(t) \subseteq Message
    BY <1>0, Tasks, Messages DEF ToAll
  <2>3. NetOK'
    BY <1>8, <2>2, SendEffect DEF Announce
  <2> QED
    BY <1>8, <2>1, <2>3 DEF TypeOK, Announce
<1>9. ASSUME NEW t \in BagToSet(tasks), ProvideThrows(t)
       PROVE  TypeOK'
  <2>1. TasksOK'
    BY <1>9, <1>4 DEF ProvideThrows
  <2>2. t.node \in Nodes /\ t.peer \in Nodes /\ t.cid \in Cids
    BY <1>0, Tasks
  <2>3. faults' \in 0..MaxFaults
    BY <1>9, ConstantsAssumption DEF ProvideThrows, Fault, TypeOK
  <2> QED
    BY <1>9, <2>1, <2>2, <2>3 DEF TypeOK, ProvideThrows
<1>10. ASSUME NEW m \in BagToSet(net), SendFails(m)
       PROVE  TypeOK'
  <2>1. m.to \in Nodes /\ m.from \in Nodes /\ m.cid \in Cids
    BY DEF TypeOK, Message
  <2>2. NetOK'
    BY <1>10, TakeEffect DEF TypeOK, SendFails
  <2>3. faults' \in 0..MaxFaults
    BY <1>10, ConstantsAssumption DEF SendFails, Fault, TypeOK
  <2>4. (lost \subseteq Nodes \X Nodes \X Cids)'
    BY <1>10, <2>1 DEF SendFails, TypeOK
  <2> QED
    BY <1>10, <2>2, <2>3, <2>4 DEF TypeOK, SendFails
<1>11. ASSUME NEW t \in BagToSet(tasks), SendBlock(t)
      PROVE  TypeOK'
  <2>1. TasksOK'
    BY <1>11, <1>4 DEF SendBlock
  <2>2. BlockMessage(t.node, t.peer, t.cid) \in Message
    BY <1>0, Tasks, Messages
  <2>3. NetOK'
    BY <1>11, <2>2, SendEffect DEF SendBlock
  <2> QED
    BY <1>11, <2>1, <2>3 DEF TypeOK, SendBlock
<1>12. ASSUME NEW n \in Nodes, NEW c \in Cids, NEW S, Unwant(n, c, S), faults' \in 0..MaxFaults
      PROVE  TypeOK'
  <2>1. TasksOK'
    <3>1. "announceDropped" \in Pcs
      BY DEF Pcs, Announcing
    <3> QED
      BY <1>12, <3>1, UnwantEffect, NewPcs DEF TypeOK
  <2>2. gaveUp' \subseteq Nodes \X Nodes \X Cids
    BY <1>12 DEF Unwant, TypeOK, Waiters
  <2> QED
    BY <1>12, <2>1, <2>2 DEF TypeOK, Unwant
<1>13. ASSUME NEW t \in BagToSet(tasks), StopQuery(t)
      PROVE  TypeOK'
  <2>1. t.node \in Nodes /\ t.cid \in Cids
    BY <1>0, Tasks
  <2> QED
    BY <1>12, <1>13, <2>1 DEF StopQuery, TypeOK
<1>14. ASSUME Fault
       PROVE  faults' \in 0..MaxFaults
  BY <1>14, ConstantsAssumption DEF Fault, TypeOK
<1>15. ASSUME NEW n \in Nodes, NEW c \in Cids, TimeOut(n, c) \/ Cancel(n, c)
       PROVE  TypeOK'
  BY <1>12, <1>14, <1>15 DEF TimeOut, Cancel
<1>16. ASSUME NEW t \in BagToSet(tasks), Store(t)
       PROVE  TypeOK'
  <2>1. TasksOK'
    BY <1>16, <1>3 DEF Store, Pcs
  <2>2. (blocks \in [Nodes -> SUBSET Cids])'
    BY <1>0, <1>16, Tasks DEF Store, TypeOK
  <2> QED
    BY <1>16, <2>1, <2>2 DEF TypeOK, Store
<1>17. ASSUME NEW t \in BagToSet(tasks), Found(t)
       PROVE  TypeOK'
  <2>1. TasksOK'
    <3>1. "announceFound" \in Pcs
      BY DEF Pcs, Announcing
    <3> QED
      BY <1>17, <3>1, FoundEffect, NewPcs DEF TypeOK
  <2> QED
    BY <1>17, <2>1 DEF TypeOK, Found
<1>18. ASSUME NEW m \in BagToSet(net), ReceiveWant(m)
       PROVE  TypeOK'
  <2>1. m \in Message
    BY DEF TypeOK
  <2>2. TaskOf(m.to, m.from, m.cid, "lookup") \in Task
    <3>1. m.to \in Nodes /\ m.from \in Nodes /\ m.cid \in Cids
      BY <2>1 DEF Message
    <3> QED
      BY <3>1, Tasks DEF Pcs
  <2>3. TasksOK'
    BY <1>18, <2>2, BeginEffect DEF TypeOK, ReceiveWant
  <2>4. NetOK'
    BY <1>18, TakeEffect DEF TypeOK, ReceiveWant
  <2> QED
    BY <1>18, <2>3, <2>4 DEF TypeOK, ReceiveWant
<1>19. ASSUME NEW m \in BagToSet(net), ReceiveBlock(m)
       PROVE  TypeOK'
  <2>1. m \in Message
    BY DEF TypeOK
  <2>2. TaskOf(m.to, m.from, m.cid, "store") \in Task
    <3>1. m.to \in Nodes /\ m.from \in Nodes /\ m.cid \in Cids
      BY <2>1 DEF Message
    <3> QED
      BY <3>1, Tasks DEF Pcs
  <2>3. TasksOK'
    BY <1>19, <2>2, BeginEffect DEF TypeOK, ReceiveBlock
  <2>4. NetOK'
    BY <1>19, TakeEffect DEF TypeOK, ReceiveBlock
  <2> QED
    BY <1>19, <2>3, <2>4 DEF TypeOK, ReceiveBlock
<1>20. ASSUME NEW n \in Nodes, NEW p \in Nodes, Connect(n, p)
       PROVE  TypeOK'
  <2>1. links' \subseteq Pairs
    BY <1>20 DEF Connect, TypeOK
  <2>2. met' \subseteq Nodes \X Nodes
    <3>1. met' \subseteq met \cup {<<n, p>>, <<p, n>>}
      BY <1>20 DEF Connect
    <3> QED
      BY <3>1 DEF TypeOK
  <2> QED
    BY <1>20, <2>1, <2>2 DEF TypeOK, Connect
<1>21. ASSUME NEW n \in Nodes, NEW p \in Nodes, ConnectionEstablished(n, p)
       PROVE  TypeOK'
  <2>1. (greet \subseteq Nodes \X Nodes)'
    BY <1>21 DEF ConnectionEstablished, TypeOK
  <2> QED
    BY <1>21, <2>1 DEF TypeOK, ConnectionEstablished
<1>22. ASSUME NEW n \in Nodes, NEW p \in Nodes, Greet(n, p)
       PROVE  TypeOK'
  <2>1. {WantMessage(n, p, c) : c \in {d \in Cids : Wanted(n, d)}} \subseteq Message
    BY Messages
  <2>2. NetOK'
    BY <1>22, <2>1, SendEffect DEF Greet
  <2> QED
    BY <1>22, <2>2 DEF TypeOK, Greet
<1>23. ASSUME NEW n \in Nodes, NEW p \in Nodes, Disconnect(n, p)
       PROVE  TypeOK'
  <2>1. NetOK'
    BY <1>23 DEF Disconnect, TypeOK, IsABag, BagToSet
  <2>2. faults' \in 0..MaxFaults
    BY <1>14, <1>23 DEF Disconnect
  <2> QED
    BY <1>23, <2>1, <2>2 DEF TypeOK, Disconnect
<1> QED
  BY <1>1, <1>2, <1>5, <1>6, <1>11, <1>13, <1>15, <1>16, <1>17, <1>18, <1>19, <1>20, <1>22,
     <1>23, <1>7, <1>8, <1>9, <1>10, <1>21 DEF Next, Progress, TaskStep

-----------------------------------------------------------------------------
(* How a want and the knowledge of it pass from one state to the next.     *)

LEMMA WantedForm ==
  ASSUME NEW n \in Nodes, NEW c \in Cids
  PROVE  /\ TypeOK => (Wanted(n, c) <=> ListedAt(n, c) # {})
         /\ TypeOK' => (Wanted(n, c)' <=> ListedAt(n, c)' # {})
<1>1. Listed \subseteq Pcs
  BY DEF Pcs
<1> DEFINE In(T) == \E p \in Nodes, pc \in Listed : TaskOf(n, p, c, pc) \in T
           Of(T) == {t \in T : t.node = n /\ t.cid = c /\ t.pc \in Listed}
<1>2. \A T : T \subseteq Task => (In(T) <=> Of(T) # {})
  <2> SUFFICES ASSUME NEW T, T \subseteq Task
               PROVE  In(T) <=> Of(T) # {}
    OBVIOUS
  <2>1. ASSUME NEW p \in Nodes, NEW pc \in Listed, TaskOf(n, p, c, pc) \in T
        PROVE  TaskOf(n, p, c, pc) \in Of(T)
    BY <1>1, <2>1, Tasks
  <2>2. ASSUME NEW t \in Of(T)
        PROVE  t.peer \in Nodes /\ t.pc \in Listed /\ TaskOf(n, t.peer, c, t.pc) \in T
    BY Tasks
  <2> QED
    BY <2>1, <2>2
<1>3. Wanted(n, c) <=> In(BagToSet(tasks))
  BY DEF Wanted, Waiters, BagIn
<1>4. Wanted(n, c)' <=> In(BagToSet(tasks'))
  BY DEF Wanted, Waiters, BagIn
<1>5. ListedAt(n, c) = Of(BagToSet(tasks)) /\ ListedAt(n, c)' = Of(BagToSet(tasks'))
  BY DEF ListedAt
<1> HIDE DEF In, Of
<1>6. /\ TypeOK => BagToSet(tasks) \subseteq Task
      /\ TypeOK' => BagToSet(tasks') \subseteq Task
  BY DEF TypeOK
<1> QED
  BY <1>2, <1>3, <1>4, <1>5, <1>6

(* Who was about to tell the peers still is: nobody has joined the entry.  *)
LEMMA AboutStays ==
  ASSUME NEW n, NEW c, AboutToTell(n, c), ListedAt(n, c)' = ListedAt(n, c)
  PROVE  AboutToTell(n, c)'
<1>1. PICK t : t \in Creators(n, c)
  BY DEF AboutToTell
<1>2. t \in Creators(n, c)'
  BY <1>1, CreatorForm, NextCreatorForm
<1> QED
  BY <1>2 DEF AboutToTell

(* No consumer comes or goes.                                              *)
LEMMA SameListed ==
  ASSUME NEW t, NEW U, NEW n, NEW c,
         BagToSet(tasks') \subseteq BagToSet(tasks) \cup U,
         BagToSet(tasks) \ {t} \subseteq BagToSet(tasks'),
         \A u \in U \cup {t} : ~(u.node = n /\ u.cid = c /\ u.pc \in Listed)
  PROVE  ListedAt(n, c)' = ListedAt(n, c)
BY DEF ListedAt

(* What informs p stays, or something else informs it.                     *)
LEMMA StillInformed ==
  ASSUME NEW n \in Nodes, NEW p \in Nodes, NEW c \in Cids, Informed(n, p, c),
         <<n, p>> \in (met \cup greet) \ (met' \cup greet') => Informed(n, p, c)',
         <<p, n, c>> \in gaveUp \ gaveUp' => Informed(n, p, c)',
         <<n, p, c>> \in lost \ lost' => Informed(n, p, c)',
         AboutToTell(n, c) => Informed(n, p, c)',
         \A m \in BagToSet(net) \ BagToSet(net') :
           m \in {WantMessage(n, p, c), BlockMessage(p, n, c)} => Informed(n, p, c)',
         \A t \in BagToSet(tasks) \ BagToSet(tasks') :
           /\ \A pc \in Serving : t = TaskOf(p, n, c, pc) => Informed(n, p, c)'
           /\ \A pc \in {"store", "provide", "found"} :
                t = TaskOf(n, p, c, pc) => Informed(n, p, c)'
  PROVE  Informed(n, p, c)'
<1>1. ASSUME NEW pc \in Serving, BagIn(TaskOf(p, n, c, pc), tasks)
      PROVE  Informed(n, p, c)'
  <2>1. CASE TaskOf(p, n, c, pc) \in BagToSet(tasks')
    BY <2>1 DEF Informed, BagIn
  <2> QED
    BY <1>1, <2>1 DEF BagIn
<1>2. ASSUME NEW pc \in {"store", "provide", "found"}, BagIn(TaskOf(n, p, c, pc), tasks)
      PROVE  Informed(n, p, c)'
  <2>1. CASE TaskOf(n, p, c, pc) \in BagToSet(tasks')
    BY <2>1 DEF Informed, BagIn
  <2> QED
    BY <1>2, <2>1 DEF BagIn
<1>3. ASSUME NEW m \in {WantMessage(n, p, c), BlockMessage(p, n, c)}, BagIn(m, net)
      PROVE  Informed(n, p, c)'
  <2>1. CASE m \in BagToSet(net')
    BY <1>3, <2>1 DEF Informed, BagIn
  <2> QED
    BY <1>3, <2>1 DEF BagIn
<1>4. CASE <<n, p>> \in met \cup greet
  BY <1>4 DEF Informed
<1>5. CASE <<p, n, c>> \in gaveUp \/ <<n, p, c>> \in lost
  BY <1>5 DEF Informed
<1> QED
  BY <1>1, <1>2, <1>3, <1>4, <1>5 DEF Informed

LEMMA SamePc ==
  ASSUME NEW n \in Nodes, NEW p \in Nodes, NEW c \in Cids, NEW pc \in Pcs, NEW t,
         t = TaskOf(n, p, c, pc)
  PROVE  t.node = n /\ t.peer = p /\ t.cid = c /\ t.pc = pc
BY Tasks

LEMMA ServingPcs == Serving \subseteq Pcs /\ {"store", "provide", "found"} \subseteq Pcs
BY DEF Serving, Announcing, Pcs

-----------------------------------------------------------------------------
(* Every peer stays informed, one lemma for each group of actions.         *)

LEMMA UserStep ==
  ASSUME IInv, TypeOK', NEW n \in Nodes, NEW c \in Cids, Get(n, c) \/ Put(n, c)
  PROVE  PeersInformed'
<1> SUFFICES ASSUME NEW a \in Nodes, NEW b \in Nodes, NEW d \in Cids,
                    Linked(a, b)', Wanted(a, d)'
             PROVE  Informed(a, b, d)'
  BY DEF PeersInformed
<1>1. PICK pc \in {"lookup", "store"} : Begin(TaskOf(n, n, c, pc))
  BY DEF Get, Put
<1> DEFINE u == TaskOf(n, n, c, pc)
<1>2. u \in Task /\ u.pc = pc
  BY Tasks DEF Pcs
<1>3. BagToSet(tasks') = BagToSet(tasks) \cup {u}
  BY <1>1, <1>2, BeginEffect DEF IInv
<1> HIDE DEF u
<1>4. u.pc \notin Listed
  BY <1>2 DEF Listed
<1>5. ListedAt(a, d)' = ListedAt(a, d)
  BY <1>3, <1>4 DEF ListedAt
<1>6. Informed(a, b, d)
  BY <1>5, WantedForm DEF IInv, PeersInformed, Linked, Get, Put
<1>7. AboutToTell(a, d) => Informed(a, b, d)'
  BY <1>5, AboutStays DEF Informed
<1>8. met' = met /\ greet' = greet /\ net' = net /\ gaveUp' = gaveUp /\ lost' = lost
  BY DEF Get, Put
<1> QED
  BY <1>3, <1>6, <1>7, <1>8, StillInformed

LEMMA LookupStep ==
  ASSUME IInv, TypeOK', NEW t \in BagToSet(tasks), Lookup(t)
  PROVE  PeersInformed'
<1> SUFFICES ASSUME NEW a \in Nodes, NEW b \in Nodes, NEW d \in Cids,
                    Linked(a, b)', Wanted(a, d)'
             PROVE  Informed(a, b, d)'
  BY DEF PeersInformed
<1>1. TypeOK /\ t \in Task /\ t.pc = "lookup" /\ BagIn(t, tasks)
  BY DEF IInv, TypeOK, Lookup, At, BagIn
<1>2. t.node \in Nodes /\ t.peer \in Nodes /\ t.cid \in Cids
  BY <1>1, Tasks
<1> DEFINE U == {TaskOf(t.node, t.peer, t.cid, pc) : pc \in {"want", "send"}}
<1>3. \A pc \in {"want", "send"} : TaskOf(t.node, t.peer, t.cid, pc).pc = pc
  <2>1. {"want", "send"} \subseteq Pcs
    BY DEF Pcs
  <2> QED
    BY <1>2, <2>1, Tasks
<1>4. /\ BagToSet(tasks') \subseteq BagToSet(tasks) \cup U
      /\ BagToSet(tasks) \ {t} \subseteq BagToSet(tasks')
      /\ Remote(t) => \E u \in U : u \in BagToSet(tasks')
  BY <1>1, GotoEffect, EndEffect DEF Lookup, Pcs
<1>5. ListedAt(a, d)' = ListedAt(a, d)
  <2>1. \A u \in U \cup {t} : u.pc \notin Listed
    BY <1>1, <1>3 DEF Listed
  <2> HIDE DEF U
  <2> QED
    BY <1>4, <2>1, SameListed
<1>6. Informed(a, b, d) /\ a # b
  BY <1>1, <1>5, WantedForm, NoLoops DEF IInv, PeersInformed, Linked, Lookup
<1>7. ASSUME NEW pc \in Serving, t = TaskOf(b, a, d, pc)
      PROVE  Informed(a, b, d)'
  <2>1. t.node = b /\ t.peer = a /\ t.cid = d
    BY <1>7, SamePc, ServingPcs
  <2>2. \E q \in {"want", "send"} : TaskOf(b, a, d, q) \in BagToSet(tasks')
    BY <1>4, <1>6, <2>1 DEF Remote
  <2> QED
    BY <2>2 DEF Informed, Serving, BagIn
<1>8. \A pc \in {"store", "provide", "found"} : t # TaskOf(a, b, d, pc)
  BY <1>1, Tasks DEF Pcs
<1>9. AboutToTell(a, d) => Informed(a, b, d)'
  BY <1>5, AboutStays DEF Informed
<1>10. met' = met /\ greet' = greet /\ net' = net /\ gaveUp' = gaveUp /\ lost' = lost
  BY DEF Lookup
<1> QED
  BY <1>4, <1>6, <1>7, <1>8, <1>9, <1>10, StillInformed

LEMMA WantStep ==
  ASSUME IInv, TypeOK', NEW t \in BagToSet(tasks), Want(t)
  PROVE  PeersInformed'
<1> SUFFICES ASSUME NEW a \in Nodes, NEW b \in Nodes, NEW d \in Cids,
                    Linked(a, b)', Wanted(a, d)'
             PROVE  Informed(a, b, d)'
  BY DEF PeersInformed
<1> DEFINE q == IF Wanted(t.node, t.cid) THEN "waiting" ELSE "count"
           u == TaskOf(t.node, t.peer, t.cid, q)
<1>1. TypeOK /\ t \in Task /\ t.pc = "want" /\ BagIn(t, tasks)
  BY DEF IInv, TypeOK, Want, At, BagIn
<1>2. t.node \in Nodes /\ t.peer \in Nodes /\ t.cid \in Cids /\ q \in Listed \cap Pcs
  BY <1>1, Tasks DEF Listed, Pcs
<1>3. /\ BagToSet(tasks') \subseteq BagToSet(tasks) \cup {u}
      /\ BagToSet(tasks) \ {t} \subseteq BagToSet(tasks')
      /\ u \in BagToSet(tasks')
  BY <1>1, <1>2, GotoEffect DEF Want
<1>4. u.node = t.node /\ u.cid = t.cid /\ u.pc = q
  BY <1>2, Tasks
<1>5. Linked(a, b)
  BY DEF Linked, Want
<1>6. t.pc \notin Listed
  BY <1>1 DEF Listed
<1>7. ASSUME Informed(a, b, d), AboutToTell(a, d) => Informed(a, b, d)'
      PROVE  Informed(a, b, d)'
  <2>1. ASSUME NEW pc \in Serving, t = TaskOf(b, a, d, pc)
        PROVE  Informed(a, b, d)'
    <3>1. t.node = b /\ t.peer = a /\ t.cid = d
      BY <2>1, SamePc, ServingPcs
    <3>2. q \in Serving /\ TaskOf(b, a, d, q) \in BagToSet(tasks')
      BY <1>2, <1>3, <3>1 DEF Serving
    <3> HIDE DEF q
    <3> QED
      BY <3>2 DEF Informed, BagIn
  <2>2. \A pc \in {"store", "provide", "found"} : t # TaskOf(a, b, d, pc)
    BY <1>1, Tasks DEF Pcs
  <2>3. met' = met /\ greet' = greet /\ net' = net /\ gaveUp' = gaveUp
    BY DEF Want
  <2>4. lost \subseteq lost'
    BY DEF Want
  <2> HIDE DEF u
  <2> QED
    BY <1>3, <1>7, <2>1, <2>2, <2>3, <2>4, StillInformed
<1> HIDE DEF u
<1>8. CASE ~(a = t.node /\ d = t.cid)
  <2>1. ListedAt(a, d)' = ListedAt(a, d)
    BY <1>3, <1>4, <1>6, <1>8 DEF ListedAt
  <2>2. Informed(a, b, d)
    BY <1>1, <1>5, <2>1, WantedForm DEF IInv, PeersInformed
  <2>3. AboutToTell(a, d) => Informed(a, b, d)'
    BY <2>1, AboutStays DEF Informed
  <2> QED
    BY <1>7, <2>2, <2>3
<1>9. CASE a = t.node /\ d = t.cid /\ ~Wanted(a, d)
  <2>1. ListedAt(a, d) = {}
    BY <1>1, <1>9, WantedForm
  <2>2. u.pc = "count"
    BY <1>4, <1>9
  <2>3. u \in ListedAt(a, d)'
    BY <1>3, <1>4, <1>9, <2>2 DEF ListedAt, Listed
  <2>4. ListedAt(a, d)' \subseteq ListedAt(a, d) \cup {u}
    BY <1>3 DEF ListedAt
  <2>5. u \in Creators(a, d)'
    BY <2>1, <2>2, <2>3, <2>4, NextCreatorForm
  <2> QED
    BY <2>5 DEF Informed, AboutToTell
<1>10. CASE a = t.node /\ d = t.cid /\ Wanted(a, d)
  <2>1. Informed(a, b, d)
    BY <1>1, <1>5, <1>10 DEF IInv, PeersInformed
  <2>2. ASSUME NEW v \in Creators(a, d)
        PROVE  Informed(a, b, d)'
    <3>1. v \in ListedAt(a, d) /\ v.pc \in {"announce", "count"}
      BY CreatorForm
    <3>2. CASE v.pc = "count"
      <4>1. <<a, b, d>> \in lost'
        BY <1>10, <2>2, <3>2 DEF Want
      <4> QED
        BY <4>1 DEF Informed
    <3>3. CASE v.pc = "announce"
      <4>1. v \in ListedAt(a, d)'
        BY <1>1, <1>3, <3>1, <3>3 DEF ListedAt
      <4>2. v \in Creators(a, d)'
        BY <3>3, <4>1, NextCreatorForm
      <4> QED
        BY <4>2 DEF Informed, AboutToTell
    <3> QED
      BY <3>1, <3>2, <3>3
  <2> QED
    BY <1>7, <2>1, <2>2 DEF AboutToTell
<1> QED
  BY <1>8, <1>9, <1>10

LEMMA CountStep ==
  ASSUME IInv, TypeOK', NEW t \in BagToSet(tasks), Count(t)
  PROVE  PeersInformed'
<1> SUFFICES ASSUME NEW a \in Nodes, NEW b \in Nodes, NEW d \in Cids,
                    Linked(a, b)', Wanted(a, d)'
             PROVE  Informed(a, b, d)'
  BY DEF PeersInformed
<1> DEFINE q == IF Alone(t) THEN "announce" ELSE "waiting"
           u == TaskOf(t.node, t.peer, t.cid, q)
<1>1. TypeOK /\ t \in Task /\ t.pc = "count" /\ BagIn(t, tasks)
  BY DEF IInv, TypeOK, Count, At, BagIn
<1>2. t.node \in Nodes /\ t.peer \in Nodes /\ t.cid \in Cids /\ q \in Listed \cap Pcs
  BY <1>1, Tasks DEF Listed, Pcs
<1>3. /\ BagToSet(tasks') \subseteq BagToSet(tasks) \cup {u}
      /\ BagToSet(tasks) \ {t} \subseteq BagToSet(tasks')
      /\ u \in BagToSet(tasks')
  BY <1>1, <1>2, GotoEffect DEF Count
<1>4. u.node = t.node /\ u.cid = t.cid /\ u.pc = q
  BY <1>2, Tasks
<1>5. Linked(a, b)
  BY DEF Linked, Count
<1>6. ListedAt(t.node, t.cid) # {} /\ t \in ListedAt(t.node, t.cid)
  BY <1>1 DEF ListedAt, Listed, BagIn
<1>7. ASSUME Informed(a, b, d), AboutToTell(a, d) => Informed(a, b, d)'
      PROVE  Informed(a, b, d)'
  <2>1. ASSUME NEW pc \in Serving, t = TaskOf(b, a, d, pc)
        PROVE  Informed(a, b, d)'
    <3>1. t.node = b /\ t.peer = a /\ t.cid = d
      BY <2>1, SamePc, ServingPcs
    <3>2. q \in Serving /\ TaskOf(b, a, d, q) \in BagToSet(tasks')
      BY <1>2, <1>3, <3>1 DEF Serving
    <3> HIDE DEF q
    <3> QED
      BY <3>2 DEF Informed, BagIn
  <2>2. \A pc \in {"store", "provide", "found"} : t # TaskOf(a, b, d, pc)
    BY <1>1, Tasks DEF Pcs
  <2>3. met' = met /\ greet' = greet /\ net' = net /\ gaveUp' = gaveUp /\ lost' = lost
    BY DEF Count
  <2> HIDE DEF u
  <2> QED
    BY <1>3, <1>7, <2>1, <2>2, <2>3, StillInformed
<1> HIDE DEF u
<1>8. CASE ~(a = t.node /\ d = t.cid)
  <2>1. ListedAt(a, d)' = ListedAt(a, d)
    BY <1>3, <1>4, <1>8 DEF ListedAt
  <2>2. Informed(a, b, d)
    BY <1>1, <1>5, <2>1, WantedForm DEF IInv, PeersInformed
  <2>3. AboutToTell(a, d) => Informed(a, b, d)'
    BY <2>1, AboutStays DEF Informed
  <2> QED
    BY <1>7, <2>2, <2>3
<1>9. CASE a = t.node /\ d = t.cid
  <2>1. Informed(a, b, d)
    BY <1>1, <1>5, <1>6, <1>9, WantedForm DEF IInv, PeersInformed
  <2>2. u \in ListedAt(a, d)'
    BY <1>2, <1>3, <1>4, <1>9 DEF ListedAt
  <2>3. ASSUME NEW v \in Creators(a, d)
        PROVE  Informed(a, b, d)'
    <3>1. /\ v \in ListedAt(a, d)
          /\ v.pc = "announce" \/ (v.pc = "count" /\ ListedAt(a, d) = {v})
      BY CreatorForm
    <3>2. CASE Alone(t)
      <4>1. u \in Creators(a, d)'
        BY <1>4, <2>2, <3>2, NextCreatorForm
      <4> QED
        BY <4>1 DEF Informed, AboutToTell
    <3>3. CASE ~Alone(t)
      <4>1. v.pc = "announce"
        <5>1. Alone(t) <=> ListedAt(a, d) = {t}
          BY <1>9 DEF Alone, TasksAt, ListedAt, BagToSet
        <5> QED
          BY <1>6, <1>9, <3>1, <3>3, <5>1
      <4>2. v \in ListedAt(a, d)'
        BY <1>1, <1>3, <3>1, <4>1 DEF ListedAt
      <4>3. v \in Creators(a, d)'
        BY <4>1, <4>2, NextCreatorForm
      <4> QED
        BY <4>3 DEF Informed, AboutToTell
    <3> QED
      BY <3>2, <3>3
  <2> QED
    BY <1>7, <2>1, <2>3 DEF AboutToTell
<1> QED
  BY <1>8, <1>9

LEMMA AnnounceStep ==
  ASSUME IInv, TypeOK', NEW t \in BagToSet(tasks), Announce(t)
  PROVE  PeersInformed'
<1> SUFFICES ASSUME NEW a \in Nodes, NEW b \in Nodes, NEW d \in Cids,
                    Linked(a, b)', Wanted(a, d)'
             PROVE  Informed(a, b, d)'
  BY DEF PeersInformed
<1> DEFINE U == {TaskOf(t.node, t.peer, t.cid, pc) : pc \in {"waiting", "send", "stop"}}
<1>1. TypeOK /\ t \in Task /\ t.pc \in Announcing /\ BagIn(t, tasks)
  BY DEF IInv, TypeOK, Announce, BagIn
<1>2. t.node \in Nodes /\ t.peer \in Nodes /\ t.cid \in Cids
  BY <1>1, Tasks
<1>3. {"waiting", "send", "stop"} \subseteq Pcs
  BY DEF Pcs, Listed
<1>4. \A pc \in {"waiting", "send", "stop"} :
        TaskOf(t.node, t.peer, t.cid, pc).node = t.node
          /\ TaskOf(t.node, t.peer, t.cid, pc).cid = t.cid
  BY <1>2, <1>3, Tasks
<1>5. /\ BagToSet(tasks') \subseteq BagToSet(tasks) \cup U
      /\ BagToSet(tasks) \ {t} \subseteq BagToSet(tasks')
      /\ t.pc = "announce" => TaskOf(t.node, t.peer, t.cid, "waiting") \in BagToSet(tasks')
      /\ t.pc = "announceFound" =>
           TaskOf(t.node, t.peer, t.cid, Continued(t)) \in BagToSet(tasks')
  <2>1. ASSUME NEW pc \in {"waiting", "send", "stop"}, Goto(t, pc)
        PROVE  /\ BagToSet(tasks') \subseteq BagToSet(tasks) \cup U
               /\ BagToSet(tasks) \ {t} \subseteq BagToSet(tasks')
               /\ TaskOf(t.node, t.peer, t.cid, pc) \in BagToSet(tasks')
    BY <1>1, <1>3, <2>1, GotoEffect
  <2>2. CASE t.pc = "announce" /\ Goto(t, "waiting")
    BY <2>1, <2>2
  <2>3. CASE t.pc = "announceFound" /\ Goto(t, Continued(t))
    <3>1. Continued(t) \in {"waiting", "send", "stop"}
      BY DEF Continued
    <3> QED
      BY <2>1, <2>3, <3>1
  <2>4. CASE t.pc = "announceDropped" /\ End(t)
    BY <1>1, <2>4, EndEffect
  <2> QED
    BY <2>2, <2>3, <2>4 DEF Announce
<1>6. ToAll(t) \subseteq Message
  BY <1>2, Messages DEF ToAll
<1>7. BagToSet(net') = BagToSet(net) \cup ToAll(t)
  BY <1>1, <1>6, SendEffect DEF Announce
<1>8. Linked(a, b) /\ a # b
  BY <1>1, NoLoops DEF Linked, Announce
<1>9. CASE a = t.node /\ d = t.cid
  <2>1. WantMessage(a, b, d) \in ToAll(t)
    BY <1>8, <1>9 DEF ToAll
  <2> QED
    BY <1>7, <2>1 DEF Informed, BagIn
<1>10. CASE ~(a = t.node /\ d = t.cid)
  <2>1. ListedAt(a, d)' = ListedAt(a, d)
    <3>1. \A u \in U \cup {t} : ~(u.node = a /\ u.cid = d)
      BY <1>4, <1>10
    <3> HIDE DEF U
    <3> QED
      BY <1>5, <3>1, SameListed
  <2>2. Informed(a, b, d)
    BY <1>1, <1>8, <2>1, WantedForm DEF IInv, PeersInformed
  <2>3. AboutToTell(a, d) => Informed(a, b, d)'
    BY <2>1, AboutStays DEF Informed
  <2>4. ASSUME NEW pc \in Serving, t = TaskOf(b, a, d, pc)
        PROVE  Informed(a, b, d)'
    <3>1. t.node = b /\ t.peer = a /\ t.cid = d /\ t.pc = pc
      BY <2>4, SamePc, ServingPcs
    <3>2. Remote(t)
      BY <1>8, <3>1 DEF Remote
    <3>3. \E q \in {"waiting", "send"} : TaskOf(b, a, d, q) \in BagToSet(tasks')
      BY <1>1, <1>5, <3>1, <3>2 DEF Announcing, Serving, Listed, Continued
    <3> QED
      BY <3>3 DEF Informed, Serving, Listed, BagIn
  <2>5. \A pc \in {"store", "provide", "found"} : t # TaskOf(a, b, d, pc)
    BY <1>1, Tasks DEF Pcs, Announcing
  <2>6. met' = met /\ greet' = greet /\ gaveUp' = gaveUp
    BY DEF Announce
  <2>7. <<a, b, d>> \in lost => <<a, b, d>> \in lost'
    <3>1. \A m \in ToAll(t) : m.from = t.node /\ m.cid = t.cid
      BY <1>2, Messages DEF ToAll
    <3>2. <<a, b, d>> \notin {<<m.from, m.to, m.cid>> : m \in ToAll(t)}
      BY <1>10, <3>1
    <3> QED
      BY <3>2 DEF Announce
  <2> HIDE DEF U
  <2> QED
    BY <1>5, <1>7, <2>2, <2>3, <2>4, <2>5, <2>6, <2>7, StillInformed
<1> QED
  BY <1>9, <1>10

LEMMA SendBlockStep ==
  ASSUME IInv, TypeOK', NEW t \in BagToSet(tasks), SendBlock(t)
  PROVE  PeersInformed'
<1> SUFFICES ASSUME NEW a \in Nodes, NEW b \in Nodes, NEW d \in Cids,
                    Linked(a, b)', Wanted(a, d)'
             PROVE  Informed(a, b, d)'
  BY DEF PeersInformed
<1> DEFINE S == IF Linked(t.node, t.peer) THEN {BlockMessage(t.node, t.peer, t.cid)} ELSE {}
<1>1. TypeOK /\ t \in Task /\ t.pc = "send"
  BY DEF IInv, TypeOK, SendBlock, At
<1>2. t.node \in Nodes /\ t.peer \in Nodes /\ t.cid \in Cids
  BY <1>1, Tasks
<1>3. /\ BagToSet(tasks') \subseteq BagToSet(tasks)
      /\ BagToSet(tasks) \ {t} \subseteq BagToSet(tasks')
  BY <1>1, EndEffect DEF SendBlock
<1>4. S \subseteq Message
  BY <1>2, Messages
<1>5. BagToSet(net') = BagToSet(net) \cup S
  BY <1>1, <1>4, SendEffect DEF SendBlock
<1>6. Linked(a, b)
  BY DEF Linked, SendBlock
<1>7. t.pc \notin Listed
  BY <1>1 DEF Listed
<1>8. ListedAt(a, d)' = ListedAt(a, d)
  BY <1>3, <1>7 DEF ListedAt
<1>9. Informed(a, b, d)
  BY <1>1, <1>6, <1>8, WantedForm DEF IInv, PeersInformed
<1>10. ASSUME NEW pc \in Serving, t = TaskOf(b, a, d, pc)
       PROVE  Informed(a, b, d)'
  <2>1. t.node = b /\ t.peer = a /\ t.cid = d
    BY <1>10, SamePc, ServingPcs
  <2>2. {b, a} = {a, b}
    OBVIOUS
  <2>3. BlockMessage(b, a, d) \in S
    BY <1>6, <2>1, <2>2 DEF Linked
  <2> QED
    BY <1>5, <2>3 DEF Informed, BagIn
<1>11. \A pc \in {"store", "provide", "found"} : t # TaskOf(a, b, d, pc)
  BY <1>1, Tasks DEF Pcs
<1>12. met' = met /\ greet' = greet /\ gaveUp' = gaveUp /\ lost' = lost
  BY DEF SendBlock
<1>13. AboutToTell(a, d) => Informed(a, b, d)'
  BY <1>8, AboutStays DEF Informed
<1> HIDE DEF S
<1> QED
  BY <1>3, <1>5, <1>9, <1>10, <1>11, <1>12, <1>13, StillInformed

LEMMA UnwantStep ==
  ASSUME IInv, TypeOK', NEW n \in Nodes, NEW c \in Cids, NEW S, Unwant(n, c, S),
         \A t \in S : t.pc = "stop"
  PROVE  PeersInformed'
<1> SUFFICES ASSUME NEW a \in Nodes, NEW b \in Nodes, NEW d \in Cids,
                    Linked(a, b)', Wanted(a, d)'
             PROVE  Informed(a, b, d)'
  BY DEF PeersInformed
<1> DEFINE new == Telling(n, c, "announceDropped")
<1>1. /\ BagToSet(tasks') \subseteq (BagToSet(tasks) \ ListedAt(n, c)) \cup new
      /\ BagToSet(tasks) \ (S \cup ListedAt(n, c)) \subseteq BagToSet(tasks')
  BY UnwantEffect DEF IInv
<1>2. \A u \in new : u.pc \notin Listed
  <2>1. "announceDropped" \in Pcs /\ "announceDropped" \notin Listed
    BY DEF Pcs, Announcing, Listed
  <2> QED
    BY <2>1, NewPcs DEF IInv
<1> HIDE DEF new
<1>3. ~(a = n /\ d = c)
  <2>1. ListedAt(a, d)' # {}
    BY WantedForm
  <2>2. ListedAt(n, c)' = {}
    BY <1>1, <1>2 DEF ListedAt
  <2> QED
    BY <2>1, <2>2
<1>4. ListedAt(a, d)' = ListedAt(a, d)
  <2>1. "stop" \notin Listed
    BY DEF Listed
  <2> QED
    BY <1>1, <1>2, <1>3, <2>1 DEF ListedAt
<1>5. Informed(a, b, d)
  BY <1>4, WantedForm DEF IInv, PeersInformed, Linked, Unwant
<1>6. ASSUME NEW t \in BagToSet(tasks) \ BagToSet(tasks')
      PROVE  t.pc = "stop" \/ (t \in ListedAt(n, c) /\ t.node = n /\ t.cid = c /\ t.pc \in Listed)
  BY <1>1, <1>6 DEF ListedAt
<1>7. ASSUME NEW t \in BagToSet(tasks) \ BagToSet(tasks'), NEW pc \in Serving, t = TaskOf(b, a, d, pc)
      PROVE  Informed(a, b, d)'
  <2>1. t.node = b /\ t.peer = a /\ t.cid = d /\ t.pc = pc
    BY <1>7, SamePc, ServingPcs
  <2>2. pc # "stop"
    BY <1>7 DEF Serving, Listed
  <2>3. n = b /\ c = d /\ pc \in Listed
    BY <1>6, <1>7, <2>1, <2>2
  <2>4. a \in Waiters(n, c)
    BY <1>7, <2>3 DEF Waiters, BagIn
  <2>5. <<b, a, d>> \in gaveUp'
    BY <2>3, <2>4 DEF Unwant
  <2> QED
    BY <2>5 DEF Informed
<1>8. ASSUME NEW t \in BagToSet(tasks) \ BagToSet(tasks'), NEW pc \in {"store", "provide", "found"}
      PROVE  t # TaskOf(a, b, d, pc)
  <2>1. t.pc \in Listed \cup {"stop"}
    BY <1>6, <1>8
  <2>2. TaskOf(a, b, d, pc).pc = pc
    BY <1>8, SamePc, ServingPcs
  <2> QED
    BY <2>1, <2>2 DEF Listed
<1>9. met' = met /\ greet' = greet /\ net' = net
  BY DEF Unwant
<1>10. <<b, a, d>> \in gaveUp => <<b, a, d>> \in gaveUp'
  BY <1>3 DEF Unwant
<1>11. <<a, b, d>> \in lost => <<a, b, d>> \in lost'
  BY <1>3 DEF Unwant
<1>12. AboutToTell(a, d) => Informed(a, b, d)'
  BY <1>4, AboutStays DEF Informed
<1> QED
  BY <1>5, <1>7, <1>8, <1>9, <1>10, <1>11, <1>12, StillInformed

LEMMA StoreStep ==
  ASSUME IInv, TypeOK', NEW t \in BagToSet(tasks), Store(t)
  PROVE  PeersInformed'
<1> SUFFICES ASSUME NEW a \in Nodes, NEW b \in Nodes, NEW d \in Cids,
                    Linked(a, b)', Wanted(a, d)'
             PROVE  Informed(a, b, d)'
  BY DEF PeersInformed
<1> DEFINE q == IF t.cid \in blocks[t.node] THEN "found" ELSE "provide"
           u == TaskOf(t.node, t.peer, t.cid, q)
<1>1. TypeOK /\ t \in Task /\ t.pc = "store" /\ BagIn(t, tasks)
  BY DEF IInv, TypeOK, Store, At, BagIn
<1>2. /\ t.node \in Nodes /\ t.peer \in Nodes /\ t.cid \in Cids
      /\ q \in {"found", "provide"} /\ q \in Pcs
  BY <1>1, Tasks DEF Pcs
<1>3. /\ BagToSet(tasks') \subseteq BagToSet(tasks) \cup {u}
      /\ BagToSet(tasks) \ {t} \subseteq BagToSet(tasks')
      /\ u \in BagToSet(tasks')
  BY <1>1, <1>2, GotoEffect DEF Store
<1>4. u.pc = q
  BY <1>2, Tasks
<1>5. t.pc \notin Listed /\ u.pc \notin Listed
  BY <1>1, <1>2, <1>4 DEF Listed
<1> HIDE DEF u, q
<1>6. ListedAt(a, d)' = ListedAt(a, d)
  BY <1>3, <1>5 DEF ListedAt
<1>7. Informed(a, b, d)
  BY <1>1, <1>6, WantedForm DEF IInv, PeersInformed, Linked, Store
<1>8. ASSUME NEW pc \in Serving
      PROVE  t # TaskOf(b, a, d, pc)
  <2>1. pc # "store" /\ TaskOf(b, a, d, pc).pc = pc
    BY SamePc, ServingPcs DEF Serving, Listed
  <2> QED
    BY <1>1, <2>1
<1>9. ASSUME NEW pc \in {"store", "provide", "found"}, t = TaskOf(a, b, d, pc)
      PROVE  Informed(a, b, d)'
  <2>1. t.node = a /\ t.peer = b /\ t.cid = d
    BY <1>9, SamePc, ServingPcs
  <2>2. TaskOf(a, b, d, q) \in BagToSet(tasks')
    BY <1>3, <2>1 DEF u
  <2> QED
    BY <1>2, <2>2 DEF Informed, BagIn
<1>10. met' = met /\ greet' = greet /\ net' = net /\ gaveUp' = gaveUp /\ lost' = lost
  BY DEF Store
<1>11. AboutToTell(a, d) => Informed(a, b, d)'
  BY <1>6, AboutStays DEF Informed
<1> QED
  BY <1>3, <1>7, <1>8, <1>9, <1>10, <1>11, StillInformed

LEMMA ProvideThrowsStep ==
  ASSUME IInv, TypeOK', NEW t \in BagToSet(tasks), ProvideThrows(t)
  PROVE  PeersInformed'
<1> SUFFICES ASSUME NEW a \in Nodes, NEW b \in Nodes, NEW d \in Cids,
                    Linked(a, b)', Wanted(a, d)'
             PROVE  Informed(a, b, d)'
  BY DEF PeersInformed
<1>1. TypeOK /\ t \in Task /\ t.pc = "provide"
  BY DEF IInv, TypeOK, ProvideThrows, At
<1>2. /\ BagToSet(tasks') \subseteq BagToSet(tasks)
      /\ BagToSet(tasks) \ {t} \subseteq BagToSet(tasks')
  BY <1>1, EndEffect DEF ProvideThrows
<1>3. t.pc \notin Listed
  BY <1>1 DEF Listed
<1>4. ListedAt(a, d)' = ListedAt(a, d)
  BY <1>2, <1>3 DEF ListedAt
<1>5. Informed(a, b, d)
  BY <1>1, <1>4, WantedForm DEF IInv, PeersInformed, Linked, ProvideThrows
<1>6. ASSUME NEW pc \in Serving
      PROVE  t # TaskOf(b, a, d, pc)
  <2>1. pc # "provide" /\ TaskOf(b, a, d, pc).pc = pc
    BY SamePc, ServingPcs DEF Serving, Listed
  <2> QED
    BY <1>1, <2>1
<1>7. ASSUME NEW pc \in {"store", "provide", "found"}, t = TaskOf(a, b, d, pc)
      PROVE  Informed(a, b, d)'
  <2>1. t.node = a /\ t.peer = b /\ t.cid = d
    BY <1>7, SamePc, ServingPcs
  <2>2. <<a, b, d>> \in lost'
    BY <2>1 DEF ProvideThrows
  <2> QED
    BY <2>2 DEF Informed
<1>8. met' = met /\ greet' = greet /\ net' = net /\ gaveUp' = gaveUp /\ lost \subseteq lost'
  BY DEF ProvideThrows
<1>9. AboutToTell(a, d) => Informed(a, b, d)'
  BY <1>4, AboutStays DEF Informed
<1> QED
  BY <1>2, <1>5, <1>6, <1>7, <1>8, <1>9, StillInformed

LEMMA FoundStep ==
  ASSUME IInv, TypeOK', NEW t \in BagToSet(tasks), Found(t)
  PROVE  PeersInformed'
<1> SUFFICES ASSUME NEW a \in Nodes, NEW b \in Nodes, NEW d \in Cids,
                    Linked(a, b)', Wanted(a, d)'
             PROVE  Informed(a, b, d)'
  BY DEF PeersInformed
<1> DEFINE n == t.node
           c == t.cid
           tell == Telling(n, c, "announceFound")
           new == tell \cup Going(n, c)
<1>1. TypeOK /\ t \in Task /\ t.pc \in {"provide", "found"}
  BY DEF IInv, TypeOK, Found, At
<1>2. /\ BagToSet(tasks') \subseteq (BagToSet(tasks) \ ListedAt(n, c)) \cup new
      /\ BagToSet(tasks) \ ({t} \cup ListedAt(n, c)) \subseteq BagToSet(tasks')
      /\ new \subseteq BagToSet(tasks')
  BY <1>1, FoundEffect
<1>3. \A u \in new : u.pc \notin Listed
  <2>1. /\ "announceFound" \in Pcs /\ "announceFound" \notin Listed
        /\ "send" \notin Listed /\ "stop" \notin Listed
    BY DEF Pcs, Announcing, Listed
  <2>2. /\ \A u \in tell : u.pc = "announceFound"
        /\ \A u \in Going(n, c) : u.pc \in {"send", "stop"}
    BY <1>1, <2>1, NewPcs
  <2> HIDE DEF n, c, tell
  <2> QED
    BY <2>1, <2>2
<1> HIDE DEF n, c, new, tell
<1>4. ~(a = n /\ d = c)
  <2>1. ListedAt(a, d)' # {}
    BY WantedForm
  <2>2. ListedAt(n, c)' = {}
    BY <1>2, <1>3 DEF ListedAt
  <2> QED
    BY <2>1, <2>2
<1>5. t.pc \notin Listed
  BY <1>1 DEF Listed
<1>6. ListedAt(a, d)' = ListedAt(a, d)
  BY <1>2, <1>3, <1>4, <1>5 DEF ListedAt
<1>7. Informed(a, b, d) /\ a # b
  BY <1>1, <1>6, WantedForm, NoLoops DEF IInv, PeersInformed, Linked, Found
<1>8. ASSUME NEW v \in BagToSet(tasks) \ BagToSet(tasks'), NEW pc \in Serving, v = TaskOf(b, a, d, pc)
      PROVE  Informed(a, b, d)'
  <2>1. v.node = b /\ v.peer = a /\ v.cid = d /\ v.pc = pc
    BY <1>8, SamePc, ServingPcs
  <2>2. pc \notin {"provide", "found"}
    BY <1>8 DEF Serving, Listed
  <2>3. v \in ListedAt(n, c)
    BY <1>1, <1>2, <1>8, <2>1, <2>2
  <2>4. v \in Task /\ v.pc \in Listed
    BY <1>1, <2>3 DEF TypeOK, ListedAt
  <2>5. CASE v \in Creators(n, c)
    <3>1. [v EXCEPT !.pc = "announceFound"] \in tell
      BY <2>5 DEF tell, Telling
    <3>2. [v EXCEPT !.pc = "announceFound"] = TaskOf(b, a, d, "announceFound")
      BY <2>1, <2>4 DEF Task, TaskOf
    <3>3. TaskOf(b, a, d, "announceFound") \in BagToSet(tasks')
      BY <1>2, <3>1, <3>2 DEF new
    <3> QED
      BY <3>3 DEF Informed, Serving, BagIn
  <2>6. CASE v \notin Creators(n, c)
    <3>1. v.pc \in {"count", "waiting"}
      BY <2>3, <2>4, <2>6, CreatorForm DEF Listed
    <3>2. Continued(v) = "send"
      BY <1>7, <2>1 DEF Continued, Remote
    <3>3. [v EXCEPT !.pc = "send"] \in Going(n, c)
      BY <2>3, <2>6, <3>1, <3>2 DEF Going
    <3>4. [v EXCEPT !.pc = "send"] = TaskOf(b, a, d, "send")
      BY <2>1, <2>4 DEF Task, TaskOf
    <3>5. TaskOf(b, a, d, "send") \in BagToSet(tasks')
      BY <1>2, <3>3, <3>4 DEF new
    <3> QED
      BY <3>5 DEF Informed, Serving, BagIn
  <2> QED
    BY <2>5, <2>6
<1>9. ASSUME NEW v \in BagToSet(tasks) \ BagToSet(tasks'), NEW pc \in {"store", "provide", "found"}
      PROVE  v # TaskOf(a, b, d, pc)
  <2>1. v = t \/ v.pc \in Listed
    BY <1>2, <1>9 DEF ListedAt
  <2>2. TaskOf(a, b, d, pc).node = a /\ TaskOf(a, b, d, pc).cid = d /\ TaskOf(a, b, d, pc).pc = pc
    BY <1>9, SamePc, ServingPcs
  <2>3. pc \notin Listed
    BY <1>9 DEF Listed
  <2> QED
    BY <1>4, <2>1, <2>2, <2>3 DEF n, c
<1>10. met' = met /\ greet' = greet /\ net' = net
  BY DEF Found
<1>11. <<b, a, d>> \in gaveUp => <<b, a, d>> \in gaveUp'
  BY <1>4 DEF Found, n, c
<1>12. <<a, b, d>> \in lost => <<a, b, d>> \in lost'
  BY <1>4 DEF Found, n, c
<1>13. AboutToTell(a, d) => Informed(a, b, d)'
  BY <1>6, AboutStays DEF Informed
<1> QED
  BY <1>7, <1>8, <1>9, <1>10, <1>11, <1>12, <1>13, StillInformed

(* A message becomes the task that handles it.                             *)
LEMMA ReceiveStep ==
  ASSUME IInv, TypeOK', NEW m \in BagToSet(net), ReceiveWant(m) \/ ReceiveBlock(m)
  PROVE  PeersInformed'
<1> SUFFICES ASSUME NEW a \in Nodes, NEW b \in Nodes, NEW d \in Cids,
                    Linked(a, b)', Wanted(a, d)'
             PROVE  Informed(a, b, d)'
  BY DEF PeersInformed
<1> DEFINE pc == IF ReceiveWant(m) THEN "lookup" ELSE "store"
           t == TaskOf(m.to, m.from, m.cid, pc)
<1>1. TypeOK /\ m \in Message /\ m.to \in Nodes /\ m.from \in Nodes /\ m.cid \in Cids
  BY DEF IInv, TypeOK, Message
<1>2. pc \in Pcs /\ pc \notin Listed
  BY DEF Pcs, Listed
<1>3. Begin(t) /\ Take(m)
  BY DEF ReceiveWant, ReceiveBlock
<1> HIDE DEF pc
<1>4. t \in Task /\ t.pc \notin Listed
  BY <1>1, <1>2, Tasks
<1> HIDE DEF t
<1>5. BagToSet(tasks') = BagToSet(tasks) \cup {t}
  BY <1>1, <1>3, <1>4, BeginEffect
<1>6. BagToSet(net) \ {m} \subseteq BagToSet(net')
  BY <1>1, <1>3, TakeEffect
<1>7. ListedAt(a, d)' = ListedAt(a, d)
  BY <1>4, <1>5 DEF ListedAt
<1>8. links' = links /\ met' = met /\ greet' = greet /\ lost' = lost
  BY DEF ReceiveWant, ReceiveBlock
<1>9. Informed(a, b, d)
  BY <1>1, <1>7, <1>8, WantedForm DEF IInv, PeersInformed, Linked
<1>10. ASSUME <<b, a, d>> \in gaveUp \ gaveUp'
       PROVE  Informed(a, b, d)'
  <2>1. ReceiveWant(m) /\ m.to = b /\ m.from = a /\ m.cid = d
    BY <1>10 DEF ReceiveWant, ReceiveBlock
  <2>2. TaskOf(b, a, d, "lookup") \in BagToSet(tasks')
    BY <1>5, <2>1 DEF t, pc
  <2> QED
    BY <2>2 DEF Informed, Serving, BagIn
<1>11. ASSUME m = WantMessage(a, b, d)
       PROVE  Informed(a, b, d)'
  <2>1. m.kind = "want" /\ m.to = b /\ m.from = a /\ m.cid = d
    BY <1>11, Messages
  <2>2. ReceiveWant(m)
    BY <2>1 DEF ReceiveBlock
  <2>3. TaskOf(b, a, d, "lookup") \in BagToSet(tasks')
    BY <1>5, <2>1, <2>2 DEF t, pc
  <2> QED
    BY <2>3 DEF Informed, Serving, BagIn
<1>12. ASSUME m = BlockMessage(b, a, d)
       PROVE  Informed(a, b, d)'
  <2>1. m.kind = "block" /\ m.to = a /\ m.from = b /\ m.cid = d
    BY <1>12, Messages
  <2>2. ~ReceiveWant(m)
    BY <2>1 DEF ReceiveWant
  <2>3. TaskOf(a, b, d, "store") \in BagToSet(tasks')
    BY <1>5, <2>1, <2>2 DEF t, pc
  <2> QED
    BY <2>3 DEF Informed, BagIn
<1>13. AboutToTell(a, d) => Informed(a, b, d)'
  BY <1>7, AboutStays DEF Informed
<1>14. \A k \in BagToSet(net) \ BagToSet(net') :
         k \in {WantMessage(a, b, d), BlockMessage(b, a, d)} => Informed(a, b, d)'
  BY <1>6, <1>11, <1>12
<1> QED
  BY <1>5, <1>8, <1>9, <1>10, <1>13, <1>14, StillInformed

LEMMA SendFailsStep ==
  ASSUME IInv, NEW m \in BagToSet(net), SendFails(m)
  PROVE  PeersInformed'
<1> SUFFICES ASSUME NEW a \in Nodes, NEW b \in Nodes, NEW d \in Cids,
                    Linked(a, b)', Wanted(a, d)'
             PROVE  Informed(a, b, d)'
  BY DEF PeersInformed
<1>1. Linked(a, b) /\ Wanted(a, d)
  BY DEF Linked, Wanted, Waiters, SendFails
<1>2. Informed(a, b, d)
  BY <1>1 DEF IInv, PeersInformed
<1>3. BagToSet(net) \ {m} \subseteq BagToSet(net')
  BY TakeEffect DEF IInv, SendFails
<1>4. ASSUME m = WantMessage(a, b, d) \/ m = BlockMessage(b, a, d)
      PROVE  Informed(a, b, d)'
  <2>1. <<a, b, d>> = IF m.kind = "want" THEN <<m.from, m.to, m.cid>>
                                         ELSE <<m.to, m.from, m.cid>>
    BY <1>4, Messages
  <2>2. <<a, b, d>> \in lost'
    BY <2>1 DEF SendFails
  <2> QED
    BY <2>2 DEF Informed
<1>5. AboutToTell(a, d) => Informed(a, b, d)'
  <2>1. ListedAt(a, d)' = ListedAt(a, d)
    BY DEF ListedAt, SendFails
  <2> QED
    BY <2>1, AboutStays DEF Informed
<1>6. /\ met' = met /\ greet' = greet /\ tasks' = tasks /\ gaveUp' = gaveUp
      /\ lost \subseteq lost'
  BY DEF SendFails
<1> QED
  BY <1>2, <1>3, <1>4, <1>5, <1>6, StillInformed

(* Two peers connect: both are about to hear of it.                        *)
LEMMA ConnectStep ==
  ASSUME IInv, NEW n \in Nodes, NEW p \in Nodes, Connect(n, p)
  PROVE  PeersInformed'
<1> SUFFICES ASSUME NEW a \in Nodes, NEW b \in Nodes, NEW d \in Cids,
                    Linked(a, b)', Wanted(a, d)'
             PROVE  Informed(a, b, d)'
  BY DEF PeersInformed
<1>1. Wanted(a, d)
  BY DEF Wanted, Waiters, Connect
<1>2. CASE Linked(a, b)
  <2>1. Informed(a, b, d)
    BY <1>1, <1>2 DEF IInv, PeersInformed
  <2>2. ListedAt(a, d)' = ListedAt(a, d)
    BY DEF ListedAt, Connect
  <2>3. AboutToTell(a, d) => Informed(a, b, d)'
    BY <2>2, AboutStays DEF Informed
  <2>4. /\ met \subseteq met' /\ greet' = greet /\ net' = net /\ tasks' = tasks
        /\ gaveUp' = gaveUp /\ lost' = lost
    BY DEF Connect
  <2> QED
    BY <2>1, <2>3, <2>4, StillInformed
<1>3. CASE ~Linked(a, b)
  <2>1. {a, b} = {n, p}
    BY <1>3 DEF Linked, Connect
  <2>2. <<a, b>> \in {<<n, p>>, <<p, n>>}
    BY <2>1
  <2>3. <<a, b>> \in met'
    BY <2>2 DEF Connect
  <2> QED
    BY <2>3 DEF Informed
<1> QED
  BY <1>2, <1>3

(* A node that hears of a connection while it wants something will greet.  *)
LEMMA ConnectionEstablishedStep ==
  ASSUME IInv, NEW n \in Nodes, NEW p \in Nodes, ConnectionEstablished(n, p)
  PROVE  PeersInformed'
<1> SUFFICES ASSUME NEW a \in Nodes, NEW b \in Nodes, NEW d \in Cids,
                    Linked(a, b)', Wanted(a, d)'
             PROVE  Informed(a, b, d)'
  BY DEF PeersInformed
<1>1. Linked(a, b) /\ Wanted(a, d)
  BY DEF Linked, Wanted, Waiters, ConnectionEstablished
<1>2. Informed(a, b, d)
  BY <1>1 DEF IInv, PeersInformed
<1>3. ListedAt(a, d)' = ListedAt(a, d)
  BY DEF ListedAt, ConnectionEstablished
<1>4. AboutToTell(a, d) => Informed(a, b, d)'
  BY <1>3, AboutStays DEF Informed
<1>5. ASSUME <<a, b>> \in (met \cup greet) \ (met' \cup greet')
      PROVE  FALSE
  <2>1. <<a, b>> = <<n, p>>
    BY <1>5 DEF ConnectionEstablished
  <2>2. SomethingWanted(n)
    BY <1>1, <2>1 DEF SomethingWanted
  <2> QED
    BY <1>5, <2>1, <2>2 DEF ConnectionEstablished
<1>6. net' = net /\ tasks' = tasks /\ gaveUp' = gaveUp /\ lost' = lost
  BY DEF ConnectionEstablished
<1> QED
  BY <1>2, <1>4, <1>5, <1>6, StillInformed

LEMMA GreetStep ==
  ASSUME IInv, NEW n \in Nodes, NEW p \in Nodes, Greet(n, p)
  PROVE  PeersInformed'
<1> SUFFICES ASSUME NEW a \in Nodes, NEW b \in Nodes, NEW d \in Cids,
                    Linked(a, b)', Wanted(a, d)'
             PROVE  Informed(a, b, d)'
  BY DEF PeersInformed
<1> DEFINE all == {c \in Cids : Wanted(n, c)}
           S == {WantMessage(n, p, c) : c \in all}
<1>1. S \subseteq Message
  BY Messages
<1>2. BagToSet(net') = BagToSet(net) \cup S
  BY <1>1, SendEffect DEF Greet, IInv
<1>3. Wanted(a, d) /\ Informed(a, b, d)
  BY DEF Wanted, Waiters, Greet, IInv, PeersInformed, Linked
<1>4. CASE a = n /\ b = p
  <2>1. WantMessage(a, b, d) \in S
    BY <1>3, <1>4
  <2> QED
    BY <1>2, <2>1 DEF Informed, BagIn
<1>5. CASE ~(a = n /\ b = p)
  <2>1. <<a, b>> \in met \cup greet => <<a, b>> \in met' \cup greet'
    BY <1>5 DEF Greet
  <2>2. tasks' = tasks /\ gaveUp' = gaveUp
    BY DEF Greet
  <2>3. <<a, b, d>> \in lost => <<a, b, d>> \in lost'
    BY <1>5 DEF Greet
  <2>4. ListedAt(a, d)' = ListedAt(a, d)
    BY <2>2 DEF ListedAt
  <2>5. AboutToTell(a, d) => Informed(a, b, d)'
    BY <2>4, AboutStays DEF Informed
  <2> HIDE DEF S, all
  <2> QED
    BY <1>2, <1>3, <2>1, <2>2, <2>3, <2>5, StillInformed
<1> QED
  BY <1>4, <1>5

(* Only the pair that disconnects loses messages.                          *)
LEMMA DisconnectStep ==
  ASSUME IInv, NEW n \in Nodes, NEW p \in Nodes, Disconnect(n, p)
  PROVE  PeersInformed'
<1> SUFFICES ASSUME NEW a \in Nodes, NEW b \in Nodes, NEW d \in Cids,
                    Linked(a, b)', Wanted(a, d)'
             PROVE  Informed(a, b, d)'
  BY DEF PeersInformed
<1>1. Linked(a, b) /\ {a, b} # {n, p}
  BY DEF Linked, Disconnect
<1>2. Wanted(a, d) /\ Informed(a, b, d)
  BY <1>1 DEF Wanted, Waiters, Disconnect, IInv, PeersInformed
<1>3. BagToSet(net') = {k \in BagToSet(net) : {k.from, k.to} # {n, p}}
  BY DEF Disconnect, BagToSet
<1>4. \A k \in BagToSet(net) : {k.from, k.to} = {a, b} => k \in BagToSet(net')
  BY <1>1, <1>3
<1>5. \A k \in {WantMessage(a, b, d), BlockMessage(b, a, d)} : {k.from, k.to} = {a, b}
  BY Messages
<1>6. <<a, b>> \in met \cup greet => <<a, b>> \in met' \cup greet'
  BY <1>1 DEF Disconnect
<1>7. tasks' = tasks /\ gaveUp' = gaveUp /\ lost' = lost
  BY DEF Disconnect
<1>8. ListedAt(a, d)' = ListedAt(a, d)
  BY <1>7 DEF ListedAt
<1>9. AboutToTell(a, d) => Informed(a, b, d)'
  BY <1>8, AboutStays DEF Informed
<1> QED
  BY <1>2, <1>4, <1>5, <1>6, <1>7, <1>9, StillInformed

-----------------------------------------------------------------------------
LEMMA InitIInv == Init => IInv
<1> SUFFICES ASSUME Init
             PROVE  IInv
  OBVIOUS
<1>1. IsABag(EmptyBag) /\ BagToSet(EmptyBag) = {}
  BY DEF IsABag, BagToSet, EmptyBag, SetToBag
<1>2. TypeOK
  BY <1>1, ConstantsAssumption DEF Init, TypeOK
<1>3. ASSUME NEW n \in Nodes, NEW c \in Cids
      PROVE  ~Wanted(n, c)
  BY <1>1 DEF Init, Wanted, Waiters, BagIn
<1> QED
  BY <1>2, <1>3 DEF IInv, PeersInformed

LEMMA StepIInv == IInv /\ [Next]_vars => IInv'
<1> SUFFICES ASSUME IInv, [Next]_vars
             PROVE  IInv'
  OBVIOUS
<1>1. CASE UNCHANGED vars
  <2>1. TypeOK'
    BY <1>1 DEF IInv, TypeOK, vars
  <2>2. \A n \in Nodes, c \in Cids :
          (Wanted(n, c)' <=> Wanted(n, c)) /\ (AboutToTell(n, c)' <=> AboutToTell(n, c))
    BY <1>1 DEF Wanted, Waiters, AboutToTell, Creators, Alone, TasksAt, vars
  <2>3. \A n, p \in Nodes, c \in Cids : Informed(n, p, c) => Informed(n, p, c)'
    BY <1>1, <2>2 DEF Informed, vars
  <2>4. PeersInformed'
    BY <1>1, <2>2, <2>3 DEF IInv, PeersInformed, Linked, vars
  <2> QED
    BY <2>1, <2>4 DEF IInv
<1>2. CASE Next
  <2>1. TypeOK'
    BY <1>2, StepTypes DEF IInv
  <2>2. ASSUME NEW t \in BagToSet(tasks), TaskStep(t) \/ ProvideThrows(t)
        PROVE  PeersInformed'
    <3>1. CASE StopQuery(t)
      <4>1. t.node \in Nodes /\ t.cid \in Cids
        BY Tasks DEF IInv, TypeOK
      <4> QED
        BY <2>1, <3>1, <4>1, UnwantStep DEF StopQuery, At
    <3> QED
      BY <2>1, <2>2, <3>1, LookupStep, WantStep, CountStep, AnnounceStep, SendBlockStep,
         StoreStep, ProvideThrowsStep, FoundStep DEF TaskStep
  <2>3. ASSUME NEW m \in BagToSet(net), ReceiveWant(m) \/ ReceiveBlock(m) \/ SendFails(m)
        PROVE  PeersInformed'
    BY <2>1, <2>3, ReceiveStep, SendFailsStep
  <2>4. ASSUME NEW n \in Nodes, NEW p \in Nodes,
               Connect(n, p) \/ ConnectionEstablished(n, p) \/ Greet(n, p) \/ Disconnect(n, p)
        PROVE  PeersInformed'
    BY <2>4, ConnectStep, ConnectionEstablishedStep, GreetStep, DisconnectStep
  <2>5. ASSUME NEW n \in Nodes, NEW c \in Cids, TimeOut(n, c) \/ Cancel(n, c)
        PROVE  PeersInformed'
    BY <2>1, <2>5, UnwantStep DEF TimeOut, Cancel
  <2>6. ASSUME NEW n \in Nodes, NEW c \in Cids, Get(n, c) \/ Put(n, c)
        PROVE  PeersInformed'
    BY <2>1, <2>6, UserStep
  <2> QED
    BY <1>2, <2>1, <2>2, <2>3, <2>4, <2>5, <2>6 DEF Next, Progress, IInv
<1> QED
  BY <1>1, <1>2

(* The state of every network stays well formed: bags of messages and of   *)
(* tasks of the nodes' handlers.                                           *)
THEOREM TypeCorrect == Spec => []TypeOK
<1>1. IInv => TypeOK
  BY DEF IInv
<1> QED
  BY InitIInv, StepIInv, <1>1, PTL DEF Spec

(* Whatever connects, breaks, is cancelled or expires, a node that wants a *)
(* block has told each connected peer so, or is about to, or the peer has  *)
(* answered: WantAsync and Swarm_ConnectionEstablished leave no gap        *)
(* between them.  What the peer dropped is excepted, and so is what was    *)
(* lost: told to nobody by two first wants that overlapped, sent in vain   *)
(* on a live connection, or stored without Found (see PeersInformed).      *)
THEOREM PeersStayInformed == Spec => []PeersInformed
<1>1. IInv => PeersInformed
  BY DEF IInv
<1> QED
  BY InitIInv, StepIInv, <1>1, PTL DEF Spec
=============================================================================
