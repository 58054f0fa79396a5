--------------------------- MODULE KeyChainProofs ---------------------------
(***************************************************************************)
(* The key chain for any names, key pairs, pass phrases and callers: its   *)
(* state keeps its type, every key is stored under the name it has inside, *)
(* every key made once the key chain was set up stays readable, no key     *)
(* that was given out is lost, and the node has one identity, at every     *)
(* point of every call and after every crash, with the exceptions that     *)
(* each theorem names.                                                     *)
(***************************************************************************)
EXTENDS KeyChain, TLAPS

Named == {"generate", "remove", "rename"}

(* What a call has in hand at each point of its control: the key it is     *)
(* about to store has the name of the file it will be stored in.           *)
OpOK(r) ==
  /\ r.pc # "idle" => r.kind # "none"
  /\ r.kind \in Named => r.name \in Names
  /\ r.kind = "rename" => r.new \in Names
  /\ r.pc \in {"make", "put"} => r.kind = "generate"
  /\ r.pc \in {"find", "drop"} => r.kind \in {"remove", "rename"}
  /\ r.pc = "putNew" => r.kind = "rename"
  /\ r.pc = "putSelf" => r.item.name = Self
  /\ r.pc = "put" => r.item.name = r.name
  /\ r.pc = "putNew" => r.item.name = r.new
  /\ r.pc \in {"putSelf", "put", "putNew"} => r.item # None
  /\ r.pc = "idle" => r.kind = "none" /\ r.item = None

OpsOK == \A p \in Procs : OpOK(op[p])

IInv == TypeOK /\ OpsOK /\ ListedUnderItsName

-----------------------------------------------------------------------------
(* The records                                                             *)

LEMMA NoneFacts == None \notin Ids /\ None \notin Phrases /\ None \notin Names /\ None \notin Entries
BY ConstantsAssumption

LEMMA IdleFacts == Idle \in OpRecord /\ OpOK(Idle) /\ Idle.item = None /\ Idle.id = None
BY NoneFacts DEF Idle, Op, OpRecord, OpOK, Pcs, Named

LEMMA SetPc ==
  ASSUME NEW r \in OpRecord, NEW pc \in Pcs
  PROVE  LET e == [r EXCEPT !.pc = pc] IN
         /\ e \in OpRecord
         /\ e.pc = pc
         /\ e.kind = r.kind /\ e.sure = r.sure /\ e.name = r.name /\ e.new = r.new
         /\ e.item = r.item /\ e.id = r.id
BY DEF OpRecord

LEMMA SetSure ==
  ASSUME NEW r \in OpRecord, NEW s \in BOOLEAN
  PROVE  LET e == [r EXCEPT !.sure = s] IN
         /\ e \in OpRecord
         /\ e.sure = s
         /\ e.kind = r.kind /\ e.pc = r.pc /\ e.name = r.name
         /\ e.new = r.new /\ e.item = r.item /\ e.id = r.id
BY DEF OpRecord

LEMMA SetItem ==
  ASSUME NEW r \in OpRecord, NEW item \in Entries \cup {None}
  PROVE  LET e == [r EXCEPT !.item = item] IN
         /\ e \in OpRecord
         /\ e.item = item
         /\ e.kind = r.kind /\ e.sure = r.sure /\ e.pc = r.pc /\ e.name = r.name
         /\ e.new = r.new /\ e.id = r.id
BY DEF OpRecord

LEMMA SetId ==
  ASSUME NEW r \in OpRecord, NEW id \in Ids \cup {None}
  PROVE  LET e == [r EXCEPT !.id = id] IN
         /\ e \in OpRecord
         /\ e.id = id
         /\ e.kind = r.kind /\ e.sure = r.sure /\ e.pc = r.pc /\ e.name = r.name
         /\ e.new = r.new /\ e.item = r.item
BY DEF OpRecord

LEMMA SetMixed ==
  ASSUME NEW r \in OpRecord, NEW m \in BOOLEAN
  PROVE  LET e == [r EXCEPT !.mixed = m] IN
         /\ e \in OpRecord
         /\ e.mixed = m
         /\ e.kind = r.kind /\ e.sure = r.sure /\ e.pc = r.pc /\ e.name = r.name
         /\ e.new = r.new /\ e.item = r.item /\ e.id = r.id
BY DEF OpRecord

LEMMA OpTypes ==
  ASSUME NEW r \in OpRecord
  PROVE  /\ r.kind \in {"none", "generate", "remove", "rename", "swarm"}
         /\ r.pc \in Pcs
         /\ r.name \in Names \cup {None} /\ r.new \in Names \cup {None}
         /\ r.item \in Entries \cup {None} /\ r.id \in Ids \cup {None}
         /\ r.sure \in BOOLEAN /\ r.mixed \in BOOLEAN
BY DEF OpRecord

(* One caller moves, and what it now has in hand is right.                 *)
LEMMA OneMoves ==
  ASSUME IInv, NEW p \in Procs, NEW r \in OpRecord, OpOK(r), op' = [op EXCEPT ![p] = r]
  PROVE  op' \in [Procs -> OpRecord] /\ OpsOK'
<1>1. op \in [Procs -> OpRecord] /\ OpsOK
  BY DEF IInv, TypeOK
<1>2. ASSUME NEW q \in Procs PROVE OpOK(op'[q])
  <2>1. op'[q] = IF q = p THEN r ELSE op[q]
    BY <1>1
  <2> QED
    BY <1>1, <2>1 DEF OpsOK
<1> QED
  BY <1>1, <1>2 DEF OpsOK

(* The store is as it was, and the rest keeps its type.                    *)
LEMMA SameStore ==
  ASSUME IInv, store' = store, op' \in [Procs -> OpRecord], OpsOK',
         chain' \in BOOLEAN, init' \in Phrases \cup {None}, dek' \in Phrases \cup {None},
         lazy' \in {"none", "running", "built", "failed"}, peer' \in Ids \cup {None},
         swarm' \in Ids \cup {None}, calls' \in 0..MaxCalls, ready' \in BOOLEAN,
         twin' \in BOOLEAN, spoiled' \in BOOLEAN, meddled' \in BOOLEAN, owned' \subseteq Ids
  PROVE  IInv'
<1>1. \A p \in Procs : /\ op'[p].pc \in {"putSelf", "put", "putNew"} => op'[p].item # None
                       /\ op'[p].pc = "idle" => op'[p].kind = "none" /\ op'[p].item = None
  BY DEF OpsOK, OpOK
<1>2. TypeOK'
  BY <1>1 DEF IInv, TypeOK
<1>3. ListedUnderItsName'
  BY DEF IInv, ListedUnderItsName
<1> QED
  BY <1>2, <1>3 DEF IInv

(* One file is written or removed.                                         *)
LEMMA OneFile ==
  ASSUME IInv, NEW p \in Procs, NEW r \in OpRecord, OpOK(r), op' = [op EXCEPT ![p] = r],
         NEW n \in Names, NEW key \in Entries \cup {None},
         key # None => key.name = n,
         store' = [store EXCEPT ![n] = key],
         ready' \in BOOLEAN, spoiled' \in BOOLEAN, owned' \subseteq Ids,
         UNCHANGED <<chain, init, dek, twin, lazy, peer, swarm, calls, meddled>>
  PROVE  IInv'
<1>1. op' \in [Procs -> OpRecord] /\ OpsOK'
  BY OneMoves
<1>2. \A q \in Procs : /\ op'[q].pc \in {"putSelf", "put", "putNew"} => op'[q].item # None
                       /\ op'[q].pc = "idle" => op'[q].kind = "none" /\ op'[q].item = None
  BY <1>1 DEF OpsOK, OpOK
<1>3. store' \in Stores /\ store \in [Names -> Entries \cup {None}]
  BY DEF IInv, TypeOK, Stores
<1>4. TypeOK'
  BY <1>1, <1>2, <1>3 DEF IInv, TypeOK
<1>5. ListedUnderItsName'
  <2> SUFFICES ASSUME NEW m \in Names, store'[m] # None PROVE store'[m].name = m
    BY DEF ListedUnderItsName
  <2>1. store'[m] = IF m = n THEN key ELSE store[m]
    BY <1>3
  <2> QED
    BY <2>1 DEF IInv, ListedUnderItsName
<1> QED
  BY <1>1, <1>4, <1>5 DEF IInv

LEMMA StoreFacts ==
  ASSUME IInv
  PROVE  /\ store \in [Names -> Entries \cup {None}]
         /\ \A n \in Names : store[n] # None =>
              store[n] \in Entries /\ store[n].id \in Ids /\ store[n].name = n
         /\ Self \in Names
         /\ \A N \in SUBSET Names : IdsAt(N) \subseteq Ids
<1>1. store \in [Names -> Entries \cup {None}] /\ ListedUnderItsName
  BY DEF IInv, TypeOK, Stores
<1>2. \A e \in Entries : e.id \in Ids
  BY DEF Entries
<1> QED
  BY <1>1, <1>2, ConstantsAssumption DEF ListedUnderItsName, IdsAt

LEMMA ProcFacts ==
  ASSUME IInv, NEW p \in Procs
  PROVE  op[p] \in OpRecord /\ OpOK(op[p]) /\ op \in [Procs -> OpRecord]
BY DEF IInv, TypeOK, OpsOK

-----------------------------------------------------------------------------
(* The steps                                                               *)

(* The parts of the state that the steps of a call leave alone.            *)
LEMMA Types ==
  ASSUME IInv
  PROVE  /\ chain \in BOOLEAN /\ init \in Phrases \cup {None} /\ dek \in Phrases \cup {None}
         /\ lazy \in {"none", "running", "built", "failed"}
         /\ peer \in Ids \cup {None} /\ swarm \in Ids \cup {None}
         /\ calls \in 0..MaxCalls /\ ready \in BOOLEAN /\ twin \in BOOLEAN
         /\ spoiled \in BOOLEAN /\ meddled \in BOOLEAN /\ owned \subseteq Ids
BY DEF IInv, TypeOK

LEMMA NewIdFacts ==
  ASSUME ~(Ids \subseteq Seen)
  PROVE  NewId \in Ids
BY DEF NewId

LEMMA NewEntryFacts ==
  ASSUME IInv, ~(Ids \subseteq Seen), NEW n \in Names, NEW s \in BOOLEAN
  PROVE  NewEntry(n, s) \in Entries /\ NewEntry(n, s).name = n
BY NewIdFacts, Types DEF NewEntry, Entries

(* The caller gets the key chain.                                          *)
LEMMA EnterFacts ==
  ASSUME IInv, NEW p \in Procs, op[p].pc \notin {"idle", "put", "putNew"}, NEW s \in BOOLEAN
  PROVE  LET e == [op[p] EXCEPT !.pc = Start(p), !.sure = s] IN
         /\ e \in OpRecord /\ OpOK(e)
         /\ [e EXCEPT !.item = None] \in OpRecord /\ OpOK([e EXCEPT !.item = None])
<1> DEFINE r == op[p]
           e1 == [r EXCEPT !.pc = Start(p)]
           e2 == [e1 EXCEPT !.sure = s]
           e3 == [e2 EXCEPT !.item = None]
<1>1. /\ r \in OpRecord /\ OpOK(r) /\ r.pc \notin {"idle", "put", "putNew"}
      /\ r.kind \in {"generate", "remove", "rename", "swarm"}
  BY ProcFacts, OpTypes DEF OpOK
<1>2. /\ Start(p) \in {"make", "find", "peer", "private"} /\ Start(p) \in Pcs
      /\ Start(p) = "make" => r.kind = "generate"
      /\ Start(p) = "find" => r.kind \in {"remove", "rename"}
  BY <1>1 DEF Start, Pcs
<1> HIDE DEF r
<1>3. /\ e1 \in OpRecord /\ e1.pc = Start(p)
      /\ e1.kind = r.kind /\ e1.name = r.name /\ e1.new = r.new
  BY <1>1, <1>2, SetPc
<1> HIDE DEF e1
<1>4. /\ e2 \in OpRecord /\ e2.pc = Start(p)
      /\ e2.kind = r.kind /\ e2.name = r.name /\ e2.new = r.new
  BY <1>3, SetSure
<1> HIDE DEF e2
<1>5. /\ e3 \in OpRecord /\ e3.pc = Start(p)
      /\ e3.kind = r.kind /\ e3.name = r.name /\ e3.new = r.new
  BY <1>4, SetItem
<1> HIDE DEF e3
<1>6. OpOK(e2) /\ OpOK(e3)
  BY <1>1, <1>2, <1>4, <1>5 DEF OpOK, Named
<1> QED
  BY <1>4, <1>5, <1>6 DEF e1, e2, e3, r

(* The call goes on to a point where it has no key in hand to store.       *)
LEMMA GotoFacts ==
  ASSUME IInv, NEW p \in Procs, op[p].pc # "idle",
         NEW pc \in {"test", "create", "phrase", "derive", "verify", "findSelf", "makeSelf",
                     "public", "drop"},
         pc = "drop" => op[p].kind \in {"remove", "rename"}
  PROVE  [op[p] EXCEPT !.pc = pc] \in OpRecord /\ OpOK([op[p] EXCEPT !.pc = pc])
<1> DEFINE r == op[p]
           e == [r EXCEPT !.pc = pc]
<1>1. r \in OpRecord /\ OpOK(r) /\ pc \in Pcs /\ r.pc # "idle"
  BY ProcFacts DEF Pcs
<1> HIDE DEF r
<1>2. /\ e \in OpRecord /\ e.pc = pc
      /\ e.kind = r.kind /\ e.name = r.name /\ e.new = r.new
  BY <1>1, SetPc
<1> HIDE DEF e
<1>3. OpOK(e)
  BY <1>1, <1>2 DEF OpOK, Named, r
<1> QED
  BY <1>2, <1>3 DEF e, r

(* A key is taken in hand, to be stored under its name.                    *)
LEMMA HandFacts ==
  ASSUME IInv, NEW p \in Procs, NEW item \in Entries, NEW pc \in {"putSelf", "put", "putNew"},
         pc = "putSelf" => op[p].pc # "idle" /\ item.name = Self,
         pc = "put" => op[p].kind = "generate" /\ item.name = op[p].name,
         pc = "putNew" => op[p].kind = "rename" /\ item.name = op[p].new
  PROVE  LET e == [op[p] EXCEPT !.pc = pc, !.item = item] IN e \in OpRecord /\ OpOK(e)
<1> DEFINE r == op[p]
           e1 == [r EXCEPT !.pc = pc]
           e2 == [e1 EXCEPT !.item = item]
<1>1. r \in OpRecord /\ OpOK(r) /\ pc \in Pcs /\ item # None
  BY ProcFacts, NoneFacts DEF Pcs
<1>0. /\ pc = "putSelf" => r.kind # "none" /\ item.name = Self
      /\ pc = "put" => r.kind = "generate" /\ item.name = r.name
      /\ pc = "putNew" => r.kind = "rename" /\ item.name = r.new
  BY <1>1 DEF OpOK
<1> HIDE DEF r
<1>2. /\ e1 \in OpRecord /\ e1.pc = pc
      /\ e1.kind = r.kind /\ e1.name = r.name /\ e1.new = r.new
  BY <1>1, SetPc
<1> HIDE DEF e1
<1>3. /\ e2 \in OpRecord /\ e2.pc = pc /\ e2.item = item
      /\ e2.kind = r.kind /\ e2.name = r.name /\ e2.new = r.new
  BY <1>2, SetItem
<1> HIDE DEF e2
<1>4. OpOK(e2)
  BY <1>0, <1>1, <1>3 DEF OpOK, Named
<1> QED
  BY <1>3, <1>4 DEF e1, e2, r

(* The calls of a user are well formed.                                    *)
LEMMA CallsFacts ==
  ASSUME NEW n \in Names, NEW m \in Names, NEW r \in {Generate(n), Remove(n), Rename(n, m)}
  PROVE  r \in OpRecord /\ OpOK(r)
<1>1. ASSUME NEW kind \in Named, NEW new \in Names \cup {None}, kind = "rename" => new \in Names
      PROVE  Op(kind, "test", n, new) \in OpRecord /\ OpOK(Op(kind, "test", n, new))
  BY <1>1 DEF Op, OpRecord, OpOK, Pcs, Named
<1>2. CASE r = Generate(n)
  BY <1>1, <1>2 DEF Generate, Named
<1>3. CASE r = Remove(n)
  BY <1>1, <1>3 DEF Remove, Named
<1>4. CASE r = Rename(n, m)
  BY <1>1, <1>4 DEF Rename, Named
<1> QED
  BY <1>2, <1>3, <1>4

LEMMA MixedFacts ==
  ASSUME NEW r \in OpRecord, OpOK(r), NEW m \in BOOLEAN
  PROVE  LET e == [r EXCEPT !.mixed = @ \/ m] IN e \in OpRecord /\ OpOK(e)
<1> DEFINE x == r.mixed \/ m
           e == [r EXCEPT !.mixed = x]
<1>1. x \in BOOLEAN
  BY OpTypes
<1> HIDE DEF x
<1>2. /\ e \in OpRecord /\ e.pc = r.pc /\ e.item = r.item
      /\ e.kind = r.kind /\ e.name = r.name /\ e.new = r.new
  BY <1>1, SetMixed
<1> HIDE DEF e
<1>3. OpOK(e)
  BY <1>2 DEF OpOK, Named
<1> QED
  BY <1>2, <1>3 DEF e, x

LEMMA CallStep ==
  ASSUME IInv, NEW p \in Procs, Call(p)
  PROVE  IInv'
<1>1. PICK n \in Names, m \in Names :
        \E r \in {Generate(n), Remove(n), Rename(n, m)} :
         LET others == {q \in Procs \ {p} : Busy(q) /\ NamesOf(op[q]) \cap NamesOf(r) # {}}
             mixing == IF others = {} THEN {} ELSE others \cup {p}
             held == {op[q].item.id : q \in {o \in others : op[o].item # None}}
         IN /\ op' = [q \in Procs |-> [(IF q = p THEN r ELSE op[q])
                                          EXCEPT !.mixed = @ \/ q \in mixing]]
            /\ owned' = IF others = {} THEN owned ELSE (owned \ IdsAt(NamesOf(r))) \ held
            /\ meddled' = (meddled \/ (Self \in NamesOf(r) /\ (lazy # "none" \/ ~ready)))
  BY DEF Call
<1>2. PICK r \in {Generate(n), Remove(n), Rename(n, m)} :
         LET others == {q \in Procs \ {p} : Busy(q) /\ NamesOf(op[q]) \cap NamesOf(r) # {}}
             mixing == IF others = {} THEN {} ELSE others \cup {p}
             held == {op[q].item.id : q \in {o \in others : op[o].item # None}}
         IN /\ op' = [q \in Procs |-> [(IF q = p THEN r ELSE op[q])
                                          EXCEPT !.mixed = @ \/ q \in mixing]]
            /\ owned' = IF others = {} THEN owned ELSE (owned \ IdsAt(NamesOf(r))) \ held
            /\ meddled' = (meddled \/ (Self \in NamesOf(r) /\ (lazy # "none" \/ ~ready)))
  BY <1>1
<1> DEFINE others == {q \in Procs \ {p} : Busy(q) /\ NamesOf(op[q]) \cap NamesOf(r) # {}}
           mixing == IF others = {} THEN {} ELSE others \cup {p}
           old(q) == IF q = p THEN r ELSE op[q]
           e(q) == [old(q) EXCEPT !.mixed = @ \/ q \in mixing]
<1>3. /\ op' = [q \in Procs |-> e(q)]
      /\ owned' \subseteq owned
      /\ meddled' = (meddled \/ (Self \in NamesOf(r) /\ (lazy # "none" \/ ~ready)))
  BY <1>2
<1>4. ASSUME NEW q \in Procs PROVE e(q) \in OpRecord /\ OpOK(e(q))
  <2>1. old(q) \in OpRecord /\ OpOK(old(q))
    BY CallsFacts, ProcFacts
  <2>3. (q \in mixing) \in BOOLEAN
    OBVIOUS
  <2> QED
    BY <2>1, <2>3, MixedFacts
<1> HIDE DEF e
<1>5. op' \in [Procs -> OpRecord] /\ OpsOK'
  BY <1>3, <1>4 DEF OpsOK
<1>6. calls' \in 0..MaxCalls /\ meddled' \in BOOLEAN
  BY <1>3, Types, ConstantsAssumption DEF Call
<1>7. UNCHANGED <<store, chain, init, dek, ready, twin, spoiled, lazy, peer, swarm>>
  BY DEF Call, EngineUnchanged, LazyUnchanged
<1> QED
  BY <1>3, <1>5, <1>6, <1>7, Types, SameStore

LEMMA StartSwarmStep ==
  ASSUME IInv, NEW p \in Procs, StartSwarm(p)
  PROVE  IInv'
<1>1. BuildSwarm \in OpRecord /\ OpOK(BuildSwarm)
  BY NoneFacts DEF BuildSwarm, Op, OpRecord, OpOK, Pcs, Named
<1>2. /\ op' = [op EXCEPT ![p] = BuildSwarm] /\ lazy' = "running"
      /\ meddled' = (meddled \/ \E q \in Procs : Self \in NamesOf(op[q]))
      /\ UNCHANGED <<store, chain, init, dek, peer, swarm, calls, ready, twin, spoiled, owned>>
  BY DEF StartSwarm, EngineUnchanged, StoreUnchanged
<1>4. meddled' \in BOOLEAN
  BY <1>2, Types
<1>3. op' \in [Procs -> OpRecord] /\ OpsOK'
  BY <1>1, <1>2, OneMoves
<1> QED
  BY <1>2, <1>3, <1>4, Types, SameStore

(* A step of KeyChainAsync, LocalPeer or SwarmService after which the call *)
(* goes on, ends or throws.                                                *)
LEMMA EngineStep ==
  ASSUME IInv, NEW p \in Procs, NEW r \in OpRecord, OpOK(r), op' = [op EXCEPT ![p] = r],
         StoreUnchanged, UNCHANGED <<calls, meddled>>, spoiled' \in BOOLEAN,
         chain' \in BOOLEAN, init' \in {init, None}, dek' \in {dek, init},
         lazy' \in {lazy, "failed", "built"}, peer' \in Ids \cup {None},
         swarm' \in Ids \cup {None}, ready' \in BOOLEAN, twin' \in BOOLEAN
  PROVE  IInv'
<1>1. op' \in [Procs -> OpRecord] /\ OpsOK'
  BY OneMoves
<1>2. UNCHANGED <<store, owned, calls, meddled>>
  BY DEF StoreUnchanged
<1> QED
  BY <1>1, <1>2, Types, SameStore

LEMMA ThrowFacts ==
  ASSUME IInv, NEW p \in Procs, Throw(p)
  PROVE  /\ op' = [op EXCEPT ![p] = Idle]
         /\ lazy' \in {lazy, "failed"} /\ UNCHANGED <<peer, swarm>>
BY DEF Throw, Return

LEMMA KeyChainAsyncStep ==
  ASSUME IInv, NEW p \in Procs,
         Test(p) \/ Create(p) \/ Phrase(p) \/ Derive(p) \/ Verify(p) \/ FindSelf(p)
  PROVE  IInv'
<1> USE Types, IdleFacts, GotoFacts, EngineStep DEF CallsUnchanged
<1>1. CASE Test(p)
  <2>1. op[p].pc = "test" /\ ready \in BOOLEAN
    BY <1>1 DEF Test, At
  <2>2. CASE op' = [op EXCEPT ![p].pc = "create"]
    BY <1>1, <2>1, <2>2 DEF Test, EngineUnchanged, LazyUnchanged
  <2>3. CASE op' = [op EXCEPT ![p].pc = Start(p), ![p].sure = ready]
    <3> DEFINE e == [op[p] EXCEPT !.pc = Start(p), !.sure = ready]
    <3>1. e \in OpRecord /\ OpOK(e) /\ op' = [op EXCEPT ![p] = e]
      BY <2>1, <2>3, EnterFacts
    <3> HIDE DEF e
    <3> QED
      BY <1>1, <3>1 DEF Test, EngineUnchanged, LazyUnchanged
  <2> QED
    BY <1>1, <2>2, <2>3 DEF Test, Enter, Goto
<1>2. CASE Create(p)
  BY <1>2 DEF Create, At, Goto, LazyUnchanged
<1>3. CASE Phrase(p)
  BY <1>3 DEF Phrase, At, Goto, EngineUnchanged, LazyUnchanged
<1>4. CASE Derive(p)
  <2>1. CASE init = None
    BY <1>4, <2>1, ThrowFacts DEF Derive, At
  <2>2. CASE init # None
    BY <1>4, <2>2 DEF Derive, At, Goto, LazyUnchanged
  <2> QED
    BY <2>1, <2>2
<1>5. CASE Verify(p)
  <2>1. /\ op[p].pc = "verify" /\ StoreUnchanged
        /\ UNCHANGED <<chain, dek, ready, twin, calls, meddled>>
        /\ \/ /\ init' = None /\ Goto(p, "findSelf") /\ LazyUnchanged
              /\ spoiled' = (spoiled \/ (store[Self] = None /\ SureKeys))
           \/ Throw(p) /\ UNCHANGED <<init, spoiled>>
    BY <1>5 DEF Verify, At
  <2>2. CASE Throw(p) /\ UNCHANGED <<init, spoiled>>
    BY <2>1, <2>2, ThrowFacts
  <2>3. CASE /\ init' = None /\ Goto(p, "findSelf") /\ LazyUnchanged
             /\ spoiled' = (spoiled \/ (store[Self] = None /\ SureKeys))
    <3>1. spoiled' \in BOOLEAN
      BY <2>3
    <3> QED
      BY <2>1, <2>3, <3>1 DEF Goto, LazyUnchanged
  <2> QED
    BY <2>1, <2>2, <2>3
<1>6. CASE FindSelf(p)
  <2>1. CASE SelfMissing
    BY <1>6, <2>1 DEF FindSelf, At, Goto, LazyUnchanged
  <2>2. CASE ~SelfMissing
    <3>1. op[p].pc = "findSelf" /\ op' = [op EXCEPT ![p].pc = Start(p), ![p].sure = TRUE]
      BY <1>6, <2>2 DEF FindSelf, At, Enter
    <3> DEFINE e == [op[p] EXCEPT !.pc = Start(p), !.sure = TRUE]
    <3>2. e \in OpRecord /\ OpOK(e) /\ op' = [op EXCEPT ![p] = e]
      BY <3>1, EnterFacts
    <3> HIDE DEF e
    <3> QED
      BY <1>6, <2>2, <3>2 DEF FindSelf, LazyUnchanged
  <2> QED
    BY <2>1, <2>2
<1> QED
  BY <1>1, <1>2, <1>3, <1>4, <1>5, <1>6

LEMMA IdentityStep ==
  ASSUME IInv, NEW p \in Procs, FindPeer(p) \/ PublicKey(p) \/ PrivateKey(p)
  PROVE  IInv'
<1> USE Types, IdleFacts, EngineStep DEF CallsUnchanged
<1>1. CASE FindPeer(p)
  <2>1. CASE store[Self] = None
    BY <1>1, <2>1, ThrowFacts DEF FindPeer, EngineUnchanged
  <2>2. CASE store[Self] # None
    <3> DEFINE r == op[p]
               e1 == [r EXCEPT !.pc = "public"]
               e2 == [e1 EXCEPT !.id = store[Self].id]
    <3>1. r.pc = "peer" /\ store[Self].id \in Ids /\ op' = [op EXCEPT ![p] = e2]
      BY <1>1, <2>2, StoreFacts DEF FindPeer, At
    <3>2. e1 \in OpRecord /\ OpOK(e1) /\ e1.pc = "public"
      <4>1. e1 \in OpRecord /\ OpOK(e1)
        BY <3>1, GotoFacts
      <4>2. r \in OpRecord /\ "public" \in Pcs
        BY ProcFacts DEF Pcs
      <4> HIDE DEF r
      <4> QED
        BY <4>1, <4>2, SetPc
    <3> HIDE DEF e1
    <3>3. /\ e2 \in OpRecord /\ e2.pc = "public"
          /\ e2.kind = e1.kind /\ e2.name = e1.name /\ e2.new = e1.new
      BY <3>1, <3>2, SetId
    <3> HIDE DEF e2
    <3>4. OpOK(e2)
      BY <3>2, <3>3 DEF OpOK
    <3> QED
      BY <1>1, <2>2, <3>1, <3>3, <3>4 DEF FindPeer, EngineUnchanged, LazyUnchanged
  <2> QED
    BY <2>1, <2>2
<1>2. CASE PublicKey(p)
  <2>1. CASE store[Self] # None /\ ~Readable(store[Self])
    BY <1>2, <2>1, ThrowFacts DEF PublicKey, EngineUnchanged
  <2>2. CASE ~(store[Self] # None /\ ~Readable(store[Self]))
    <3>1. op[p].id \in Ids \cup {None}
      BY ProcFacts, OpTypes
    <3> QED
      BY <1>2, <2>2, <3>1, GotoFacts DEF PublicKey, At, Goto, EngineUnchanged
  <2> QED
    BY <2>1, <2>2
<1>3. CASE PrivateKey(p)
  <2>1. CASE store[Self] = None \/ ~Readable(store[Self])
    BY <1>3, <2>1, ThrowFacts DEF PrivateKey, EngineUnchanged
  <2>2. CASE ~(store[Self] = None \/ ~Readable(store[Self]))
    <3>1. store[Self].id \in Ids
      BY <2>2, StoreFacts
    <3> QED
      BY <1>3, <2>2, <3>1 DEF PrivateKey, Return, EngineUnchanged
  <2> QED
    BY <2>1, <2>2
<1> QED
  BY <1>1, <1>2, <1>3

(* A new key pair is in hand.                                              *)
LEMMA MakeStep ==
  ASSUME IInv, NEW p \in Procs, MakeSelf(p) \/ Make(p)
  PROVE  IInv'
<1> USE Types, EngineStep DEF CallsUnchanged
<1>1. CASE MakeSelf(p)
  <2> DEFINE item == NewEntry(Self, TRUE)
             e == [op[p] EXCEPT !.pc = "putSelf", !.item = item]
  <2>1. op[p].pc = "makeSelf" /\ op' = [op EXCEPT ![p] = e] /\ ~(Ids \subseteq Seen)
    BY <1>1 DEF MakeSelf, At
  <2>2. item \in Entries /\ item.name = Self
    BY <2>1, NewEntryFacts, ConstantsAssumption
  <2> HIDE DEF item
  <2>3. e \in OpRecord /\ OpOK(e)
    BY <2>1, <2>2, HandFacts
  <2> HIDE DEF e
  <2> QED
    BY <1>1, <2>1, <2>3 DEF MakeSelf, EngineUnchanged, LazyUnchanged
<1>2. CASE Make(p)
  <2> DEFINE item == NewEntry(op[p].name, op[p].sure)
             e == [op[p] EXCEPT !.pc = "put", !.item = item]
  <2>1. op[p].pc = "make" /\ op' = [op EXCEPT ![p] = e] /\ ~(Ids \subseteq Seen)
    BY <1>2 DEF Make, At
  <2>2. op[p].kind = "generate" /\ op[p].name \in Names /\ op[p].sure \in BOOLEAN
    BY <2>1, ProcFacts, OpTypes DEF OpOK, Named
  <2>3. item \in Entries /\ item.name = op[p].name
    BY <2>1, <2>2, NewEntryFacts
  <2> HIDE DEF item
  <2>4. e \in OpRecord /\ OpOK(e)
    BY <2>2, <2>3, HandFacts
  <2> HIDE DEF e
  <2> QED
    BY <1>2, <2>1, <2>4 DEF Make, EngineUnchanged, LazyUnchanged
<1> QED
  BY <1>1, <1>2

LEMMA PutSelfStep ==
  ASSUME IInv, NEW p \in Procs, PutSelf(p)
  PROVE  IInv'
<1> DEFINE e == [op[p] EXCEPT !.pc = Start(p), !.sure = TRUE, !.item = None]
<1>1. /\ op[p].pc = "putSelf" /\ op' = [op EXCEPT ![p] = e]
      /\ store' = [store EXCEPT ![Self] = op[p].item]
      /\ ready' = TRUE /\ owned' \subseteq owned
      /\ UNCHANGED <<chain, init, dek, twin, lazy, peer, swarm, calls, meddled, spoiled>>
  BY DEF PutSelf, At, LazyUnchanged, CallsUnchanged
<1>2. e \in OpRecord /\ OpOK(e)
  BY <1>1, EnterFacts
<1>3. op[p].item \in Entries \cup {None} /\ op[p].item.name = Self /\ Self \in Names
  BY <1>1, ProcFacts, OpTypes, ConstantsAssumption DEF OpOK
<1> HIDE DEF e
<1> QED
  BY <1>1, <1>2, <1>3, Types, OneFile

(* Generate and import store the key, rename stores it under its new name. *)
LEMMA PutStep ==
  ASSUME IInv, NEW p \in Procs, Put(p)
  PROVE  IInv'
<1>1. /\ op[p].pc = "put" /\ op' = [op EXCEPT ![p] = Idle]
      /\ store' = [store EXCEPT ![op[p].name] = op[p].item]
      /\ owned' \subseteq owned \cup {op[p].item.id}
      /\ spoiled' = (spoiled \/ (op[p].name = Self /\ ~op[p].item.sure))
      /\ UNCHANGED <<chain, init, dek, ready, twin, lazy, peer, swarm, calls, meddled>>
  BY DEF Put, At, Return, EngineUnchanged, LazyUnchanged
<1>2. /\ op[p].item \in Entries /\ op[p].item.name = op[p].name /\ op[p].name \in Names
  BY <1>1, ProcFacts, OpTypes DEF OpOK, Named
<1>3. op[p].item.id \in Ids
  BY <1>2 DEF Entries
<1> QED
  BY <1>1, <1>2, <1>3, Types, IdleFacts, OneFile

LEMMA PutNewStep ==
  ASSUME IInv, NEW p \in Procs, PutNew(p)
  PROVE  IInv'
<1>1. /\ op[p].pc = "putNew" /\ op' = [op EXCEPT ![p].pc = "drop"]
      /\ store' = [store EXCEPT ![op[p].new] = op[p].item]
      /\ owned' \subseteq owned
      /\ spoiled' = (spoiled \/ (op[p].new = Self /\ ~op[p].item.sure))
      /\ UNCHANGED <<chain, init, dek, ready, twin, lazy, peer, swarm, calls, meddled>>
  BY DEF PutNew, NewFile, At, Goto, EngineUnchanged, LazyUnchanged
<1>2. /\ op[p].item \in Entries /\ op[p].item.name = op[p].new /\ op[p].new \in Names
      /\ op[p].kind = "rename"
  BY <1>1, ProcFacts, OpTypes DEF OpOK
<1> DEFINE e == [op[p] EXCEPT !.pc = "drop"]
<1>3. e \in OpRecord /\ OpOK(e)
  BY <1>1, <1>2, GotoFacts
<1> HIDE DEF e
<1>4. op' = [op EXCEPT ![p] = e]
  BY <1>1 DEF e
<1> QED
  BY <1>1, <1>2, <1>3, <1>4, Types, OneFile

LEMMA FindStep ==
  ASSUME IInv, NEW p \in Procs, Find(p)
  PROVE  IInv'
<1> USE Types, EngineStep DEF CallsUnchanged
<1> DEFINE key == store[op[p].name]
<1>1. /\ op[p].pc = "find" /\ op[p].kind \in {"remove", "rename"} /\ op[p].name \in Names
      /\ op[p].kind = "rename" => op[p].new \in Names
      /\ StoreUnchanged /\ CallsUnchanged
      /\ UNCHANGED <<chain, init, dek, ready, twin, lazy, peer, swarm>>
  BY ProcFacts DEF Find, At, OpOK, Named, EngineUnchanged, LazyUnchanged
<1>2. CASE key = None
  BY <1>1, <1>2, IdleFacts DEF Find, Return
<1>3. CASE key # None /\ op[p].kind = "remove"
  BY <1>1, <1>3, GotoFacts DEF Find, Goto
<1>4. CASE key # None /\ op[p].kind = "rename"
  <2> DEFINE item == Renamed(key, op[p].new)
             e == [op[p] EXCEPT !.pc = "putNew", !.item = item]
  <2>1. op' = [op EXCEPT ![p] = e]
    BY <1>4 DEF Find
  <2>2. key \in Entries
    BY <1>1, <1>4, StoreFacts
  <2>3. item \in Entries /\ item.name = op[p].new
    BY <1>1, <1>4, <2>2 DEF Renamed, Entries
  <2> HIDE DEF item
  <2>4. e \in OpRecord /\ OpOK(e)
    BY <1>4, <2>3, HandFacts
  <2> HIDE DEF e
  <2> QED
    BY <1>1, <2>1, <2>4
<1> QED
  BY <1>1, <1>2, <1>3, <1>4

LEMMA DropStep ==
  ASSUME IInv, NEW p \in Procs, Drop(p)
  PROVE  IInv'
<1>1. /\ op[p].pc = "drop" /\ op' = [op EXCEPT ![p] = Idle]
      /\ store' = [store EXCEPT ![op[p].name] = None]
      /\ owned' \subseteq owned
      /\ UNCHANGED <<chain, init, dek, ready, twin, lazy, peer, swarm, calls, meddled, spoiled>>
  BY DEF Drop, At, Return, EngineUnchanged, LazyUnchanged, CallsUnchanged
<1>2. op[p].name \in Names
  BY <1>1, ProcFacts DEF OpOK, Named
<1> QED
  BY <1>1, <1>2, Types, IdleFacts, OneFile

LEMMA CrashStep ==
  ASSUME IInv, Crash
  PROVE  IInv'
<1>1. /\ op' = [p \in Procs |-> Idle] /\ init' \in Phrases
      /\ chain' = FALSE /\ dek' = None /\ lazy' = "none" /\ peer' = None /\ swarm' = None
      /\ ready' = FALSE /\ twin' = FALSE /\ meddled' = FALSE
      /\ UNCHANGED <<store, owned, calls, spoiled>>
  BY DEF Crash, StoreUnchanged
<1>2. op' \in [Procs -> OpRecord] /\ OpsOK'
  BY <1>1, IdleFacts DEF OpsOK
<1> QED
  BY <1>1, <1>2, Types, SameStore

LEMMA InitInv == Init => IInv
<1> SUFFICES ASSUME Init PROVE IInv
  OBVIOUS
<1>1. store \in Stores /\ ListedUnderItsName
  BY ConstantsAssumption DEF Init, ListedUnderItsName, Sound
<1>2. op \in [Procs -> OpRecord] /\ OpsOK
  BY IdleFacts DEF Init, OpsOK
<1>3. owned \subseteq Ids
  <2>1. \A n \in Names : store[n] # None => store[n].id \in Ids
    BY <1>1 DEF Stores, Entries
  <2> QED
    BY <2>1 DEF Init
<1>4. \A p \in Procs : /\ op[p].pc \in {"putSelf", "put", "putNew"} => op[p].item # None
                       /\ op[p].pc = "idle" => op[p].kind = "none" /\ op[p].item = None
  BY <1>2 DEF OpsOK, OpOK
<1>5. TypeOK
  <2>1. calls \in 0..MaxCalls
    BY ConstantsAssumption DEF Init
  <2>2. /\ chain \in BOOLEAN /\ init \in Phrases \cup {None} /\ dek \in Phrases \cup {None}
        /\ lazy \in {"none", "running", "built", "failed"}
        /\ peer \in Ids \cup {None} /\ swarm \in Ids \cup {None}
        /\ ready \in BOOLEAN /\ twin \in BOOLEAN
        /\ spoiled \in BOOLEAN /\ meddled \in BOOLEAN
    BY DEF Init
  <2> QED
    BY <1>1, <1>2, <1>3, <1>4, <2>1, <2>2 DEF TypeOK
<1> QED
  BY <1>1, <1>2, <1>5 DEF IInv

LEMMA NextInv == IInv /\ [Next]_vars => IInv'
<1> SUFFICES ASSUME IInv, [Next]_vars PROVE IInv'
  OBVIOUS
<1>1. CASE UNCHANGED vars
  BY <1>1 DEF vars, IInv, TypeOK, OpsOK, ListedUnderItsName
<1>2. CASE Crash
  BY <1>2, CrashStep
<1>3. ASSUME NEW p \in Procs,
             \/ Call(p) \/ StartSwarm(p)
             \/ Test(p) \/ Create(p) \/ Phrase(p) \/ Derive(p) \/ Verify(p)
             \/ FindSelf(p) \/ MakeSelf(p) \/ PutSelf(p)
             \/ Make(p) \/ Put(p) \/ Find(p) \/ PutNew(p) \/ Drop(p)
             \/ FindPeer(p) \/ PublicKey(p) \/ PrivateKey(p)
      PROVE  IInv'
  BY <1>3, CallStep, StartSwarmStep, KeyChainAsyncStep, IdentityStep, MakeStep,
     PutSelfStep, PutStep, PutNewStep, FindStep, DropStep
<1> QED
  BY <1>1, <1>2, <1>3 DEF Next

-----------------------------------------------------------------------------
(* The state keeps its type.                                               *)
THEOREM KeyChainType == Spec => []TypeOK
<1>1. IInv => TypeOK
  BY DEF IInv
<1> QED
  BY <1>1, InitInv, NextInv, PTL DEF Spec

(* A key is listed under the name by which it is found, at every point of  *)
(* calls that overlap in any way, whatever crashes.                        *)
THEOREM KeyChainListed == Spec => []ListedUnderItsName
<1>1. IInv => ListedUnderItsName
  BY DEF IInv
<1> QED
  BY <1>1, InitInv, NextInv, PTL DEF Spec

-----------------------------------------------------------------------------
(* The pass phrases.  All keys that are sure, stored or in hand, have one  *)
(* phrase; once keyChainInitPassphrase is disposed it is the phrase of the *)
(* key chain; and only a key that is sure is stored as Self.               *)

SurePhrase(f) ==
  /\ init = None => f = dek
  /\ \A n \in Names : Sure(store[n]) => store[n].phrase = f
  /\ \A p \in Procs : Sure(op[p].item) => op[p].item.phrase = f

(* What the record r of a call promises, when keyChainInitPassphrase is i  *)
(* and the key chain is ready or not (rd).                                 *)
Trusted(r, i, rd) ==
  /\ r.pc \in {"findSelf", "makeSelf", "putSelf"} => i = None
  /\ r.pc = "putSelf" => r.item.sure
  /\ r.sure = TRUE => rd = TRUE

SureInv ==
  /\ \E f \in Phrases \cup {None} : SurePhrase(f)
  /\ ready = TRUE => init = None
  /\ store[Self] # None => store[Self].sure
  /\ \A p \in Procs : Trusted(op[p], init, ready)

PInv == IInv /\ (spoiled = FALSE => SureInv)

(* One call moves, and one file is written, or none.                       *)
LEMMA SureMove ==
  ASSUME IInv, SureInv, NEW p \in Procs, NEW r \in OpRecord, op' = [op EXCEPT ![p] = r],
         NEW n \in Names, NEW key, store' = [store EXCEPT ![n] = key],
         NEW f \in Phrases \cup {None}, SurePhrase(f),
         Sure(key) => key.phrase = f,
         Sure(r.item) => r.item.phrase = f,
         init' \in {init, None}, init' = None => f = dek',
         ready = TRUE => ready' = TRUE, ready' = TRUE => init' = None,
         n = Self /\ key # None => key.sure,
         Trusted(r, init', ready')
  PROVE  SureInv'
<1>1. \A q \in Procs : op'[q] = IF q = p THEN r ELSE op[q]
  BY ProcFacts
<1>2. \A m \in Names : store'[m] = IF m = n THEN key ELSE store[m]
  BY StoreFacts
<1>3. SurePhrase(f)'
  <2>1. \A m \in Names : Sure(store'[m]) => store'[m].phrase = f
    BY <1>2 DEF SurePhrase
  <2>2. \A q \in Procs : Sure(op'[q].item) => op'[q].item.phrase = f
    BY <1>1 DEF SurePhrase
  <2> QED
    BY <2>1, <2>2 DEF SurePhrase, Sure
<1>4. store'[Self] # None => store'[Self].sure
  BY <1>2, ConstantsAssumption DEF SureInv
<1>5. ASSUME NEW q \in Procs PROVE Trusted(op[q], init, ready)'
  <2>1. Trusted(op[q], init, ready)
    BY DEF SureInv
  <2>2. Trusted(op[q], init', ready')
    BY <2>1 DEF Trusted
  <2> QED
    BY <1>1, <2>2 DEF Trusted
<1> QED
  BY <1>3, <1>4, <1>5 DEF SureInv

(* One call moves, with the key it had in hand or none.                    *)
LEMMA SureQuiet ==
  ASSUME IInv, SureInv, NEW p \in Procs, NEW r \in OpRecord, op' = [op EXCEPT ![p] = r],
         r.item \in {op[p].item, None}, UNCHANGED <<store, init>>,
         dek' = dek \/ init # None,
         ready = TRUE => ready' = TRUE, ready' = TRUE => init = None,
         Trusted(r, init, ready')
  PROVE  SureInv'
<1>1. PICK f \in Phrases \cup {None} : SurePhrase(f)
  BY DEF SureInv
<1>2. Self \in Names /\ store' = [store EXCEPT ![Self] = store[Self]]
  BY StoreFacts
<1>3. /\ Sure(store[Self]) => store[Self].phrase = f
      /\ Sure(r.item) => r.item.phrase = f
      /\ init = None => f = dek'
  BY <1>1, <1>2 DEF SurePhrase, Sure
<1>4. store[Self] # None => store[Self].sure
  BY DEF SureInv
<1> DEFINE i2 == init'  rd2 == ready'
<1>5. i2 = init /\ Trusted(r, i2, rd2) /\ (i2 = None => f = dek')
  BY <1>3
<1> QED
  BY <1>1, <1>2, <1>3, <1>4, <1>5, SureMove

LEMMA TrustedFacts ==
  ASSUME IInv, SureInv, NEW p \in Procs
  PROVE  op[p] \in OpRecord /\ OpOK(op[p]) /\ Trusted(op[p], init, ready)
BY ProcFacts DEF SureInv

(* The call goes on, ends or throws, with nothing to store.                *)
LEMMA SureGoto ==
  ASSUME IInv, SureInv, NEW p \in Procs,
         NEW pc \in {"test", "create", "phrase", "derive", "verify", "findSelf", "makeSelf",
                     "public", "drop"},
         Goto(p, pc), UNCHANGED <<store, init, ready>>, dek' = dek \/ init # None,
         pc \in {"findSelf", "makeSelf"} => init = None
  PROVE  SureInv'
<1> DEFINE e == [op[p] EXCEPT !.pc = pc]
<1>1. pc \in Pcs /\ op[p] \in OpRecord /\ Trusted(op[p], init, ready) /\ op' = [op EXCEPT ![p] = e]
  BY TrustedFacts DEF Goto, Pcs
<1>2. e \in OpRecord /\ e.pc = pc /\ e.item = op[p].item /\ e.sure = op[p].sure
  BY <1>1, SetPc
<1> HIDE DEF e
<1>3. Trusted(e, init, ready)
  BY <1>1, <1>2 DEF Trusted
<1>4. ready = TRUE => init = None
  BY DEF SureInv
<1> DEFINE rd2 == ready'
<1>5. rd2 = ready
  OBVIOUS
<1>6. Trusted(e, init, rd2) /\ (ready = TRUE => rd2 = TRUE) /\ (rd2 = TRUE => init = None)
  BY <1>3, <1>4, <1>5
<1> QED
  BY <1>1, <1>2, <1>6, SureQuiet

LEMMA TrustedIdle == ASSUME NEW i, NEW rd PROVE /\ Trusted(Idle, i, rd)
                                                /\ Trusted(BuildSwarm, i, rd)
BY DEF Trusted, Idle, BuildSwarm, Op

LEMMA SureReturn ==
  ASSUME IInv, SureInv, NEW p \in Procs, NEW r \in {Idle, BuildSwarm},
         op' = [op EXCEPT ![p] = r], UNCHANGED <<store, init, dek, ready>>
  PROVE  SureInv'
<1>1. r \in OpRecord /\ r.item = None /\ Trusted(r, init, ready)
  <2>1. CASE r = Idle
    BY <2>1, IdleFacts, TrustedIdle
  <2>2. CASE r = BuildSwarm
    <3>1. BuildSwarm \in OpRecord /\ BuildSwarm.item = None
      BY NoneFacts DEF BuildSwarm, Op, OpRecord, Pcs
    <3> QED
      BY <2>2, <3>1, TrustedIdle
  <2> QED
    BY <2>1, <2>2
<1>2. ready = TRUE => init = None
  BY DEF SureInv
<1> DEFINE rd2 == ready'
<1>3. rd2 = ready
  OBVIOUS
<1>4. Trusted(r, init, rd2) /\ (ready = TRUE => rd2 = TRUE) /\ (rd2 = TRUE => init = None)
  BY <1>1, <1>2, <1>3
<1> QED
  BY <1>1, <1>4, SureQuiet

(* The caller gets the key chain.                                          *)
LEMMA SureEnter ==
  ASSUME IInv, SureInv, NEW p \in Procs, NEW s \in BOOLEAN, Enter(p, s),
         UNCHANGED <<store, init, dek>>, ready = TRUE => ready' = TRUE,
         ready' = TRUE => init = None, s = TRUE => ready' = TRUE
  PROVE  SureInv'
<1> DEFINE pc == Start(p)
           e == [op[p] EXCEPT !.pc = pc, !.sure = s]
<1>1. /\ pc \in Pcs /\ pc \in {"make", "find", "peer", "private"}
      /\ op[p] \in OpRecord /\ op' = [op EXCEPT ![p] = e]
  BY TrustedFacts DEF Enter, Start, Pcs
<1> HIDE DEF pc
<1>2. e \in OpRecord /\ e.pc = pc /\ e.item = op[p].item /\ e.sure = s
  BY <1>1 DEF OpRecord
<1> HIDE DEF e
<1>3. Trusted(e, init, ready')
  BY <1>1, <1>2 DEF Trusted
<1> QED
  BY <1>1, <1>2, <1>3, SureQuiet

LEMMA KeyChainAsyncSure ==
  ASSUME IInv, SureInv, NEW p \in Procs,
         Test(p) \/ Create(p) \/ Phrase(p) \/ Derive(p) \/ FindSelf(p)
  PROVE  SureInv'
<1>0. /\ ready \in BOOLEAN /\ (ready = TRUE => init = None)
      /\ op[p].pc = "findSelf" => init = None
      /\ store' = store /\ init' = init
  BY Types, TrustedFacts DEF SureInv, Trusted, Test, Create, Phrase, Derive, FindSelf,
     StoreUnchanged, EngineUnchanged
<1>1. CASE Test(p)
  <2>1. UNCHANGED <<dek, ready>> /\ (Enter(p, ready) \/ Goto(p, "create"))
    BY <1>1 DEF Test, EngineUnchanged
  <2>2. CASE Enter(p, ready)
    BY <1>0, <2>1, <2>2, SureEnter
  <2>3. CASE Goto(p, "create")
    BY <1>0, <2>1, <2>3, SureGoto
  <2> QED
    BY <2>1, <2>2, <2>3
<1>2. CASE Create(p)
  BY <1>0, <1>2, SureGoto DEF Create
<1>3. CASE Phrase(p)
  <2>1. UNCHANGED <<dek, ready>> /\ ((init = None /\ Goto(p, "findSelf")) \/ Goto(p, "derive"))
    BY <1>3 DEF Phrase, EngineUnchanged
  <2> QED
    BY <1>0, <2>1, SureGoto
<1>4. CASE Derive(p)
  <2>1. /\ ready' = ready
        /\ (Return(p) /\ dek' = dek) \/ (Goto(p, "verify") /\ init # None)
    BY <1>4 DEF Derive, Throw
  <2>2. CASE Return(p) /\ dek' = dek
    BY <1>0, <2>1, <2>2, SureReturn DEF Return
  <2>3. CASE Goto(p, "verify") /\ init # None
    BY <1>0, <2>1, <2>3, SureGoto
  <2> QED
    BY <2>1, <2>2, <2>3
<1>5. CASE FindSelf(p)
  <2>1. /\ init = None /\ dek' = dek
        /\ (Goto(p, "makeSelf") /\ ready' = ready) \/ (Enter(p, TRUE) /\ ready' = TRUE)
    BY <1>0, <1>5 DEF FindSelf, At
  <2>2. CASE Goto(p, "makeSelf") /\ ready' = ready
    BY <1>0, <2>1, <2>2, SureGoto
  <2>3. CASE Enter(p, TRUE) /\ ready' = TRUE
    BY <1>0, <2>1, <2>3, SureEnter
  <2> QED
    BY <2>1, <2>2, <2>3
<1> QED
  BY <1>1, <1>2, <1>3, <1>4, <1>5

(* The phrase of the session is that of Self, which has the phrase of all  *)
(* keys that are sure; or there are none.                                  *)
LEMMA VerifySure ==
  ASSUME IInv, SureInv, NEW p \in Procs, Verify(p), spoiled' = FALSE
  PROVE  SureInv'
<1>1. UNCHANGED <<store, dek, ready>>
  BY DEF Verify, StoreUnchanged
<1>2. CASE Throw(p) /\ UNCHANGED init
  BY <1>1, <1>2, SureReturn DEF Throw, Return
<1>3. CASE /\ store[Self] # None => Readable(store[Self])
           /\ init' = None /\ Goto(p, "findSelf")
           /\ store[Self] = None => ~SureKeys
  <2>1. SurePhrase(dek)
    <3>1. CASE store[Self] = None
      BY <1>3, <3>1 DEF SureKeys, SurePhrase
    <3>2. CASE store[Self] # None
      <4>1. PICK f \in Phrases \cup {None} : SurePhrase(f)
        BY DEF SureInv
      <4>2. Sure(store[Self]) /\ Self \in Names
        BY <3>2, ConstantsAssumption DEF SureInv, Sure
      <4>3. f = dek
        BY <1>3, <3>2, <4>1, <4>2 DEF SurePhrase, Readable
      <4> QED
        BY <4>1, <4>3
    <3> QED
      BY <3>1, <3>2
  <2> DEFINE e == [op[p] EXCEPT !.pc = "findSelf"]
  <2>2. /\ op[p] \in OpRecord /\ op' = [op EXCEPT ![p] = e] /\ "findSelf" \in Pcs
        /\ Trusted(op[p], init, ready)
    BY <1>3, TrustedFacts DEF Goto, Pcs
  <2>3. e \in OpRecord /\ e.pc = "findSelf" /\ e.item = op[p].item /\ e.sure = op[p].sure
    BY <2>2, SetPc
  <2> HIDE DEF e
  <2> DEFINE i2 == init'  rd2 == ready'  d2 == dek'
  <2>4. i2 = None /\ rd2 = ready /\ d2 = dek
    BY <1>1, <1>3
  <2>5. Trusted(e, i2, rd2) /\ (i2 = None => dek = d2)
    BY <2>2, <2>3, <2>4 DEF Trusted
  <2>6. /\ Self \in Names /\ store' = [store EXCEPT ![Self] = store[Self]]
        /\ Sure(store[Self]) => store[Self].phrase = dek
        /\ Sure(e.item) => e.item.phrase = dek
        /\ store[Self] # None => store[Self].sure
        /\ dek \in Phrases \cup {None}
    BY <1>1, <2>1, <2>3, StoreFacts, Types DEF SurePhrase, SureInv
  <2>7. i2 \in {init, None} /\ (ready = TRUE => rd2 = TRUE) /\ (rd2 = TRUE => i2 = None)
    BY <2>4
  <2> QED
    BY <2>1, <2>2, <2>3, <2>5, <2>6, <2>7, SureMove
<1> QED
  BY <1>2, <1>3 DEF Verify, Accepts

(* A key that is taken in hand has the phrase of the others, if it is sure.*)
LEMMA SureTake ==
  ASSUME IInv, SureInv, NEW p \in Procs, NEW r \in OpRecord, op' = [op EXCEPT ![p] = r],
         UNCHANGED <<store, init, dek, ready>>,
         \A f : SurePhrase(f) /\ Sure(r.item) => r.item.phrase = f,
         Trusted(r, init, ready)
  PROVE  SureInv'
<1>1. PICK f \in Phrases \cup {None} : SurePhrase(f)
  BY DEF SureInv
<1>2. Self \in Names /\ store' = [store EXCEPT ![Self] = store[Self]]
  BY StoreFacts
<1>3. /\ Sure(store[Self]) => store[Self].phrase = f
      /\ Sure(r.item) => r.item.phrase = f
      /\ init = None => f = dek'
  BY <1>1, <1>2 DEF SurePhrase
<1>4. store[Self] # None => store[Self].sure
  BY DEF SureInv
<1> DEFINE i2 == init'  rd2 == ready'
<1>5. /\ i2 = init /\ Trusted(r, i2, rd2) /\ (i2 = None => f = dek')
      /\ (ready = TRUE => rd2 = TRUE) /\ (rd2 = TRUE => i2 = None)
  BY <1>3 DEF SureInv
<1> QED
  BY <1>1, <1>2, <1>3, <1>4, <1>5, SureMove

(* A new key has the phrase of the key chain; it is sure only if the key   *)
(* chain is ready, or about to be.                                         *)
LEMMA SureHand ==
  ASSUME IInv, SureInv, NEW p \in Procs, NEW pc \in {"putSelf", "put", "putNew"},
         NEW i \in Entries, op' = [op EXCEPT ![p].pc = pc, ![p].item = i],
         UNCHANGED <<store, init, dek, ready>>,
         pc = "putSelf" => init = None /\ i.sure,
         \A f : SurePhrase(f) /\ Sure(i) => i.phrase = f
  PROVE  SureInv'
<1> DEFINE e == [op[p] EXCEPT !.pc = pc, !.item = i]
<1>1. /\ op[p] \in OpRecord /\ op' = [op EXCEPT ![p] = e] /\ pc \in Pcs
      /\ Trusted(op[p], init, ready)
  BY TrustedFacts DEF Pcs
<1>2. e \in OpRecord /\ e.pc = pc /\ e.item = i /\ e.sure = op[p].sure
  BY <1>1 DEF OpRecord
<1> HIDE DEF e
<1>3. Trusted(e, init, ready)
  BY <1>1, <1>2 DEF Trusted
<1> QED
  BY <1>1, <1>2, <1>3, SureTake

LEMMA MakeSure ==
  ASSUME IInv, SureInv, NEW p \in Procs, MakeSelf(p) \/ Make(p)
  PROVE  SureInv'
<1>0. /\ UNCHANGED <<store, init, dek, ready>>
      /\ op[p].pc = "makeSelf" => init = None
      /\ op[p].sure = TRUE => init = None
  BY TrustedFacts DEF MakeSelf, Make, EngineUnchanged, StoreUnchanged, Trusted, SureInv
<1>1. CASE MakeSelf(p)
  <2> DEFINE i == NewEntry(Self, TRUE)
  <2>1. i \in Entries /\ i.sure /\ i.phrase = dek /\ init = None
    BY <1>0, <1>1, NewEntryFacts, ConstantsAssumption DEF MakeSelf, At, NewEntry
  <2>2. op' = [op EXCEPT ![p].pc = "putSelf", ![p].item = i]
    BY <1>1 DEF MakeSelf
  <2> HIDE DEF i
  <2>3. \A f : SurePhrase(f) => i.phrase = f
    BY <2>1 DEF SurePhrase
  <2> QED
    BY <1>0, <2>1, <2>2, <2>3, SureHand
<1>2. CASE Make(p)
  <2> DEFINE i == NewEntry(op[p].name, op[p].sure)
  <2>1. op[p].name \in Names /\ op[p].sure \in BOOLEAN
    BY <1>2, ProcFacts, OpTypes DEF Make, At, OpOK, Named
  <2>2. i \in Entries /\ i.sure = op[p].sure /\ i.phrase = dek
    BY <1>2, <2>1, NewEntryFacts DEF Make, NewEntry
  <2>3. op' = [op EXCEPT ![p].pc = "put", ![p].item = i]
    BY <1>2 DEF Make
  <2> HIDE DEF i
  <2>4. \A f : SurePhrase(f) /\ Sure(i) => i.phrase = f
    BY <1>0, <2>1, <2>2 DEF SurePhrase, Sure
  <2> QED
    BY <1>0, <2>2, <2>3, <2>4, SureHand
<1> QED
  BY <1>1, <1>2

LEMMA FindSure ==
  ASSUME IInv, SureInv, NEW p \in Procs, Find(p)
  PROVE  SureInv'
<1> DEFINE key == store[op[p].name]
<1>0. /\ UNCHANGED <<store, init, dek, ready>>
      /\ op[p].name \in Names /\ op[p].kind \in {"remove", "rename"}
      /\ op[p].kind = "rename" => op[p].new \in Names
  BY ProcFacts DEF Find, At, OpOK, Named, EngineUnchanged, StoreUnchanged
<1>1. CASE key = None
  BY <1>0, <1>1, SureReturn DEF Find, Return
<1>2. CASE key # None /\ op[p].kind = "remove"
  BY <1>0, <1>2, SureGoto DEF Find
<1>3. CASE key # None /\ op[p].kind = "rename"
  <2> DEFINE i == Renamed(key, op[p].new)
  <2>1. key \in Entries
    BY <1>0, <1>3, StoreFacts
  <2>2. i \in Entries /\ i.sure = key.sure /\ i.phrase = key.phrase
    BY <1>0, <1>3, <2>1 DEF Renamed, Entries
  <2>3. op' = [op EXCEPT ![p].pc = "putNew", ![p].item = i]
    BY <1>3 DEF Find
  <2> HIDE DEF i
  <2>4. \A f : SurePhrase(f) /\ Sure(i) => i.phrase = f
    BY <1>0, <1>3, <2>2 DEF SurePhrase, Sure
  <2> QED
    BY <1>0, <2>2, <2>3, <2>4, SureHand
<1> QED
  BY <1>0, <1>1, <1>2, <1>3

(* The call stores the key it has in hand, or removes one.                 *)
LEMMA SureWrite ==
  ASSUME IInv, SureInv, NEW p \in Procs, NEW r \in OpRecord, op' = [op EXCEPT ![p] = r],
         r.item \in {op[p].item, None},
         NEW n \in Names, NEW key \in {op[p].item, None}, store' = [store EXCEPT ![n] = key],
         n = Self /\ key # None => key.sure, UNCHANGED <<init, dek>>,
         ready = TRUE => ready' = TRUE, ready' = TRUE => init = None,
         Trusted(r, init, ready')
  PROVE  SureInv'
<1>1. PICK f \in Phrases \cup {None} : SurePhrase(f)
  BY DEF SureInv
<1>2. /\ Sure(key) => key.phrase = f
      /\ Sure(r.item) => r.item.phrase = f
  BY <1>1 DEF SurePhrase, Sure
<1> DEFINE i2 == init'  rd2 == ready'  d2 == dek'
<1>3. i2 = init /\ d2 = dek
  OBVIOUS
<1>4. /\ i2 \in {init, None} /\ (ready = TRUE => rd2 = TRUE) /\ (rd2 = TRUE => i2 = None)
      /\ i2 = None => f = d2
      /\ Trusted(r, i2, rd2)
  BY <1>1, <1>3 DEF SurePhrase
<1> QED
  BY <1>1, <1>2, <1>4, SureMove

LEMMA PutSelfSure ==
  ASSUME IInv, SureInv, NEW p \in Procs, PutSelf(p)
  PROVE  SureInv'
<1> DEFINE pc == Start(p)
           e == [op[p] EXCEPT !.pc = pc, !.sure = TRUE, !.item = None]
<1>1. /\ op[p].pc = "putSelf" /\ op' = [op EXCEPT ![p] = e]
      /\ store' = [store EXCEPT ![Self] = op[p].item] /\ ready' = TRUE
      /\ UNCHANGED <<init, dek>>
  BY DEF PutSelf, At
<1>2. init = None /\ op[p].item.sure /\ op[p] \in OpRecord /\ Self \in Names
  BY <1>1, TrustedFacts, ConstantsAssumption DEF Trusted
<1>3. pc \in Pcs /\ pc \in {"make", "find", "peer", "private"}
  BY DEF Start, Pcs
<1> HIDE DEF pc
<1>4. e \in OpRecord /\ e.pc = pc /\ e.item = None
  BY <1>2, <1>3 DEF OpRecord
<1> HIDE DEF e
<1>5. Trusted(e, init, ready')
  BY <1>1, <1>3, <1>4 DEF Trusted
<1> QED
  BY <1>1, <1>2, <1>4, <1>5, SureWrite

LEMMA WriteSure ==
  ASSUME IInv, SureInv, NEW p \in Procs, Put(p) \/ PutNew(p) \/ Drop(p), spoiled' = FALSE
  PROVE  SureInv'
<1>0. /\ UNCHANGED <<init, dek, ready>> /\ (ready = TRUE => init = None)
      /\ op[p] \in OpRecord /\ Trusted(op[p], init, ready)
      /\ op[p].name \in Names /\ (op[p].pc = "putNew" => op[p].new \in Names)
  BY ProcFacts, TrustedFacts DEF Put, PutNew, Drop, At, OpOK, Named, EngineUnchanged, SureInv
<1> DEFINE rd2 == ready'
<1>1. rd2 = ready /\ (ready = TRUE => rd2 = TRUE) /\ (rd2 = TRUE => init = None)
  BY <1>0
<1>2. Idle \in OpRecord /\ Idle.item = None /\ Trusted(Idle, init, rd2)
  BY IdleFacts, TrustedIdle
<1>3. CASE Put(p)
  <2>1. /\ op' = [op EXCEPT ![p] = Idle] /\ store' = [store EXCEPT ![op[p].name] = op[p].item]
        /\ op[p].name = Self => op[p].item.sure
    BY <1>3 DEF Put, Return
  <2> QED
    BY <1>0, <1>1, <1>2, <2>1, SureWrite
<1>4. CASE Drop(p)
  <2>1. op' = [op EXCEPT ![p] = Idle] /\ store' = [store EXCEPT ![op[p].name] = None]
    BY <1>4 DEF Drop, Return
  <2> QED
    BY <1>0, <1>1, <1>2, <2>1, SureWrite
<1>5. CASE PutNew(p)
  <2> DEFINE e == [op[p] EXCEPT !.pc = "drop"]
  <2>1. /\ op' = [op EXCEPT ![p] = e] /\ store' = [store EXCEPT ![op[p].new] = op[p].item]
        /\ op[p].new = Self => op[p].item.sure
        /\ op[p].new \in Names /\ "drop" \in Pcs
    BY <1>0, <1>5 DEF PutNew, NewFile, Goto, At, Pcs
  <2>2. e \in OpRecord /\ e.pc = "drop" /\ e.item = op[p].item /\ e.sure = op[p].sure
    BY <1>0, <2>1, SetPc
  <2> HIDE DEF e
  <2>3. Trusted(e, init, rd2)
    BY <1>0, <1>1, <2>2 DEF Trusted
  <2> QED
    BY <1>0, <1>1, <2>1, <2>2, <2>3, SureWrite
<1> QED
  BY <1>3, <1>4, <1>5

(* A call begins; the others go on with what they have in hand.            *)
LEMMA CallFields ==
  ASSUME IInv, NEW p \in Procs, Call(p)
  PROVE  \E r \in OpRecord :
           /\ meddled' = (meddled \/ (Self \in NamesOf(r) /\ (lazy # "none" \/ ~ready)))
           /\ \A q \in Procs :
                IF q = p
                  THEN /\ op'[q].pc = "test" /\ op'[q].item = None /\ op'[q].id = None
                       /\ op'[q].sure = FALSE /\ op'[q].kind # "swarm"
                       /\ NamesOf(op'[q]) = NamesOf(r)
                  ELSE /\ op'[q].pc = op[q].pc /\ op'[q].item = op[q].item /\ op'[q].id = op[q].id
                       /\ op'[q].sure = op[q].sure /\ op'[q].kind = op[q].kind
                       /\ NamesOf(op'[q]) = NamesOf(op[q])
<1>0. PICK n \in Names, m \in Names :
        \E r \in {Generate(n), Remove(n), Rename(n, m)} :
         LET others == {q \in Procs \ {p} : Busy(q) /\ NamesOf(op[q]) \cap NamesOf(r) # {}}
             mixing == IF others = {} THEN {} ELSE others \cup {p}
         IN /\ op' = [q \in Procs |-> [(IF q = p THEN r ELSE op[q])
                                          EXCEPT !.mixed = @ \/ q \in mixing]]
            /\ meddled' = (meddled \/ (Self \in NamesOf(r) /\ (lazy # "none" \/ ~ready)))
  BY DEF Call
<1>1. PICK r \in {Generate(n), Remove(n), Rename(n, m)} :
         LET others == {q \in Procs \ {p} : Busy(q) /\ NamesOf(op[q]) \cap NamesOf(r) # {}}
             mixing == IF others = {} THEN {} ELSE others \cup {p}
         IN /\ op' = [q \in Procs |-> [(IF q = p THEN r ELSE op[q])
                                          EXCEPT !.mixed = @ \/ q \in mixing]]
            /\ meddled' = (meddled \/ (Self \in NamesOf(r) /\ (lazy # "none" \/ ~ready)))
  BY <1>0
<1> DEFINE others == {q \in Procs \ {p} : Busy(q) /\ NamesOf(op[q]) \cap NamesOf(r) # {}}
           mixing == IF others = {} THEN {} ELSE others \cup {p}
           old(q) == IF q = p THEN r ELSE op[q]
           e(q) == [old(q) EXCEPT !.mixed = @ \/ q \in mixing]
<1>2. /\ op' = [q \in Procs |-> e(q)]
      /\ meddled' = (meddled \/ (Self \in NamesOf(r) /\ (lazy # "none" \/ ~ready)))
  BY <1>1
<1> HIDE DEF mixing
<1>3. /\ r.pc = "test" /\ r.item = None /\ r.id = None /\ r.sure = FALSE /\ r.kind # "swarm"
      /\ r \in OpRecord
  <2>1. r.pc = "test" /\ r.item = None /\ r.id = None /\ r.sure = FALSE /\ r.kind # "swarm"
    BY DEF Generate, Remove, Rename, Op
  <2>2. r \in OpRecord
    BY CallsFacts
  <2> QED
    BY <2>1, <2>2
<1>4. ASSUME NEW q \in Procs
      PROVE  /\ e(q).pc = old(q).pc /\ e(q).item = old(q).item /\ e(q).id = old(q).id
             /\ e(q).sure = old(q).sure /\ e(q).kind = old(q).kind
             /\ NamesOf(e(q)) = NamesOf(old(q))
  <2>1. old(q) \in OpRecord
    BY <1>3, ProcFacts
  <2> HIDE DEF old
  <2> QED
    BY <2>1 DEF OpRecord, NamesOf
<1> HIDE DEF e
<1>5. ASSUME NEW q \in Procs
      PROVE  IF q = p
               THEN /\ op'[q].pc = "test" /\ op'[q].item = None /\ op'[q].id = None
                    /\ op'[q].sure = FALSE /\ op'[q].kind # "swarm"
                    /\ NamesOf(op'[q]) = NamesOf(r)
               ELSE /\ op'[q].pc = op[q].pc /\ op'[q].item = op[q].item /\ op'[q].id = op[q].id
                    /\ op'[q].sure = op[q].sure /\ op'[q].kind = op[q].kind
                    /\ NamesOf(op'[q]) = NamesOf(op[q])
  BY <1>2, <1>3, <1>4
<1> QED
  BY <1>2, <1>3, <1>5

LEMMA CallSure ==
  ASSUME IInv, SureInv, NEW p \in Procs, Call(p)
  PROVE  SureInv'
<1>1. ASSUME NEW q \in Procs
      PROVE  /\ op'[q].pc = IF q = p THEN "test" ELSE op[q].pc
             /\ op'[q].item = IF q = p THEN None ELSE op[q].item
             /\ op'[q].sure = IF q = p THEN FALSE ELSE op[q].sure
  BY CallFields
<1>2. UNCHANGED <<store, init, dek, ready>>
  BY DEF Call, EngineUnchanged
<1>3. PICK f \in Phrases \cup {None} : SurePhrase(f)
  BY DEF SureInv
<1>4. SurePhrase(f)'
  BY <1>1, <1>2, <1>3 DEF SurePhrase, Sure
<1>5. ASSUME NEW q \in Procs PROVE Trusted(op[q], init, ready)'
  <2>1. Trusted(op[q], init, ready)
    BY DEF SureInv
  <2> QED
    BY <1>1, <1>2, <2>1 DEF Trusted
<1> QED
  BY <1>2, <1>4, <1>5 DEF SureInv

LEMMA StartSwarmSure ==
  ASSUME IInv, SureInv, NEW p \in Procs, StartSwarm(p)
  PROVE  SureInv'
<1>1. op' = [op EXCEPT ![p] = BuildSwarm] /\ UNCHANGED <<store, init, dek, ready>>
  BY DEF StartSwarm, EngineUnchanged, StoreUnchanged
<1> QED
  BY <1>1, SureReturn

LEMMA IdentitySure ==
  ASSUME IInv, SureInv, NEW p \in Procs, FindPeer(p) \/ PublicKey(p) \/ PrivateKey(p)
  PROVE  SureInv'
<1>1. UNCHANGED <<store, init, dek, ready>>
  BY DEF FindPeer, PublicKey, PrivateKey, EngineUnchanged, StoreUnchanged
<1>2. CASE Return(p)
  BY <1>1, <1>2, SureReturn DEF Return
<1>3. CASE Goto(p, "test")
  BY <1>1, <1>3, SureGoto
<1>4. CASE FindPeer(p) /\ store[Self] # None
  <2> DEFINE d == store[Self].id
             e == [op[p] EXCEPT !.pc = "public", !.id = d]
  <2>1. op' = [op EXCEPT ![p] = e]
    BY <1>4 DEF FindPeer
  <2>2. /\ d \in Ids \cup {None} /\ "public" \in Pcs /\ op[p] \in OpRecord
        /\ Trusted(op[p], init, ready)
    BY <1>4, StoreFacts, TrustedFacts DEF Pcs
  <2> HIDE DEF d
  <2>3. e \in OpRecord /\ e.pc = "public" /\ e.item = op[p].item /\ e.sure = op[p].sure
    BY <2>2 DEF OpRecord
  <2> HIDE DEF e
  <2> DEFINE rd2 == ready'
  <2>4. rd2 = ready
    BY <1>1
  <2>5. Trusted(e, init, rd2) /\ (ready = TRUE => rd2 = TRUE) /\ (rd2 = TRUE => init = None)
    BY <2>2, <2>3, <2>4 DEF Trusted, SureInv
  <2> QED
    BY <1>1, <2>1, <2>3, <2>5, SureQuiet
<1> QED
  BY <1>2, <1>3, <1>4 DEF FindPeer, PublicKey, PrivateKey, Throw

(* A new session has no key in hand, and its phrase is yet to be tried.    *)
LEMMA CrashSure ==
  ASSUME IInv, SureInv, Crash
  PROVE  SureInv'
<1>1. /\ \A p \in Procs : op'[p] = Idle
      /\ init' # None /\ ready' = FALSE /\ store' = store
  BY NoneFacts DEF Crash, StoreUnchanged
<1>2. PICK f \in Phrases \cup {None} : SurePhrase(f)
  BY DEF SureInv
<1>3. SurePhrase(f)'
  BY <1>1, <1>2, IdleFacts DEF SurePhrase, Sure
<1>4. ASSUME NEW q \in Procs PROVE Trusted(op[q], init, ready)'
  <2>1. Trusted(Idle, init', ready')
    BY TrustedIdle
  <2> QED
    BY <1>1, <2>1 DEF Trusted
<1> QED
  BY <1>1, <1>3, <1>4 DEF SureInv

LEMMA InitSure == Init => PInv
<1> SUFFICES ASSUME Init PROVE PInv
  OBVIOUS
<1>1. IInv
  BY InitInv
<1>2. init # None /\ ready = FALSE /\ Sound(store) /\ \A p \in Procs : op[p] = Idle
  BY NoneFacts, ConstantsAssumption DEF Init
<1>3. \E f \in Phrases \cup {None} : SurePhrase(f)
  <2>1. CASE store[Self] = None
    <3>1. SurePhrase(None)
      BY <1>2, <2>1, IdleFacts DEF SurePhrase, Sure, Sound
    <3> QED
      BY <3>1
  <2>2. CASE store[Self] # None
    <3> DEFINE f == store[Self].phrase
    <3>1. f \in Phrases \cup {None}
      BY <1>1, <2>2, StoreFacts DEF Entries
    <3>2. SurePhrase(f)
      BY <1>2, IdleFacts DEF SurePhrase, Sure, Sound
    <3> QED
      BY <3>1, <3>2
  <2> QED
    BY <2>1, <2>2
<1>4. \A p \in Procs : Trusted(op[p], init, ready)
  BY <1>2, TrustedIdle
<1>5. store[Self] # None => store[Self].sure
  BY <1>2, ConstantsAssumption DEF Sound
<1> QED
  BY <1>1, <1>2, <1>3, <1>4, <1>5 DEF PInv, SureInv

LEMMA NextSure == PInv /\ [Next]_vars => PInv'
<1> SUFFICES ASSUME PInv, [Next]_vars PROVE PInv'
  OBVIOUS
<1>1. IInv /\ IInv' /\ spoiled \in BOOLEAN
  BY NextInv, Types DEF PInv
<1>2. SUFFICES ASSUME spoiled' = FALSE PROVE SureInv'
  BY <1>1 DEF PInv
<1>3. CASE UNCHANGED vars
  <2>1. SureInv
    BY <1>2, <1>3 DEF vars, PInv
  <2> QED
    BY <1>3, <2>1 DEF vars, SureInv, SurePhrase, Sure, Trusted
<1>4. CASE Crash
  BY <1>1, <1>2, <1>4, CrashSure DEF PInv, Crash
<1>5. ASSUME NEW p \in Procs,
             \/ Call(p) \/ StartSwarm(p)
             \/ Test(p) \/ Create(p) \/ Phrase(p) \/ Derive(p) \/ Verify(p)
             \/ FindSelf(p) \/ MakeSelf(p) \/ PutSelf(p)
             \/ Make(p) \/ Put(p) \/ Find(p) \/ PutNew(p) \/ Drop(p)
             \/ FindPeer(p) \/ PublicKey(p) \/ PrivateKey(p)
      PROVE  SureInv'
  <2>1. spoiled = FALSE
    BY <1>1, <1>2, <1>5 DEF Call, StartSwarm, Test, Create, Phrase, Derive, Verify, FindSelf,
       MakeSelf, PutSelf, Make, Put, Find, PutNew, Drop, FindPeer, PublicKey, PrivateKey,
       CallsUnchanged
  <2>2. IInv /\ SureInv
    BY <2>1 DEF PInv
  <2> QED
    BY <1>2, <1>5, <2>2, CallSure, StartSwarmSure, KeyChainAsyncSure, VerifySure, IdentitySure,
       MakeSure, PutSelfSure, WriteSure, FindSure
<1> QED
  BY <1>3, <1>4, <1>5 DEF Next

(* Every key made after the key chain was set up can be read in every      *)
(* session whose key chain is set up, with the phrase of that session,     *)
(* whatever calls overlapped, whatever crashed and whatever phrases were   *)
(* tried in between; except once a phrase was tried when there were such   *)
(* keys but no Self (a user removed or renamed it), or a key made before   *)
(* the key chain was set up was stored as Self (spoiled).                  *)
THEOREM KeyChainReadable == Spec => []KeysStayReadable
<1>1. PInv => KeysStayReadable
  <2> SUFFICES ASSUME PInv, ready, ~spoiled, NEW n \in Names, Sure(store[n])
               PROVE  Readable(store[n])
    BY DEF KeysStayReadable
  <2>1. SureInv /\ ready = TRUE
    BY Types DEF PInv
  <2>2. PICK f \in Phrases \cup {None} : SurePhrase(f)
    BY <2>1 DEF SureInv
  <2> QED
    BY <2>1, <2>2 DEF SureInv, SurePhrase, Readable
<1> QED
  BY <1>1, InitSure, NextSure, PTL DEF Spec

-----------------------------------------------------------------------------
(* The keys a user was given.  A key pair that is about to be stored is    *)
(* nowhere else; two calls that use the same name are both known to; and a *)
(* rename nobody else mixes with still has, or has already copied, what is *)
(* stored under the old name, unless the user has given that up.           *)

Fresh(p) ==
  op[p].pc \in {"putSelf", "put"} =>
    /\ op[p].item.id \notin owned \cup IdsAt(Names)
    /\ \A q \in Procs \ {p} : op[q].item # None => op[q].item.id # op[p].item.id

Apart ==
  \A p, q \in Procs :
    p # q /\ Busy(p) /\ Busy(q) /\ NamesOf(op[p]) \cap NamesOf(op[q]) # {} =>
      op[p].mixed = TRUE /\ op[q].mixed = TRUE

Moving(r, pc) == r.pc = pc /\ r.kind = "rename" /\ r.mixed = FALSE /\ r.new # r.name

(* The key stored under n is still in the user's hands.                    *)
OwnedAt(n) == store[n] # None /\ store[n].id \in owned

InHand(r) ==
  Moving(r, "putNew") /\ OwnedAt(r.name) => store[r.name].id = r.item.id

Copied(r) ==
  Moving(r, "drop") /\ OwnedAt(r.name) =>
    store[r.new] # None /\ store[r.new].id = store[r.name].id

KeptInv ==
  /\ KeyKept /\ Apart
  /\ \A p \in Procs : Fresh(p) /\ InHand(op[p]) /\ Copied(op[p])

KInv == IInv /\ KeptInv

(* What the call was asked to do does not change on its way.               *)
Same(e, r) == e.kind = r.kind /\ e.name = r.name /\ e.new = r.new /\ e.mixed = r.mixed

LEMMA EditPc ==
  ASSUME NEW r \in OpRecord, NEW pc \in Pcs
  PROVE  LET e == [r EXCEPT !.pc = pc] IN
         e \in OpRecord /\ Same(e, r) /\ e.pc = pc /\ e.item = r.item /\ e.id = r.id
BY DEF OpRecord, Same

LEMMA EditDone ==
  ASSUME NEW r \in OpRecord, NEW pc \in Pcs
  PROVE  LET e == [r EXCEPT !.pc = pc, !.sure = TRUE, !.item = None] IN
         e \in OpRecord /\ Same(e, r) /\ e.pc = pc /\ e.item = None /\ e.id = r.id
BY DEF OpRecord, Same

LEMMA SameNames ==
  ASSUME NEW e, NEW r, Same(e, r)
  PROVE  NamesOf(e) = NamesOf(r) /\ e.mixed = r.mixed
BY DEF Same, NamesOf

LEMMA IdleNames == NamesOf(Idle) = {} /\ NamesOf(BuildSwarm) = {} /\ BuildSwarm \in OpRecord
                   /\ Idle.pc = "idle" /\ BuildSwarm.pc = "test"
                   /\ Idle.item = None /\ BuildSwarm.item = None
                   /\ Idle.id = None /\ BuildSwarm.id = None
BY NoneFacts DEF NamesOf, Idle, BuildSwarm, Op, OpRecord, Pcs

(* How one call moves: it ends or begins, or goes on as it was asked to.   *)
GoesOn(r, p) == r \in {Idle, BuildSwarm} \/ (Busy(p) /\ Same(r, op[p]))

LEMMA ApartMove ==
  ASSUME IInv, Apart, NEW p \in Procs, NEW r \in OpRecord, op' = [op EXCEPT ![p] = r], GoesOn(r, p)
  PROVE  Apart'
<1> SUFFICES ASSUME NEW a \in Procs, NEW b \in Procs, a # b, Busy(a)', Busy(b)',
                    NamesOf(op'[a]) \cap NamesOf(op'[b]) # {}
             PROVE  op'[a].mixed = TRUE /\ op'[b].mixed = TRUE
  BY DEF Apart
<1>1. \A q \in Procs : op'[q] = IF q = p THEN r ELSE op[q]
  BY ProcFacts
<1>2. ASSUME NEW q \in Procs, Busy(q)', NamesOf(op'[q]) # {}
      PROVE  Busy(q) /\ NamesOf(op'[q]) = NamesOf(op[q]) /\ op'[q].mixed = op[q].mixed
  BY <1>1, <1>2, IdleNames, SameNames DEF GoesOn, Busy, At
<1>3. NamesOf(op'[a]) # {} /\ NamesOf(op'[b]) # {}
  OBVIOUS
<1> QED
  BY <1>2, <1>3 DEF Apart

(* One call moves and the store is as it was.                              *)
LEMMA KeptMove ==
  ASSUME KInv, NEW p \in Procs, NEW r \in OpRecord, op' = [op EXCEPT ![p] = r],
         GoesOn(r, p), store' = store, owned' = owned,
         r.pc \in {"putSelf", "put"} => r.item.id \notin owned \cup IdsAt(Names),
         r.item # None =>
           \A q \in Procs \ {p} :
             /\ op[q].pc \in {"putSelf", "put"} => r.item.id # op[q].item.id
             /\ r.pc \in {"putSelf", "put"} /\ op[q].item # None => r.item.id # op[q].item.id,
         r.pc \in {"putSelf", "put"} => r.item # None,
         InHand(r), Copied(r)
  PROVE  KeptInv'
<1>0. IInv /\ KeyKept /\ Apart /\ \A q \in Procs : Fresh(q) /\ InHand(op[q]) /\ Copied(op[q])
  BY DEF KInv, KeptInv
<1>1. \A q \in Procs : op'[q] = IF q = p THEN r ELSE op[q]
  BY <1>0, ProcFacts
<1>2. Apart'
  BY <1>0, ApartMove
<1>3. KeyKept' /\ IdsAt(Names)' = IdsAt(Names)
  BY <1>0 DEF KeyKept, IdsAt
<1>4. ASSUME NEW q \in Procs PROVE InHand(op[q])' /\ Copied(op[q])'
  <2>1. InHand(op'[q]) /\ Copied(op'[q])
    BY <1>0, <1>1
  <2> QED
    BY <2>1 DEF InHand, Copied, OwnedAt
<1>5. ASSUME NEW q \in Procs PROVE Fresh(q)'
  <2>1. CASE q = p
    BY <1>0, <1>1, <1>3, <2>1 DEF Fresh
  <2>2. CASE q # p
    BY <1>0, <1>1, <1>3, <2>2 DEF Fresh
  <2> QED
    BY <2>1, <2>2
<1> QED
  BY <1>2, <1>3, <1>4, <1>5 DEF KeptInv

(* p writes what it has in hand, or removes a file: a name of its own, or  *)
(* one with which nothing that is owned comes or goes.                     *)
LEMMA KeptWrite ==
  ASSUME KInv, NEW p \in Procs, NEW r \in OpRecord, op' = [op EXCEPT ![p] = r], GoesOn(r, p),
         r.pc \notin {"putSelf", "put", "putNew"}, r.item # None => r.item = op[p].item,
         Busy(p), NEW n \in Names, NEW key, store' = [store EXCEPT ![n] = key],
         key # None => key = op[p].item,
         owned' \subseteq owned \cup {op[p].item.id},
         owned' \subseteq owned \/ op[p].pc = "put",
         \/ n \in NamesOf(op[p])
         \/ key # None /\ key.id \notin owned' /\ (store[n] # None => store[n].id \notin owned'),
         KeyKept',
         Moving(r, "drop") /\ store'[r.name] # None /\ store'[r.name].id \in owned' =>
           store'[r.new] # None /\ store'[r.new].id = store'[r.name].id
  PROVE  KeptInv'
<1>0. /\ IInv /\ Apart /\ \A q \in Procs : Fresh(q) /\ InHand(op[q]) /\ Copied(op[q])
      /\ store \in [Names -> Entries \cup {None}]
  BY StoreFacts DEF KInv, KeptInv
<1>1. \A q \in Procs : op'[q] = IF q = p THEN r ELSE op[q]
  BY <1>0, ProcFacts
<1>2. Apart'
  BY <1>0, ApartMove
<1>3. \A m \in Names : store'[m] = IF m = n THEN key ELSE store[m]
  BY <1>0
<1>4. ASSUME NEW q \in Procs, q # p, op[q].pc \in {"putSelf", "put"}, NEW m \in Names,
             store'[m] # None
      PROVE  store'[m].id # op[q].item.id
  <2>1. store[m] # None => store[m].id # op[q].item.id
    BY <1>0, <1>4 DEF Fresh, IdsAt
  <2>2. op[p].item # None => op[p].item.id # op[q].item.id
    BY <1>0, <1>4 DEF Fresh
  <2> QED
    BY <1>3, <1>4, <2>1, <2>2, NoneFacts
<1>5. ASSUME NEW q \in Procs PROVE Fresh(q)'
  <2>1. CASE q = p
    BY <1>1, <2>1 DEF Fresh
  <2>2. CASE q # p
    <3> SUFFICES ASSUME op[q].pc \in {"putSelf", "put"} PROVE Fresh(q)'
      BY <1>1, <2>2 DEF Fresh
    <3>1. op[q].item.id \notin IdsAt(Names)'
      BY <1>4, <2>2 DEF IdsAt
    <3>2. op[q].item.id \notin owned'
      <4>1. op[q].item.id \notin owned
        BY <1>0 DEF Fresh
      <4>2. CASE owned' \subseteq owned
        BY <4>1, <4>2
      <4>3. CASE op[p].pc = "put"
        <5>1. op[p].item # None
          BY <1>0, <4>3, ProcFacts DEF OpOK
        <5>2. op[q].item.id # op[p].item.id
          BY <1>0, <2>2, <5>1 DEF Fresh
        <5> QED
          BY <4>1, <5>2
      <4> QED
        BY <4>2, <4>3
    <3>3. \A o \in Procs \ {q} : op'[o].item # None => op'[o].item.id # op[q].item.id
      BY <1>0, <1>1, <2>2 DEF Fresh
    <3> QED
      BY <1>1, <2>2, <3>1, <3>2, <3>3 DEF Fresh
  <2> QED
    BY <2>1, <2>2
<1>6. ASSUME NEW q \in Procs, q # p, NEW m \in Names, m \in NamesOf(op[q]), Busy(q),
             op[q].mixed = FALSE, m = n
      PROVE  n \notin NamesOf(op[p])
  BY <1>0, <1>6 DEF Apart
<1>7. ASSUME NEW m \in Names, store[m] # None, store[m].id \in owned' PROVE store[m].id \in owned
  <2>1. CASE owned' \subseteq owned
    BY <1>7, <2>1
  <2>2. CASE op[p].pc = "put"
    <3>1. store[m].id # op[p].item.id
      BY <1>0, <1>7, <2>2 DEF Fresh, IdsAt
    <3> QED
      BY <1>7, <3>1
  <2> QED
    BY <2>1, <2>2
<1>8. ASSUME NEW q \in Procs, q # p, NEW pc \in {"putNew", "drop"}, Moving(op[q], pc), OwnedAt(op[q].name)'
      PROVE  /\ op[q].name # n /\ op[q].name \in Names /\ op[q].new \in Names
             /\ store'[op[q].name] = store[op[q].name] /\ OwnedAt(op[q].name)
             /\ op[q].new = n /\ store[n] # None => store[n].id \notin owned'
  <2>1. /\ op[q].name \in Names /\ op[q].new \in Names /\ Busy(q) /\ op[q].mixed = FALSE
        /\ op[q].name \in NamesOf(op[q]) /\ op[q].new \in NamesOf(op[q])
    BY <1>0, <1>8, ProcFacts, NoneFacts DEF Moving, OpOK, Named, Busy, At, NamesOf
  <2>2. op[q].name # n
    <3> SUFFICES ASSUME op[q].name = n PROVE FALSE
      OBVIOUS
    <3>1. key # None /\ key.id \notin owned'
      BY <1>6, <1>8, <2>1
    <3>2. store'[n] = key
      BY <1>3
    <3> QED
      BY <1>8, <3>1, <3>2 DEF OwnedAt
  <2>3. store'[op[q].name] = store[op[q].name]
    BY <1>3, <2>1, <2>2
  <2>4. OwnedAt(op[q].name)
    BY <1>7, <1>8, <2>1, <2>3 DEF OwnedAt
  <2>5. op[q].new = n /\ store[n] # None => store[n].id \notin owned'
    BY <1>6, <1>8, <2>1
  <2> QED
    BY <2>1, <2>2, <2>3, <2>4, <2>5
<1>9. ASSUME NEW q \in Procs PROVE InHand(op[q])'
  <2>1. CASE q = p
    BY <1>1, <2>1 DEF InHand, Moving
  <2>2. CASE q # p
    <3> SUFFICES ASSUME Moving(op[q], "putNew"), OwnedAt(op[q].name)'
                 PROVE  store'[op[q].name].id = op[q].item.id
      BY <1>1, <2>2 DEF InHand, OwnedAt
    <3>1. store'[op[q].name] = store[op[q].name] /\ OwnedAt(op[q].name)
      BY <1>8, <2>2
    <3> QED
      BY <1>0, <3>1 DEF InHand
  <2> QED
    BY <2>1, <2>2
<1>10. ASSUME NEW q \in Procs PROVE Copied(op[q])'
  <2>1. CASE q = p
    BY <1>1, <2>1 DEF Copied, OwnedAt
  <2>2. CASE q # p
    <3> SUFFICES ASSUME Moving(op[q], "drop"), OwnedAt(op[q].name)'
                 PROVE  store'[op[q].new] # None /\ store'[op[q].new].id = store'[op[q].name].id
      BY <1>1, <2>2 DEF Copied, OwnedAt
    <3>1. /\ store'[op[q].name] = store[op[q].name] /\ OwnedAt(op[q].name)
          /\ op[q].new \in Names
          /\ op[q].new = n /\ store[n] # None => store[n].id \notin owned'
      BY <1>8, <2>2
    <3>2. store[op[q].new] # None /\ store[op[q].new].id = store[op[q].name].id
      BY <1>0, <3>1 DEF Copied
    <3>3. op[q].new # n
      BY <1>1, <2>2, <3>1, <3>2 DEF OwnedAt
    <3> QED
      BY <1>3, <3>1, <3>2, <3>3
  <2> QED
    BY <2>1, <2>2
<1> QED
  BY <1>2, <1>5, <1>9, <1>10 DEF KeptInv

QuietPcs == {"test", "create", "phrase", "derive", "verify", "findSelf", "makeSelf",
             "make", "find", "peer", "public", "private"}

(* The call goes on to a point where it has nothing in hand to store.      *)
LEMMA KeptGoto ==
  ASSUME KInv, NEW p \in Procs, Busy(p), NEW r \in OpRecord, op' = [op EXCEPT ![p] = r],
         Same(r, op[p]), r.item = op[p].item,
         r.pc \in QuietPcs \/ (r.pc = "drop" /\ r.kind = "remove"),
         store' = store, owned' = owned
  PROVE  KeptInv'
<1>1. \A q \in Procs : Fresh(q)
  BY DEF KInv, KeptInv
<1>2. r.item # None => \A q \in Procs \ {p} :
        op[q].pc \in {"putSelf", "put"} => r.item.id # op[q].item.id
  BY <1>1 DEF Fresh
<1>3. r.pc \notin {"putSelf", "put"} /\ InHand(r) /\ Copied(r)
  BY DEF QuietPcs, InHand, Copied, Moving
<1> QED
  BY <1>2, <1>3, KeptMove DEF GoesOn

(* The call ends, or the first use of SwarmService begins.                 *)
LEMMA KeptEnd ==
  ASSUME KInv, NEW p \in Procs, NEW r \in {Idle, BuildSwarm}, op' = [op EXCEPT ![p] = r],
         store' = store, owned' = owned
  PROVE  KeptInv'
<1>1. r \in OpRecord /\ r.item = None /\ r.pc \in {"idle", "test"}
  BY IdleNames, IdleFacts
<1>2. InHand(r) /\ Copied(r)
  BY <1>1 DEF InHand, Copied, Moving
<1> HIDE DEF KInv
<1> QED
  BY <1>1, <1>2, KeptMove DEF GoesOn

LEMMA StartPcs == ASSUME NEW p \in Procs PROVE Start(p) \in QuietPcs /\ Start(p) \in Pcs
BY DEF Start, QuietPcs, Pcs

LEMMA QuietKept ==
  ASSUME KInv, NEW p \in Procs,
         \/ StartSwarm(p) \/ Test(p) \/ Create(p) \/ Phrase(p) \/ Derive(p) \/ Verify(p)
         \/ FindSelf(p) \/ FindPeer(p) \/ PublicKey(p) \/ PrivateKey(p)
  PROVE  KeptInv'
<1>0. store' = store /\ owned' = owned
  BY DEF StartSwarm, Test, Create, Phrase, Derive, Verify, FindSelf, FindPeer, PublicKey,
     PrivateKey, StoreUnchanged
<1>1. op[p] \in OpRecord /\ ready \in BOOLEAN
  BY ProcFacts, Types DEF KInv
<1>2. CASE Return(p) \/ StartSwarm(p)
  BY <1>0, <1>2, KeptEnd DEF Return, StartSwarm
<1>3. ASSUME NEW pc \in QuietPcs, Goto(p, pc), Busy(p) PROVE KeptInv'
  <2> DEFINE e == [op[p] EXCEPT !.pc = pc]
  <2>1. pc \in Pcs
    BY DEF QuietPcs, Pcs
  <2>2. e \in OpRecord /\ Same(e, op[p]) /\ e.pc = pc /\ e.item = op[p].item
    BY <1>1, <2>1, EditPc
  <2>3. op' = [op EXCEPT ![p] = e]
    BY <1>3 DEF Goto
  <2> HIDE DEF e
  <2> QED
    BY <1>0, <1>3, <2>2, <2>3, KeptGoto
<1>4. ASSUME NEW s \in BOOLEAN, Enter(p, s), Busy(p) PROVE KeptInv'
  <2> DEFINE pc == Start(p)
             e == [op[p] EXCEPT !.pc = pc, !.sure = s]
  <2>1. pc \in QuietPcs /\ pc \in Pcs
    BY StartPcs
  <2>3. op' = [op EXCEPT ![p] = e]
    BY <1>4 DEF Enter
  <2> HIDE DEF pc
  <2>2. e \in OpRecord /\ Same(e, op[p]) /\ e.pc = pc /\ e.item = op[p].item
    BY <1>1, <2>1 DEF OpRecord, Same
  <2> HIDE DEF e
  <2> QED
    BY <1>0, <1>4, <2>1, <2>2, <2>3, KeptGoto
<1>5. CASE Test(p) \/ Create(p) \/ Phrase(p) \/ Derive(p) \/ Verify(p) \/ FindSelf(p) \/ PublicKey(p)
  <2>1. Busy(p)
    BY <1>5 DEF Busy, At, Test, Create, Phrase, Derive, Verify, FindSelf, PublicKey
  <2>2. Return(p) \/ Enter(p, ready) \/ Enter(p, TRUE) \/ \E pc \in QuietPcs : Goto(p, pc)
    BY <1>5 DEF Test, Create, Phrase, Derive, Verify, FindSelf, PublicKey, Throw, QuietPcs
  <2> QED
    BY <1>1, <1>2, <1>3, <1>4, <2>1, <2>2
<1>6. CASE FindPeer(p) /\ ~Return(p)
  <2> DEFINE d == store[Self].id
             e == [op[p] EXCEPT !.pc = "public", !.id = d]
  <2>1. Busy(p) /\ op' = [op EXCEPT ![p] = e] /\ store[Self] # None
    BY <1>6 DEF FindPeer, At, Busy, Throw
  <2>2. d \in Ids \cup {None}
    BY <2>1, StoreFacts DEF KInv
  <2>3. "public" \in Pcs /\ "public" \in QuietPcs
    BY DEF Pcs, QuietPcs
  <2> HIDE DEF d
  <2>4. e \in OpRecord /\ Same(e, op[p]) /\ e.pc = "public" /\ e.item = op[p].item
    BY <1>1, <2>2, <2>3 DEF OpRecord, Same
  <2> HIDE DEF e
  <2> QED
    BY <1>0, <2>1, <2>3, <2>4, KeptGoto
<1>7. CASE PrivateKey(p)
  BY <1>2, <1>7 DEF PrivateKey, Throw
<1> QED
  BY <1>2, <1>5, <1>6, <1>7

LEMMA NewIdIsNew == ASSUME ~(Ids \subseteq Seen) PROVE NewId \in Ids /\ NewId \notin Seen
BY DEF NewId

(* A new key pair is in hand.                                              *)
LEMMA MakeKept ==
  ASSUME KInv, NEW p \in Procs, MakeSelf(p) \/ Make(p)
  PROVE  KeptInv'
<1>0. store' = store /\ owned' = owned /\ Busy(p) /\ ~(Ids \subseteq Seen)
  BY DEF MakeSelf, Make, StoreUnchanged, Busy, At
<1>1. PICK pc \in {"putSelf", "put"}, n \in Names, s \in BOOLEAN :
        op' = [op EXCEPT ![p].pc = pc, ![p].item = NewEntry(n, s)]
  <2>1. CASE MakeSelf(p)
    BY <2>1, ConstantsAssumption DEF MakeSelf
  <2>2. CASE Make(p)
    <3>1. op[p].name \in Names /\ op[p].sure \in BOOLEAN
      BY <2>2, ProcFacts, OpTypes DEF KInv, Make, At, OpOK, Named
    <3> QED
      BY <2>2, <3>1 DEF Make
  <2> QED
    BY <2>1, <2>2
<1> DEFINE i == NewEntry(n, s)
           e == [op[p] EXCEPT !.pc = pc, !.item = i]
<1>2. op' = [op EXCEPT ![p] = e]
  BY <1>1
<1>3. i \in Entries /\ i \in Entries \cup {None} /\ i # None
  BY <1>0, NewEntryFacts, NoneFacts DEF KInv
<1>4. i.id \notin owned \cup IdsAt(Names) /\ \A q \in Procs : op[q].item # None => i.id # op[q].item.id
  BY <1>0, NewIdIsNew DEF NewEntry, Seen
<1>5. op[p] \in OpRecord /\ pc \in Pcs
      /\ \A q \in Procs : op[q].pc \in {"putSelf", "put"} => op[q].item # None
  BY ProcFacts DEF KInv, Pcs, OpOK
<1> HIDE DEF i
<1>6. e \in OpRecord /\ Same(e, op[p]) /\ e.pc = pc /\ e.item = i
  BY <1>3, <1>5 DEF OpRecord, Same
<1> HIDE DEF e
<1>7. InHand(e) /\ Copied(e)
  BY <1>6 DEF InHand, Copied, Moving
<1> QED
  BY <1>0, <1>2, <1>3, <1>4, <1>5, <1>6, <1>7, KeptMove DEF GoesOn

(* The key that is to be renamed is in hand.                               *)
LEMMA FindKept ==
  ASSUME KInv, NEW p \in Procs, Find(p)
  PROVE  KeptInv'
<1> DEFINE key == store[op[p].name]
<1>1. /\ op[p].pc = "find" /\ op[p].kind \in {"remove", "rename"} /\ op[p].name \in Names
      /\ op[p].kind = "rename" => op[p].new \in Names
      /\ store' = store /\ owned' = owned /\ Busy(p) /\ op[p] \in OpRecord
  BY ProcFacts DEF KInv, Find, At, Busy, OpOK, Named, StoreUnchanged
<1>2. CASE key = None
  BY <1>1, <1>2, KeptEnd DEF Find, Return
<1>3. CASE key # None /\ op[p].kind = "remove"
  <2> DEFINE e == [op[p] EXCEPT !.pc = "drop"]
  <2>1. "drop" \in Pcs
    BY DEF Pcs
  <2>2. e \in OpRecord /\ Same(e, op[p]) /\ e.pc = "drop" /\ e.item = op[p].item
    BY <1>1, <2>1, EditPc
  <2>3. op' = [op EXCEPT ![p] = e]
    BY <1>3 DEF Find, Goto
  <2>4. e.kind = "remove"
    BY <1>3, <2>2 DEF Same
  <2> HIDE DEF e
  <2> QED
    BY <1>1, <2>2, <2>3, <2>4, KeptGoto
<1>4. CASE key # None /\ op[p].kind = "rename"
  <2> DEFINE i == Renamed(key, op[p].new)
             e == [op[p] EXCEPT !.pc = "putNew", !.item = i]
  <2>1. op' = [op EXCEPT ![p] = e]
    BY <1>4 DEF Find
  <2>2. key \in Entries
    BY <1>1, <1>4, StoreFacts DEF KInv
  <2>3. i \in Entries \cup {None} /\ i.id = key.id
    BY <1>1, <1>4, <2>2 DEF Renamed, Entries
  <2>4. "putNew" \in Pcs
    BY DEF Pcs
  <2> HIDE DEF i
  <2>5. e \in OpRecord /\ Same(e, op[p]) /\ e.pc = "putNew" /\ e.item = i
    BY <1>1, <2>3, <2>4 DEF OpRecord, Same
  <2> HIDE DEF e
  <2>6. \A q \in Procs : op[q].pc \in {"putSelf", "put"} => key.id # op[q].item.id
    <3>1. key.id \in IdsAt(Names)
      BY <1>1, <1>4 DEF IdsAt
    <3> QED
      BY <3>1 DEF KInv, KeptInv, Fresh
  <2>7. InHand(e) /\ Copied(e)
    BY <2>3, <2>5 DEF InHand, Copied, Moving, Same
  <2> HIDE DEF key
  <2> QED
    BY <1>1, <2>1, <2>3, <2>5, <2>6, <2>7, KeptMove DEF GoesOn
<1> QED
  BY <1>1, <1>2, <1>3, <1>4

-----------------------------------------------------------------------------
(* The steps that write.                                                   *)

(* What is owned is still stored: it was under another name, or it is what *)
(* is written.                                                             *)
Elsewhere(i, n) == \E m \in Names \ {n} : store[m] # None /\ store[m].id = i

LEMMA StillStored ==
  ASSUME IInv, NEW n \in Names, NEW key, store' = [store EXCEPT ![n] = key],
         \A i \in owned' : Elsewhere(i, n) \/ (key # None /\ key.id = i)
  PROVE  KeyKept'
<1>1. \A m \in Names : store'[m] = IF m = n THEN key ELSE store[m]
  BY StoreFacts
<1> SUFFICES ASSUME NEW i \in owned' PROVE \E m \in Names : store'[m] # None /\ store'[m].id = i
  BY DEF KeyKept, IdsAt
<1>2. CASE key # None /\ key.id = i
  BY <1>1, <1>2
<1>3. CASE Elsewhere(i, n)
  BY <1>1, <1>3 DEF Elsewhere
<1> QED
  BY <1>2, <1>3

(* A key that is owned is stored under n or under another name.            *)
LEMMA WhereOwned ==
  ASSUME KInv, NEW n \in Names, NEW i \in owned
  PROVE  (i \in IdsAt({n}) /\ store[n] # None /\ store[n].id = i)
         \/ Elsewhere(i, n)
BY DEF Elsewhere, KInv, KeptInv, KeyKept, IdsAt

LEMMA NotAt ==
  ASSUME NEW n \in Names
  PROVE  IdsAt({n}) = IF store[n] # None THEN {store[n].id} ELSE {}
BY DEF IdsAt

LEMMA PutSelfKept ==
  ASSUME KInv, NEW p \in Procs, PutSelf(p)
  PROVE  KeptInv'
<1> DEFINE pc == Start(p)
           e == [op[p] EXCEPT !.pc = pc, !.sure = TRUE, !.item = None]
<1>1. /\ op[p].pc = "putSelf" /\ Busy(p) /\ op' = [op EXCEPT ![p] = e]
      /\ store' = [store EXCEPT ![Self] = op[p].item] /\ owned' = owned \ IdsAt({Self})
  BY DEF PutSelf, At, Busy
<1>2. pc \in Pcs /\ pc \in QuietPcs /\ op[p] \in OpRecord /\ op[p].item # None /\ Self \in Names
  BY <1>1, StartPcs, ProcFacts, ConstantsAssumption DEF KInv, OpOK
<1> HIDE DEF pc
<1>3. e \in OpRecord /\ Same(e, op[p]) /\ e.pc = pc /\ e.item = None
  BY <1>2, EditDone
<1> HIDE DEF e
<1>4. op[p].item.id \notin owned
  BY <1>1 DEF KInv, KeptInv, Fresh
<1>5. KeyKept'
  <2>1. IInv
    BY DEF KInv
  <2>2. \A i \in owned' : Elsewhere(i, Self)
    BY <1>1, <1>2, WhereOwned
  <2> QED
    BY <1>1, <1>2, <2>1, <2>2, StillStored
<1>6. store[Self] # None => store[Self].id \notin owned'
  BY <1>1, <1>2, NotAt
<1>7. ~Moving(e, "drop")
  BY <1>2, <1>3 DEF Moving, QuietPcs
<1>8. e.pc \notin {"putSelf", "put", "putNew"}
  BY <1>2, <1>3 DEF QuietPcs
<1> QED
  BY <1>1, <1>2, <1>3, <1>4, <1>5, <1>6, <1>7, <1>8, KeptWrite DEF GoesOn

LEMMA PutKept ==
  ASSUME KInv, NEW p \in Procs, Put(p)
  PROVE  KeptInv'
<1> DEFINE n == op[p].name
           key == op[p].item
<1>1. /\ op[p].pc = "put" /\ Busy(p) /\ op' = [op EXCEPT ![p] = Idle]
      /\ store' = [store EXCEPT ![n] = key]
      /\ owned' \subseteq (owned \ IdsAt({n})) \cup {key.id}
  BY DEF Put, Return, At, Busy
<1>2. n \in Names /\ n \in NamesOf(op[p]) /\ key # None
  BY <1>1, ProcFacts, NoneFacts DEF KInv, OpOK, Named, NamesOf
<1>3. KeyKept'
  <2>1. IInv
    BY DEF KInv
  <2>2. \A i \in owned' : Elsewhere(i, n) \/ (key # None /\ key.id = i)
    BY <1>1, <1>2, WhereOwned
  <2>3. store' = [store EXCEPT ![n] = key] /\ n \in Names
    BY <1>1, <1>2
  <2> HIDE DEF n, key
  <2> QED
    BY <2>1, <2>2, <2>3, StillStored
<1>4. ~Moving(Idle, "drop") /\ Idle \in OpRecord /\ Idle.pc = "idle" /\ Idle.item = None
  BY IdleNames, IdleFacts DEF Moving
<1>5. owned' \subseteq owned \cup {op[p].item.id}
  BY <1>1
<1> HIDE DEF KInv
<1> QED
  BY <1>1, <1>2, <1>3, <1>4, <1>5, KeptWrite DEF GoesOn

LEMMA PutNewKept ==
  ASSUME KInv, NEW p \in Procs, PutNew(p)
  PROVE  KeptInv'
<1> DEFINE n == op[p].new
           key == op[p].item
           e == [op[p] EXCEPT !.pc = "drop"]
<1>1. /\ op[p].pc = "putNew" /\ Busy(p) /\ op' = [op EXCEPT ![p] = e]
      /\ store' = [store EXCEPT ![n] = key]
      /\ owned' = owned \ (IdsAt({n}) \ {key.id})
  BY DEF PutNew, NewFile, Goto, At, Busy
<1>2. /\ n \in Names /\ n \in NamesOf(op[p]) /\ key # None /\ op[p] \in OpRecord
      /\ "drop" \in Pcs /\ op[p].name \in Names
  BY <1>1, ProcFacts, NoneFacts DEF KInv, OpOK, Named, NamesOf, Pcs
<1>3. e \in OpRecord /\ Same(e, op[p]) /\ e.pc = "drop" /\ e.item = op[p].item
  BY <1>2, EditPc
<1> HIDE DEF e
<1>4. IInv
  BY DEF KInv
<1>5. KeyKept'
  <2>2. \A i \in owned' : Elsewhere(i, n) \/ (key # None /\ key.id = i)
    BY <1>1, <1>2, WhereOwned
  <2> HIDE DEF n, key
  <2> QED
    BY <1>1, <1>2, <1>4, <2>2, StillStored
<1>6. \A m \in Names : store'[m] = IF m = n THEN key ELSE store[m]
  BY <1>1, <1>4, StoreFacts
<1>7. ASSUME Moving(e, "drop"), store'[e.name] # None, store'[e.name].id \in owned'
      PROVE  store'[e.new] # None /\ store'[e.new].id = store'[e.name].id
  <2>1. e.name = op[p].name /\ e.new = n /\ Moving(op[p], "putNew")
    BY <1>1, <1>3, <1>7 DEF Moving, Same
  <2>2. store'[e.name] = store[op[p].name] /\ store'[e.new] = key
    BY <1>2, <1>6, <2>1 DEF Moving
  <2>3. OwnedAt(op[p].name)
    BY <1>1, <1>7, <2>2 DEF OwnedAt
  <2>4. store[op[p].name].id = key.id
    BY <2>1, <2>3 DEF KInv, KeptInv, InHand
  <2> QED
    BY <1>2, <2>2, <2>4
<1> QED
  BY <1>1, <1>2, <1>3, <1>5, <1>7, KeptWrite DEF GoesOn

LEMMA DropKept ==
  ASSUME KInv, NEW p \in Procs, Drop(p)
  PROVE  KeptInv'
<1> DEFINE n == op[p].name
<1>1. /\ op[p].pc = "drop" /\ Busy(p) /\ op' = [op EXCEPT ![p] = Idle]
      /\ store' = [store EXCEPT ![n] = None]
      /\ owned' = IF GivesUp(op[p]) THEN owned \ IdsAt({n}) ELSE owned
  BY DEF Drop, Return, At, Busy
<1>2. /\ n \in Names /\ n \in NamesOf(op[p]) /\ op[p].kind \in {"remove", "rename"}
      /\ op[p].kind = "rename" => op[p].new \in Names
      /\ op[p].mixed \in BOOLEAN
  BY <1>1, ProcFacts, OpTypes, NoneFacts DEF KInv, OpOK, Named, NamesOf
<1>3. KeyKept'
  <2>1. IInv
    BY DEF KInv
  <2>2. ASSUME NEW i \in owned'
        PROVE  Elsewhere(i, n)
    <3>1. i \in owned
      BY <1>1
    <3>2. CASE GivesUp(op[p])
      BY <1>1, <1>2, <3>1, <3>2, WhereOwned
    <3>3. CASE ~GivesUp(op[p]) /\ store[n] # None /\ store[n].id = i
      <4>1. Moving(op[p], "drop") /\ OwnedAt(n)
        BY <1>1, <1>2, <3>1, <3>3 DEF GivesUp, Moving, OwnedAt
      <4>2. store[op[p].new] # None /\ store[op[p].new].id = i
        BY <3>3, <4>1 DEF KInv, KeptInv, Copied
      <4> QED
        BY <1>2, <4>1, <4>2 DEF Moving, Elsewhere
    <3> QED
      BY <1>2, <3>1, <3>2, <3>3, WhereOwned
  <2> HIDE DEF n
  <2> QED
    BY <1>1, <1>2, <2>1, <2>2, StillStored
<1>4. ~Moving(Idle, "drop") /\ Idle \in OpRecord /\ Idle.pc = "idle" /\ Idle.item = None
  BY IdleNames, IdleFacts DEF Moving
<1>5. owned' \subseteq owned
  BY <1>1
<1> HIDE DEF KInv
<1> QED
  BY <1>1, <1>2, <1>3, <1>4, <1>5, KeptWrite DEF GoesOn

(* A new call: the calls that use one of its names are mixed from now on,  *)
(* and what is stored under these names is no longer promised.             *)
LEMMA CallKept ==
  ASSUME KInv, NEW p \in Procs, Call(p)
  PROVE  KeptInv'
<1>0. PICK n \in Names, m \in Names :
        \E r \in {Generate(n), Remove(n), Rename(n, m)} :
         LET others == {q \in Procs \ {p} : Busy(q) /\ NamesOf(op[q]) \cap NamesOf(r) # {}}
             mixing == IF others = {} THEN {} ELSE others \cup {p}
             held == {op[q].item.id : q \in {o \in others : op[o].item # None}}
         IN /\ op' = [q \in Procs |-> [(IF q = p THEN r ELSE op[q])
                                          EXCEPT !.mixed = @ \/ q \in mixing]]
            /\ owned' = IF others = {} THEN owned ELSE (owned \ IdsAt(NamesOf(r))) \ held
            /\ meddled' = (meddled \/ (Self \in NamesOf(r) /\ (lazy # "none" \/ ~ready)))
  BY DEF Call
<1>1. PICK r \in {Generate(n), Remove(n), Rename(n, m)} :
         LET others == {q \in Procs \ {p} : Busy(q) /\ NamesOf(op[q]) \cap NamesOf(r) # {}}
             mixing == IF others = {} THEN {} ELSE others \cup {p}
             held == {op[q].item.id : q \in {o \in others : op[o].item # None}}
         IN /\ op' = [q \in Procs |-> [(IF q = p THEN r ELSE op[q])
                                          EXCEPT !.mixed = @ \/ q \in mixing]]
            /\ owned' = IF others = {} THEN owned ELSE (owned \ IdsAt(NamesOf(r))) \ held
            /\ meddled' = (meddled \/ (Self \in NamesOf(r) /\ (lazy # "none" \/ ~ready)))
  BY <1>0
<1> DEFINE others == {q \in Procs \ {p} : Busy(q) /\ NamesOf(op[q]) \cap NamesOf(r) # {}}
           mixing == IF others = {} THEN {} ELSE others \cup {p}
           old(q) == IF q = p THEN r ELSE op[q]
           e(q) == [old(q) EXCEPT !.mixed = @ \/ q \in mixing]
<1>2. op' = [q \in Procs |-> e(q)] /\ owned' \subseteq owned
  BY <1>1
<1>12. store' = store
  BY DEF Call
<1>3. r.pc = "test" /\ r.item = None /\ r \in OpRecord
  <2>1. r.pc = "test" /\ r.item = None
    BY DEF Generate, Remove, Rename, Op
  <2>2. r \in OpRecord
    BY CallsFacts
  <2> QED
    BY <2>1, <2>2
<1>4. /\ \A q \in others : q \in Procs /\ q # p /\ q \in mixing
      /\ others # {} => p \in mixing
      /\ \A q \in Procs : q # p /\ Busy(q) /\ NamesOf(op[q]) \cap NamesOf(r) # {} => q \in others
  OBVIOUS
<1> HIDE DEF mixing, others
<1>5. ASSUME NEW q \in Procs
      PROVE  /\ e(q).pc = old(q).pc /\ e(q).item = old(q).item /\ e(q).kind = old(q).kind
             /\ e(q).name = old(q).name /\ e(q).new = old(q).new
             /\ e(q).mixed \in BOOLEAN
             /\ old(q).mixed = TRUE \/ q \in mixing => e(q).mixed = TRUE
  <2>1. old(q) \in OpRecord
    BY <1>3, ProcFacts DEF KInv
  <2>2. old(q).mixed \in BOOLEAN
    BY <2>1, OpTypes
  <2> HIDE DEF old
  <2> QED
    BY <2>1, <2>2 DEF OpRecord
<1> HIDE DEF e
<1>6. /\ \A q \in Procs : op'[q] = e(q)
      /\ \A q \in Procs : q # p => old(q) = op[q]
      /\ old(p) = r
  BY <1>2
<1>7. ASSUME NEW q \in Procs PROVE NamesOf(op'[q]) = NamesOf(old(q))
  BY <1>5, <1>6 DEF NamesOf
<1> HIDE DEF old
<1>8. Apart'
  <2> SUFFICES ASSUME NEW a \in Procs, NEW b \in Procs, a # b, Busy(a)', Busy(b)',
                      NamesOf(op'[a]) \cap NamesOf(op'[b]) # {}
               PROVE  op'[a].mixed = TRUE /\ op'[b].mixed = TRUE
    BY DEF Apart
  <2>1. \A q \in Procs : q # p /\ Busy(q)' => Busy(q)
    BY <1>5, <1>6 DEF Busy, At
  <2>2. NamesOf(old(a)) \cap NamesOf(old(b)) # {}
    BY <1>7
  <2>3. CASE a # p /\ b # p
    <3>1. old(a).mixed = TRUE /\ old(b).mixed = TRUE
      BY <1>6, <2>1, <2>2, <2>3 DEF KInv, KeptInv, Apart
    <3> QED
      BY <1>5, <1>6, <3>1
  <2>4. CASE a = p
    <3>1. b \in others
      BY <1>4, <1>6, <2>1, <2>2, <2>4
    <3> QED
      BY <1>4, <1>5, <1>6, <2>4, <3>1
  <2>5. CASE b = p
    <3>1. a \in others
      BY <1>4, <1>6, <2>1, <2>2, <2>5
    <3> QED
      BY <1>4, <1>5, <1>6, <2>5, <3>1
  <2> QED
    BY <2>3, <2>4, <2>5
<1>9. IdsAt(Names)' = IdsAt(Names) /\ KeyKept'
  BY <1>2, <1>12 DEF IdsAt, KInv, KeptInv, KeyKept
<1>10. ASSUME NEW q \in Procs PROVE Fresh(q)'
  <2>1. CASE q = p
    BY <1>3, <1>5, <1>6, <2>1 DEF Fresh
  <2>2. CASE q # p
    <3> SUFFICES ASSUME op[q].pc \in {"putSelf", "put"} PROVE Fresh(q)'
      BY <1>5, <1>6, <2>2 DEF Fresh
    <3>1. /\ op[q].item.id \notin owned \cup IdsAt(Names)
          /\ \A o \in Procs \ {q} : op[o].item # None => op[o].item.id # op[q].item.id
      BY DEF KInv, KeptInv, Fresh
    <3>2. /\ op'[q].item = op[q].item
          /\ \A o \in Procs : op'[o].item = IF o = p THEN None ELSE op[o].item
      BY <1>3, <1>5, <1>6, <2>2
    <3> QED
      BY <1>2, <1>9, <3>1, <3>2 DEF Fresh
  <2> QED
    BY <2>1, <2>2
<1>11. ASSUME NEW q \in Procs PROVE InHand(op[q])' /\ Copied(op[q])'
  <2>1. CASE q = p
    BY <1>3, <1>5, <1>6, <2>1 DEF InHand, Copied, Moving
  <2>2. CASE q # p
    <3>1. InHand(op[q]) /\ Copied(op[q]) /\ op[q].mixed \in BOOLEAN
      BY ProcFacts, OpTypes DEF KInv, KeptInv
    <3>2. /\ op'[q].pc = op[q].pc /\ op'[q].item = op[q].item /\ op'[q].kind = op[q].kind
          /\ op'[q].name = op[q].name /\ op'[q].new = op[q].new
          /\ op'[q].mixed = FALSE => op[q].mixed = FALSE
      BY <1>5, <1>6, <2>2, <3>1
    <3> QED
      BY <1>2, <1>12, <3>1, <3>2 DEF InHand, Copied, Moving, OwnedAt
  <2> QED
    BY <2>1, <2>2
<1> QED
  BY <1>8, <1>9, <1>10, <1>11 DEF KeptInv

LEMMA IdleKept ==
  ASSUME \A p \in Procs : op[p] = Idle, KeyKept
  PROVE  KeptInv
<1>1. Idle.pc = "idle"
  BY IdleNames
<1> QED
  BY <1>1 DEF KeptInv, Apart, Fresh, InHand, Copied, Moving, Busy, At

LEMMA CrashKept ==
  ASSUME KInv, Crash
  PROVE  KeptInv'
<1>1. \A p \in Procs : op'[p] = Idle
  BY DEF Crash
<1>2. KeyKept'
  BY DEF Crash, StoreUnchanged, KInv, KeptInv, KeyKept, IdsAt
<1>3. Idle' = Idle
  BY DEF Idle, Op
<1>4. Idle.pc = "idle"
  BY IdleNames
<1> QED
  BY <1>1, <1>2, <1>4 DEF KeptInv, Apart, Fresh, InHand, Copied, Moving, Busy, At

LEMMA InitKept == Init => KInv
<1> SUFFICES ASSUME Init PROVE KInv
  OBVIOUS
<1>1. KeyKept
  BY DEF Init, KeyKept, IdsAt
<1>2. \A p \in Procs : op[p] = Idle
  BY DEF Init
<1> QED
  BY <1>1, <1>2, InitInv, IdleKept DEF KInv

LEMMA NextKept == KInv /\ [Next]_vars => KInv'
<1> SUFFICES ASSUME KInv, [Next]_vars PROVE KeptInv'
  BY NextInv DEF KInv
<1>1. CASE UNCHANGED vars
  BY <1>1 DEF vars, KInv, KeptInv, KeyKept, IdsAt, Apart, Fresh, InHand, Copied, Moving,
     OwnedAt, Busy, At
<1>2. CASE Crash
  BY <1>2, CrashKept
<1>3. ASSUME NEW p \in Procs,
             \/ Call(p) \/ StartSwarm(p)
             \/ Test(p) \/ Create(p) \/ Phrase(p) \/ Derive(p) \/ Verify(p)
             \/ FindSelf(p) \/ MakeSelf(p) \/ PutSelf(p)
             \/ Make(p) \/ Put(p) \/ Find(p) \/ PutNew(p) \/ Drop(p)
             \/ FindPeer(p) \/ PublicKey(p) \/ PrivateKey(p)
      PROVE  KeptInv'
  BY <1>3, CallKept, QuietKept, MakeKept, FindKept, PutSelfKept, PutKept, PutNewKept, DropKept
<1> QED
  BY <1>1, <1>2, <1>3 DEF Next

(* A key a user was given is in the repository until that user gives it    *)
(* up, also when a rename is cut short by a crash or the set-up of the key *)
(* chain overwrites Self, in any interleaving of calls on different names. *)
(* Of the keys that calls which overlap on a name use (mixed), nothing is  *)
(* claimed: two renames that cross lose both.                              *)
THEOREM KeyChainKeeps == Spec => []KeyKept
<1>1. KInv => KeyKept
  BY DEF KInv, KeptInv
<1> QED
  BY <1>1, InitKept, NextKept, PTL DEF Spec

-----------------------------------------------------------------------------
(* The identity of the node.  As long as no two calls of a session saw     *)
(* that keyChain was null (twin), one call sets up the key chain; while it *)
(* does, and once the identity is being taken, no call names Self          *)
(* (meddled); so Self is made only where there is none, and whatever read  *)
(* the identity read that of the one Self.                                 *)

Setup == {"phrase", "derive", "verify", "findSelf", "makeSelf", "putSelf"}

(* The record r of a call, when keyChain is set or not (c), ready or not   *)
(* (rd), the identity is in state lz, self is stored as Self and pr is the *)
(* peer.                                                                   *)
Ident(r, c, rd, lz, self, pr) ==
  /\ r.pc \in Setup => c = TRUE /\ rd = FALSE
  /\ Self \in NamesOf(r) => rd = TRUE /\ lz = "none"
  /\ r.pc = "peer" \/ r.kind = "swarm" \/ r.id # None => lz # "none"
  /\ r.pc \in {"makeSelf", "putSelf"} => self = None
  /\ r.pc \in {"public", "private"} => r.id # None
  /\ r.id # None => self # None /\ self.id = r.id
  /\ r.id # None /\ r.pc # "public" => pr = r.id

IdentNow(r) == Ident(r, chain, ready, lazy, store[Self], peer)

OneInv ==
  /\ \A p, q \in Procs : op[p].pc \in Setup /\ op[q].pc \in Setup => p = q
  /\ \A p \in Procs : IdentNow(op[p])
  /\ ready = TRUE => chain = TRUE
  /\ peer # None => lazy # "none" /\ store[Self] # None /\ store[Self].id = peer
  /\ swarm # None => swarm = peer

QInv == IInv /\ (meddled = FALSE /\ twin = FALSE => OneInv)

(* One call moves, and Self is as it was.                                  *)
LEMMA OneMove ==
  ASSUME IInv, OneInv, NEW p \in Procs, NEW r \in OpRecord, op' = [op EXCEPT ![p] = r],
         store'[Self] = store[Self],
         r.pc \in Setup => op[p].pc \in Setup \/ \A q \in Procs : op[q].pc \notin Setup,
         chain = TRUE => chain' = TRUE,
         ready' \in {ready, TRUE}, ready' = TRUE /\ ready # TRUE => op[p].pc \in Setup,
         ready' = TRUE => chain' = TRUE,
         lazy # "none" => lazy' # "none",
         lazy' # "none" => lazy # "none" \/ \A q \in Procs : Self \notin NamesOf(op[q]),
         peer' = peer \/ (lazy # "none" /\ store[Self] # None /\ peer' = store[Self].id),
         Ident(r, chain', ready', lazy', store[Self], peer'),
         swarm' # None => swarm' = peer'
  PROVE  OneInv'
<1>1. \A q \in Procs : op'[q] = IF q = p THEN r ELSE op[q]
  BY ProcFacts
<1>2. ASSUME NEW q \in Procs PROVE IdentNow(op[q])'
  <2>1. CASE q = p
    BY <1>1, <2>1 DEF IdentNow
  <2>2. CASE q # p
    <3>1. /\ Ident(op[q], chain, ready, lazy, store[Self], peer)
          /\ op[q].pc \in Setup => op[p].pc \notin Setup
      BY <2>2 DEF OneInv, IdentNow
    <3>2. Ident(op[q], chain', ready', lazy', store[Self], peer')
      BY <3>1 DEF Ident
    <3> QED
      BY <1>1, <2>2, <3>2 DEF IdentNow
  <2> QED
    BY <2>1, <2>2
<1>3. \A a, b \in Procs : op'[a].pc \in Setup /\ op'[b].pc \in Setup => a = b
  BY <1>1 DEF OneInv
<1>4. peer' # None => lazy' # "none" /\ store'[Self] # None /\ store'[Self].id = peer'
  BY DEF OneInv
<1> QED
  BY <1>2, <1>3, <1>4 DEF OneInv

(* p goes on, and nothing else of the identity changes.                    *)
LEMMA OneGoto ==
  ASSUME IInv, OneInv, NEW p \in Procs, NEW r \in OpRecord, op' = [op EXCEPT ![p] = r],
         Same(r, op[p]), store'[Self] = store[Self], UNCHANGED <<chain, lazy, peer, swarm>>,
         ready' = ready \/ (ready' = TRUE /\ op[p].pc \in Setup /\ r.pc \notin Setup),
         r.id \in {op[p].id, None}, op[p].pc # "public",
         r.pc \in Setup => op[p].pc \in Setup,
         r.pc = "peer" => op[p].kind = "swarm",
         r.pc \in {"makeSelf", "putSelf"} => store[Self] = None,
         r.pc # "public" /\ (r.pc = "private" => r.id # None)
  PROVE  OneInv'
<1>1. /\ Ident(op[p], chain, ready, lazy, store[Self], peer) /\ (swarm # None => swarm = peer)
      /\ ready = TRUE => chain = TRUE
      /\ op[p].pc \in Setup => chain = TRUE
  BY DEF OneInv, IdentNow, Ident
<1>2. NamesOf(r) = NamesOf(op[p]) /\ r.kind = op[p].kind
  BY SameNames DEF Same
<1> DEFINE c2 == chain'  p2 == peer'  w2 == swarm'  l2 == lazy'  rd2 == ready'
<1>3. c2 = chain /\ p2 = peer /\ w2 = swarm /\ l2 = lazy
  OBVIOUS
<1>4. Ident(r, chain, rd2, lazy, store[Self], peer)
  <2>1. r.pc \in Setup => rd2 = FALSE
    BY <1>1 DEF Ident
  <2>2. Self \in NamesOf(r) => rd2 = TRUE /\ lazy = "none"
    BY <1>1, <1>2 DEF Ident
  <2> QED
    BY <1>1, <1>2, <2>1, <2>2 DEF Ident
<1>5. /\ Ident(r, c2, rd2, l2, store[Self], p2)
      /\ w2 # None => w2 = p2
      /\ chain = TRUE => c2 = TRUE
      /\ rd2 \in {ready, TRUE} /\ (rd2 = TRUE /\ ready # TRUE => op[p].pc \in Setup)
      /\ rd2 = TRUE => c2 = TRUE
      /\ l2 = lazy /\ p2 = peer
  BY <1>1, <1>3, <1>4
<1> QED
  BY <1>5, OneMove

(* A call ends.                                                            *)
LEMMA OneEnd ==
  ASSUME IInv, OneInv, NEW p \in Procs, op' = [op EXCEPT ![p] = Idle],
         store'[Self] = store[Self], UNCHANGED <<chain, ready, peer>>,
         lazy' = lazy \/ (lazy # "none" /\ lazy' # "none"),
         swarm' # None => swarm' = peer'
  PROVE  OneInv'
<1>1. /\ Idle \in OpRecord /\ Idle.id = None /\ Idle.pc = "idle" /\ Idle.kind = "none"
      /\ NamesOf(Idle) = {}
  BY IdleNames, IdleFacts DEF OpOK
<1> DEFINE c2 == chain'  p2 == peer'  rd2 == ready'
<1>2. c2 = chain /\ p2 = peer /\ rd2 = ready
  OBVIOUS
<1>3. Ident(Idle, c2, rd2, lazy', store[Self], p2) /\ Idle.pc \notin Setup
  BY <1>1 DEF Ident, Setup
<1>4. /\ chain = TRUE => c2 = TRUE
      /\ rd2 \in {ready, TRUE} /\ ~(rd2 = TRUE /\ ready # TRUE)
      /\ rd2 = TRUE => c2 = TRUE
      /\ p2 = peer
  BY <1>2 DEF OneInv
<1> QED
  BY <1>1, <1>3, <1>4, OneMove

(* A call that throws: only that of the identity leaves a trace.           *)
LEMMA OneThrow ==
  ASSUME IInv, OneInv, NEW p \in Procs, Throw(p), UNCHANGED <<store, chain, ready>>
  PROVE  OneInv'
<1>1. /\ op' = [op EXCEPT ![p] = Idle] /\ UNCHANGED <<peer, swarm>>
      /\ lazy' = IF op[p].kind = "swarm" THEN "failed" ELSE lazy
  BY DEF Throw, Return
<1>2. op[p].kind = "swarm" => lazy # "none"
  BY DEF OneInv, IdentNow, Ident
<1>3. lazy' = lazy \/ (lazy # "none" /\ lazy' # "none")
  BY <1>1, <1>2
<1>4. swarm' # None => swarm' = peer'
  BY <1>1 DEF OneInv
<1> QED
  BY <1>1, <1>3, <1>4, OneEnd

LEMMA KeyChainAsyncOne ==
  ASSUME IInv, OneInv, NEW p \in Procs, twin' = FALSE,
         Test(p) \/ Create(p) \/ Phrase(p) \/ Derive(p) \/ Verify(p) \/ FindSelf(p)
  PROVE  OneInv'
<1>0. /\ op[p] \in OpRecord /\ ready \in BOOLEAN /\ op[p].pc \in {"test", "create"} \cup Setup
      /\ store' = store
  BY ProcFacts, Types DEF Test, Create, Phrase, Derive, Verify, FindSelf, At, Setup,
     StoreUnchanged
<1>2. ASSUME NEW s \in BOOLEAN, Enter(p, s), LazyUnchanged, chain' = chain,
             ready' = ready \/ (ready' = TRUE /\ op[p].pc \in Setup)
      PROVE  OneInv'
  <2> DEFINE pc == Start(p)
             e == [op[p] EXCEPT !.pc = pc, !.sure = s]
  <2>1. /\ pc \in Pcs /\ pc \in {"make", "find", "peer", "private"}
        /\ pc = "private" => op[p].id # None
        /\ pc = "peer" => op[p].kind = "swarm"
    BY <1>0, OpTypes, ProcFacts DEF Start, Pcs
  <2>2. op' = [op EXCEPT ![p] = e] /\ UNCHANGED <<lazy, peer, swarm>>
    BY <1>2 DEF Enter, LazyUnchanged
  <2> HIDE DEF pc
  <2>3. e \in OpRecord /\ e.pc = pc /\ e.id = op[p].id /\ Same(e, op[p])
    BY <1>0, <2>1 DEF OpRecord, Same
  <2> HIDE DEF e
  <2>4. op[p].pc # "public" /\ pc \notin Setup
    BY <1>0, <2>1 DEF Setup
  <2> QED
    BY <1>0, <1>2, <2>1, <2>2, <2>3, <2>4, OneGoto
<1>3. ASSUME NEW pc \in {"create", "findSelf", "derive", "verify", "makeSelf"}, Goto(p, pc),
             LazyUnchanged, UNCHANGED <<chain, ready>>, pc # "create" => op[p].pc \in Setup,
             pc = "makeSelf" => store[Self] = None
      PROVE  OneInv'
  <2> DEFINE e == [op[p] EXCEPT !.pc = pc]
  <2>1. pc \in Pcs /\ (pc \in Setup => pc # "create")
    BY DEF Pcs, Setup
  <2>2. op' = [op EXCEPT ![p] = e] /\ UNCHANGED <<lazy, peer, swarm>>
    BY <1>3 DEF Goto, LazyUnchanged
  <2>3. e \in OpRecord /\ e.pc = pc /\ e.id = op[p].id /\ Same(e, op[p])
    BY <1>0, <2>1, EditPc
  <2> HIDE DEF e
  <2>4. op[p].pc # "public"
    BY <1>0 DEF Setup
  <2> QED
    BY <1>0, <1>3, <2>1, <2>2, <2>3, <2>4, OneGoto
<1>4. CASE Create(p)
  <2> DEFINE e == [op[p] EXCEPT !.pc = "phrase"]
  <2>1. /\ op' = [op EXCEPT ![p] = e] /\ chain' = TRUE /\ chain # TRUE /\ op[p].pc = "create"
        /\ UNCHANGED <<ready, lazy, peer, swarm>>
    BY <1>4, Types DEF Create, Goto, At, LazyUnchanged
  <2>2. "phrase" \in Pcs
    BY DEF Pcs
  <2>3. e \in OpRecord /\ e.pc = "phrase" /\ e.id = op[p].id /\ Same(e, op[p])
    BY <1>0, <2>2, EditPc
  <2> HIDE DEF e
  <2>4. (\A q \in Procs : op[q].pc \notin Setup) /\ ready = FALSE
    BY <1>0, <2>1 DEF OneInv, IdentNow, Ident
  <2>5. Ident(e, TRUE, ready, lazy, store[Self], peer)
    <3>1. Ident(op[p], chain, ready, lazy, store[Self], peer)
      BY DEF OneInv, IdentNow
    <3>2. NamesOf(e) = NamesOf(op[p]) /\ e.kind = op[p].kind
      BY <2>3, SameNames DEF Same
    <3> QED
      BY <2>1, <2>3, <2>4, <3>1, <3>2 DEF Ident
  <2>6. swarm # None => swarm = peer
    BY DEF OneInv
  <2> DEFINE c2 == chain'  p2 == peer'  w2 == swarm'  l2 == lazy'  rd2 == ready'
  <2>7. c2 = TRUE /\ p2 = peer /\ w2 = swarm /\ l2 = lazy /\ rd2 = ready
    BY <1>0, <2>1
  <2>8. /\ Ident(e, c2, rd2, l2, store[Self], p2) /\ (w2 # None => w2 = p2)
        /\ rd2 \in {ready, TRUE} /\ ~(rd2 = TRUE /\ ready # TRUE)
        /\ rd2 = TRUE => c2 = TRUE
    BY <2>5, <2>6, <2>7
  <2> QED
    BY <1>0, <2>1, <2>3, <2>4, <2>7, <2>8, OneMove
<1>5. CASE Test(p)
  BY <1>0, <1>2, <1>3, <1>5 DEF Test, EngineUnchanged
<1>6. CASE Phrase(p)
  <2>1. op[p].pc \in Setup /\ UNCHANGED <<chain, ready>> /\ LazyUnchanged
    BY <1>6 DEF Phrase, At, Setup, EngineUnchanged
  <2>2. Goto(p, "findSelf") \/ Goto(p, "derive")
    BY <1>6 DEF Phrase
  <2> QED
    BY <1>3, <2>1, <2>2
<1>7. CASE Derive(p)
  <2>1. /\ op[p].pc \in Setup /\ UNCHANGED <<chain, ready>>
        /\ Throw(p) \/ (Goto(p, "verify") /\ LazyUnchanged)
    BY <1>7 DEF Derive, At, Setup
  <2>2. CASE Throw(p)
    BY <1>0, <2>1, <2>2, OneThrow
  <2> QED
    BY <1>3, <2>1, <2>2
<1>8. CASE Verify(p)
  <2>1. /\ op[p].pc \in Setup /\ UNCHANGED <<chain, ready>>
        /\ Throw(p) \/ (Goto(p, "findSelf") /\ LazyUnchanged)
    BY <1>8 DEF Verify, At, Setup
  <2>2. CASE Throw(p)
    BY <1>0, <2>1, <2>2, OneThrow
  <2> QED
    BY <1>3, <2>1, <2>2
<1>9. CASE FindSelf(p)
  <2>1. /\ op[p].pc \in Setup /\ chain' = chain /\ LazyUnchanged
        /\ \/ Enter(p, TRUE) /\ ready' = TRUE
           \/ Goto(p, "makeSelf") /\ store[Self] = None /\ ready' = ready
    BY <1>9 DEF FindSelf, At, Setup, SelfMissing
  <2> QED
    BY <1>2, <1>3, <2>1
<1> QED
  BY <1>4, <1>5, <1>6, <1>7, <1>8, <1>9

(* The steps that take a key in hand.                                      *)
LEMMA HandOne ==
  ASSUME IInv, OneInv, NEW p \in Procs, MakeSelf(p) \/ Make(p) \/ Find(p)
  PROVE  OneInv'
<1>0. /\ op[p] \in OpRecord /\ op[p].pc \in {"makeSelf", "make", "find"}
      /\ store' = store /\ UNCHANGED <<chain, ready, lazy, peer, swarm>>
  BY ProcFacts DEF MakeSelf, Make, Find, At, StoreUnchanged, EngineUnchanged, LazyUnchanged
<1>1. ASSUME NEW pc \in {"putSelf", "put", "putNew"}, NEW i \in Entries \cup {None},
             op' = [op EXCEPT ![p].pc = pc, ![p].item = i], pc = "putSelf" => op[p].pc = "makeSelf"
      PROVE  OneInv'
  <2> DEFINE e == [op[p] EXCEPT !.pc = pc, !.item = i]
  <2>1. pc \in Pcs /\ op' = [op EXCEPT ![p] = e]
    BY <1>1 DEF Pcs
  <2>2. e \in OpRecord /\ e.pc = pc /\ e.id = op[p].id /\ Same(e, op[p])
    BY <1>0, <2>1 DEF OpRecord, Same
  <2> HIDE DEF e
  <2>3. /\ pc \in Setup => op[p].pc \in Setup
        /\ pc \in {"makeSelf", "putSelf"} => store[Self] = None
    BY <1>1 DEF Setup, OneInv, IdentNow, Ident
  <2> QED
    BY <1>0, <1>1, <2>1, <2>2, <2>3, OneGoto
<1>2. CASE MakeSelf(p)
  <2>1. NewEntry(Self, TRUE) \in Entries
    BY <1>2, NewEntryFacts, ConstantsAssumption DEF MakeSelf
  <2> QED
    BY <1>1, <1>2, <2>1 DEF MakeSelf, At
<1>3. CASE Make(p)
  <2>1. op[p].name \in Names /\ op[p].sure \in BOOLEAN
    BY <1>3, ProcFacts, OpTypes DEF Make, At, OpOK, Named
  <2>2. NewEntry(op[p].name, op[p].sure) \in Entries
    BY <1>3, <2>1, NewEntryFacts DEF Make
  <2> QED
    BY <1>1, <1>3, <2>2 DEF Make
<1>4. CASE Find(p)
  <2>1. CASE Return(p)
    <3>1. swarm # None => swarm = peer
      BY DEF OneInv
    <3> QED
      BY <1>0, <2>1, <3>1, OneEnd DEF Return
  <2>2. CASE Goto(p, "drop")
    <3> DEFINE e == [op[p] EXCEPT !.pc = "drop"]
    <3>1. "drop" \in Pcs /\ "drop" \notin Setup
      BY DEF Pcs, Setup
    <3>2. op' = [op EXCEPT ![p] = e]
      BY <2>2 DEF Goto
    <3>3. e \in OpRecord /\ e.pc = "drop" /\ e.id = op[p].id /\ Same(e, op[p])
      BY <1>0, <3>1, EditPc
    <3> HIDE DEF e
    <3> QED
      BY <1>0, <3>1, <3>2, <3>3, OneGoto
  <2>3. CASE op' = [op EXCEPT ![p].pc = "putNew",
                              ![p].item = Renamed(store[op[p].name], op[p].new)]
             /\ store[op[p].name] # None /\ op[p].kind # "remove"
    <3>1. op[p].name \in Names /\ op[p].new \in Names
      BY <1>4, <2>3, ProcFacts DEF Find, At, OpOK, Named
    <3>2. store[op[p].name] \in Entries
      BY <2>3, <3>1, StoreFacts
    <3>3. Renamed(store[op[p].name], op[p].new) \in Entries
      BY <3>1, <3>2 DEF Renamed, Entries
    <3> QED
      BY <1>1, <2>3, <3>3
  <2> QED
    BY <1>4, <2>1, <2>2, <2>3 DEF Find
<1> QED
  BY <1>2, <1>3, <1>4

(* Nobody sets up the key chain or takes the identity.                     *)
LEMMA QuietOne ==
  ASSUME IInv, OneInv, NEW p \in Procs, Self \in NamesOf(op[p]), NEW r \in OpRecord,
         op' = [op EXCEPT ![p] = r], Same(r, op[p]) \/ r = Idle, r.id \in {op[p].id, None},
         r.pc \in {"drop", "idle"},
         UNCHANGED <<chain, ready, lazy, peer, swarm>>
  PROVE  OneInv'
<1>1. ready = TRUE /\ lazy = "none" /\ chain = TRUE
  BY DEF OneInv, IdentNow, Ident
<1>2. peer = None /\ swarm = None
  BY <1>1 DEF OneInv
<1>3. \A q \in Procs : /\ op[q].id = None /\ op[q].kind # "swarm"
                       /\ op[q].pc \notin Setup /\ op[q].pc \notin {"peer", "public", "private"}
  BY <1>1 DEF OneInv, IdentNow, Ident
<1>4. /\ NamesOf(r) \subseteq NamesOf(op[p]) /\ r.kind # "swarm" /\ r.id = None
      /\ r.pc \notin Setup /\ r.pc \notin {"peer", "public", "private"}
  BY <1>3, SameNames, IdleNames, IdleFacts DEF OpOK, Same, Setup
<1>5. \A q \in Procs : op'[q] = IF q = p THEN r ELSE op[q]
  BY ProcFacts
<1>6. ASSUME NEW q \in Procs PROVE IdentNow(op[q])'
  BY <1>1, <1>3, <1>4, <1>5 DEF IdentNow, Ident, Setup
<1>7. \A a, b \in Procs : op'[a].pc \in Setup /\ op'[b].pc \in Setup => a = b
  BY <1>3, <1>4, <1>5
<1> QED
  BY <1>1, <1>2, <1>6, <1>7 DEF OneInv

(* The call of a user writes or removes a key.                             *)
LEMMA WriteOne ==
  ASSUME IInv, OneInv, NEW p \in Procs, Put(p) \/ PutNew(p) \/ Drop(p)
  PROVE  OneInv'
<1>0. /\ op[p] \in OpRecord /\ op[p].pc \in {"put", "putNew", "drop"}
      /\ UNCHANGED <<chain, ready, lazy, peer, swarm>>
      /\ store \in [Names -> Entries \cup {None}] /\ Self \in Names
      /\ swarm # None => swarm = peer
      /\ op[p].name \in Names /\ (op[p].pc = "putNew" => op[p].new \in Names)
  BY ProcFacts, StoreFacts DEF Put, PutNew, Drop, At, EngineUnchanged, LazyUnchanged, OneInv,
     OpOK, Named
<1>1. /\ store'[Self] = store[Self] \/ Self \in NamesOf(op[p])
  <2>1. Self # None
    BY NoneFacts, ConstantsAssumption
  <2>2. CASE Put(p)
    BY <1>0, <2>1, <2>2 DEF Put, At, NamesOf
  <2>3. CASE PutNew(p)
    BY <1>0, <2>1, <2>3 DEF PutNew, NewFile, At, NamesOf
  <2>4. CASE Drop(p)
    BY <1>0, <2>1, <2>4 DEF Drop, At, NamesOf
  <2> QED
    BY <2>2, <2>3, <2>4
<1>2. CASE Put(p) \/ Drop(p)
  <2>1. op' = [op EXCEPT ![p] = Idle]
    BY <1>2 DEF Put, Drop, Return
  <2>2. Idle \in OpRecord /\ Idle.id = None /\ Idle.pc = "idle"
    BY IdleFacts, IdleNames
  <2>3. CASE store'[Self] = store[Self]
    BY <1>0, <2>1, <2>3, OneEnd
  <2>4. CASE Self \in NamesOf(op[p])
    BY <1>0, <2>1, <2>2, <2>4, QuietOne
  <2> QED
    BY <1>1, <2>3, <2>4
<1>3. CASE PutNew(p)
  <2> DEFINE e == [op[p] EXCEPT !.pc = "drop"]
  <2>1. "drop" \in Pcs /\ "drop" \notin Setup
    BY DEF Pcs, Setup
  <2>2. op' = [op EXCEPT ![p] = e]
    BY <1>3 DEF PutNew, Goto
  <2>3. e \in OpRecord /\ e.pc = "drop" /\ e.id = op[p].id /\ Same(e, op[p])
    BY <1>0, <2>1, EditPc
  <2> HIDE DEF e
  <2>4. CASE store'[Self] = store[Self]
    BY <1>0, <2>1, <2>2, <2>3, <2>4, OneGoto
  <2>5. CASE Self \in NamesOf(op[p])
    BY <1>0, <2>2, <2>3, <2>5, QuietOne
  <2> QED
    BY <1>1, <2>4, <2>5
<1> QED
  BY <1>2, <1>3

(* Self is made where there was none: nobody has read it.                  *)
LEMMA PutSelfOne ==
  ASSUME IInv, OneInv, NEW p \in Procs, PutSelf(p)
  PROVE  OneInv'
<1> DEFINE pc == Start(p)
           e == [op[p] EXCEPT !.pc = pc, !.sure = TRUE, !.item = None]
<1>1. /\ op[p].pc = "putSelf" /\ op' = [op EXCEPT ![p] = e] /\ ready' = TRUE
      /\ UNCHANGED <<chain, lazy, peer, swarm>>
  BY DEF PutSelf, At, LazyUnchanged
<1>2. /\ store[Self] = None /\ peer = None /\ swarm = None /\ chain = TRUE /\ ready = FALSE
      /\ \A q \in Procs : op[q].id = None /\ Self \notin NamesOf(op[q])
  BY <1>1 DEF OneInv, IdentNow, Ident, Setup
<1>3. pc \in Pcs /\ pc \in {"make", "find", "peer"} /\ op[p] \in OpRecord
      /\ (pc = "peer" => op[p].kind = "swarm")
  BY <1>2, ProcFacts DEF Start, Pcs
<1> HIDE DEF pc
<1>4. e \in OpRecord /\ e.pc = pc /\ e.id = None /\ Same(e, op[p])
  BY <1>2, <1>3 DEF OpRecord, Same
<1> HIDE DEF e
<1>5. \A q \in Procs : op'[q] = IF q = p THEN e ELSE op[q]
  BY <1>1, ProcFacts
<1>6. op[p].pc \in Setup /\ pc \notin Setup /\ NamesOf(e) = NamesOf(op[p]) /\ e.kind = op[p].kind
  BY <1>1, <1>3, <1>4, SameNames DEF Setup, Same
<1>7. ASSUME NEW q \in Procs PROVE IdentNow(op[q])'
  <2>0. Ident(op[q], chain, ready, lazy, store[Self], peer) /\ (op[q].kind = "swarm" => lazy # "none")
    BY DEF OneInv, IdentNow, Ident
  <2>1. CASE q = p
    BY <1>1, <1>2, <1>3, <1>4, <1>5, <1>6, <2>0, <2>1 DEF IdentNow, Ident
  <2>2. CASE q # p
    <3>1. op[q].pc \notin Setup /\ op'[q] = op[q]
      BY <1>5, <1>6, <2>2 DEF OneInv
    <3>2. op[q].pc \notin {"makeSelf", "putSelf"} /\ op[q].id = None /\ Self \notin NamesOf(op[q])
      BY <1>2, <3>1 DEF Setup
    <3> QED
      BY <1>1, <2>0, <3>1, <3>2 DEF IdentNow, Ident
  <2> QED
    BY <2>1, <2>2
<1>8. \A a, b \in Procs : op'[a].pc \in Setup /\ op'[b].pc \in Setup => a = b
  BY <1>4, <1>5, <1>6 DEF OneInv
<1> QED
  BY <1>1, <1>2, <1>7, <1>8 DEF OneInv

(* The identity is taken when no call names Self.                          *)
LEMMA StartSwarmOne ==
  ASSUME IInv, OneInv, NEW p \in Procs, StartSwarm(p), meddled' = FALSE
  PROVE  OneInv'
<1>1. /\ op' = [op EXCEPT ![p] = BuildSwarm] /\ store' = store /\ lazy = "none" /\ lazy' = "running"
      /\ UNCHANGED <<chain, ready, peer, swarm>>
      /\ \A q \in Procs : Self \notin NamesOf(op[q])
  BY DEF StartSwarm, EngineUnchanged, StoreUnchanged
<1>2. /\ BuildSwarm \in OpRecord /\ BuildSwarm.pc = "test" /\ BuildSwarm.id = None
      /\ NamesOf(BuildSwarm) = {}
  BY IdleNames
<1>3. Ident(BuildSwarm, chain, ready, "running", store[Self], peer) /\ BuildSwarm.pc \notin Setup
  BY <1>2 DEF Ident, Setup
<1> DEFINE c2 == chain'  p2 == peer'  w2 == swarm'  l2 == lazy'  rd2 == ready'
<1>4. c2 = chain /\ p2 = peer /\ w2 = swarm /\ l2 = "running" /\ rd2 = ready
  BY <1>1
<1>5. /\ Ident(BuildSwarm, c2, rd2, l2, store[Self], p2)
      /\ w2 # None => w2 = p2
      /\ chain = TRUE => c2 = TRUE
      /\ rd2 \in {ready, TRUE} /\ ~(rd2 = TRUE /\ ready # TRUE)
      /\ rd2 = TRUE => c2 = TRUE
      /\ l2 # "none" /\ p2 = peer
  BY <1>3, <1>4 DEF OneInv
<1> QED
  BY <1>1, <1>2, <1>3, <1>5, OneMove

LEMMA IdentityOne ==
  ASSUME IInv, OneInv, NEW p \in Procs, FindPeer(p) \/ PublicKey(p) \/ PrivateKey(p)
  PROVE  OneInv'
<1>0. /\ op[p] \in OpRecord /\ store' = store /\ UNCHANGED <<chain, ready>>
      /\ Ident(op[p], chain, ready, lazy, store[Self], peer)
      /\ swarm # None => swarm = peer
      /\ peer # None => store[Self] # None /\ store[Self].id = peer
      /\ ready = TRUE => chain = TRUE
  <2>1. store' = store /\ UNCHANGED <<chain, ready>>
    BY DEF FindPeer, PublicKey, PrivateKey, StoreUnchanged, EngineUnchanged
  <2>2. op[p] \in OpRecord
    BY ProcFacts
  <2> QED
    BY <2>1, <2>2 DEF OneInv, IdentNow
<1>1. CASE Throw(p)
  BY <1>0, <1>1, OneThrow
<1>2. CASE FindPeer(p) /\ store[Self] # None
  <2> DEFINE d == store[Self].id
             e == [op[p] EXCEPT !.pc = "public", !.id = d]
  <2>1. /\ op' = [op EXCEPT ![p] = e] /\ UNCHANGED <<lazy, peer, swarm>> /\ lazy # "none"
    BY <1>0, <1>2 DEF FindPeer, LazyUnchanged, At, Ident
  <2>2. d \in Ids \cup {None} /\ d # None /\ "public" \in Pcs
    BY <1>2, StoreFacts, NoneFacts DEF Pcs
  <2> HIDE DEF d
  <2>3. e \in OpRecord /\ e.pc = "public" /\ e.id = d /\ Same(e, op[p])
    BY <1>0, <2>2 DEF OpRecord, Same
  <2> HIDE DEF e
  <2>4. Ident(e, chain, ready, lazy, store[Self], peer) /\ e.pc \notin Setup
    <3>1. NamesOf(e) = NamesOf(op[p])
      BY <2>3, SameNames
    <3> QED
      BY <1>0, <1>2, <2>1, <2>2, <2>3, <3>1 DEF Ident, Setup, d
  <2> DEFINE c2 == chain'  p2 == peer'  w2 == swarm'  l2 == lazy'  rd2 == ready'
  <2>5. c2 = chain /\ p2 = peer /\ w2 = swarm /\ l2 = lazy /\ rd2 = ready
    BY <1>0, <2>1
  <2>6. /\ Ident(e, c2, rd2, l2, store[Self], p2) /\ (w2 # None => w2 = p2)
        /\ chain = TRUE => c2 = TRUE
        /\ rd2 \in {ready, TRUE} /\ ~(rd2 = TRUE /\ ready # TRUE)
        /\ rd2 = TRUE => c2 = TRUE
    BY <1>0, <2>4, <2>5
  <2> QED
    BY <1>0, <2>1, <2>3, <2>4, <2>5, <2>6, OneMove
<1>3. CASE PublicKey(p) /\ ~(store[Self] # None /\ ~Readable(store[Self]))
  <2> DEFINE e == [op[p] EXCEPT !.pc = "test"]
  <2>1. /\ op' = [op EXCEPT ![p] = e] /\ peer' = op[p].id /\ UNCHANGED <<lazy, swarm>>
        /\ op[p].pc = "public"
    BY <1>3 DEF PublicKey, Goto, At
  <2>2. "test" \in Pcs
    BY DEF Pcs
  <2>3. e \in OpRecord /\ e.pc = "test" /\ e.id = op[p].id /\ Same(e, op[p])
    BY <1>0, <2>2, EditPc
  <2> HIDE DEF e
  <2>4. op[p].id # None /\ store[Self] # None /\ store[Self].id = op[p].id /\ lazy # "none"
    BY <1>0, <2>1 DEF Ident
  <2>5. Ident(e, chain, ready, lazy, store[Self], op[p].id) /\ e.pc \notin Setup
    <3>1. NamesOf(e) = NamesOf(op[p])
      BY <2>3, SameNames
    <3> QED
      BY <1>0, <2>3, <2>4, <3>1 DEF Ident, Setup
  <2>6. swarm # None => swarm = op[p].id
    <3> SUFFICES ASSUME swarm # None PROVE swarm = op[p].id
      OBVIOUS
    <3>1. swarm = peer
      BY <1>0
    <3> QED
      BY <1>0, <2>4, <3>1, NoneFacts, Types
  <2> DEFINE c2 == chain'  p2 == peer'  w2 == swarm'  l2 == lazy'  rd2 == ready'
  <2>7. c2 = chain /\ p2 = op[p].id /\ w2 = swarm /\ l2 = lazy /\ rd2 = ready
    BY <1>0, <2>1
  <2>8. /\ Ident(e, c2, rd2, l2, store[Self], p2) /\ (w2 # None => w2 = p2)
        /\ chain = TRUE => c2 = TRUE
        /\ rd2 \in {ready, TRUE} /\ ~(rd2 = TRUE /\ ready # TRUE)
        /\ rd2 = TRUE => c2 = TRUE
    BY <1>0, <2>5, <2>6, <2>7
  <2>9. p2 = store[Self].id
    BY <2>4, <2>7
  <2> QED
    BY <1>0, <2>1, <2>3, <2>4, <2>5, <2>7, <2>8, <2>9, OneMove
<1>4. CASE PrivateKey(p) /\ ~(store[Self] = None \/ ~Readable(store[Self]))
  <2>1. /\ op[p].pc = "private" /\ op' = [op EXCEPT ![p] = Idle] /\ peer' = peer
        /\ swarm' = store[Self].id /\ lazy' = "built"
    BY <1>4 DEF PrivateKey, Return, At
  <2>2. op[p].id # None /\ store[Self].id = op[p].id /\ peer = op[p].id /\ lazy # "none"
    BY <1>0, <2>1 DEF Ident
  <2> QED
    BY <1>0, <2>1, <2>2, OneEnd
<1> QED
  BY <1>1, <1>2, <1>3, <1>4 DEF FindPeer, PublicKey, PrivateKey

LEMMA CallOne ==
  ASSUME IInv, OneInv, NEW p \in Procs, Call(p), ~meddled'
  PROVE  OneInv'
<1>1. PICK r \in OpRecord :
           /\ meddled' = (meddled \/ (Self \in NamesOf(r) /\ (lazy # "none" \/ ~ready)))
           /\ \A q \in Procs :
                IF q = p
                  THEN /\ op'[q].pc = "test" /\ op'[q].item = None /\ op'[q].id = None
                       /\ op'[q].sure = FALSE /\ op'[q].kind # "swarm"
                       /\ NamesOf(op'[q]) = NamesOf(r)
                  ELSE /\ op'[q].pc = op[q].pc /\ op'[q].item = op[q].item /\ op'[q].id = op[q].id
                       /\ op'[q].sure = op[q].sure /\ op'[q].kind = op[q].kind
                       /\ NamesOf(op'[q]) = NamesOf(op[q])
  BY CallFields
<1>2. Self \in NamesOf(r) => lazy = "none" /\ ready = TRUE
  BY <1>1, Types
<1>3. UNCHANGED <<store, chain, ready, lazy, peer, swarm>>
  BY DEF Call, EngineUnchanged, LazyUnchanged
<1>4. ASSUME NEW q \in Procs PROVE IdentNow(op[q])'
  <2>1. Ident(op[q], chain, ready, lazy, store[Self], peer)
    BY DEF OneInv, IdentNow
  <2> QED
    BY <1>1, <1>2, <1>3, <2>1 DEF IdentNow, Ident, Setup
<1>5. \A a, b \in Procs : op'[a].pc \in Setup /\ op'[b].pc \in Setup => a = b
  BY <1>1 DEF OneInv, Setup
<1> QED
  BY <1>3, <1>4, <1>5 DEF OneInv

LEMMA NobodyOne ==
  ASSUME \A p \in Procs : op[p] = Idle, peer = None, swarm = None, ready = FALSE
  PROVE  OneInv
<1>1. Idle.pc = "idle" /\ Idle.id = None /\ Idle.kind = "none" /\ NamesOf(Idle) = {}
  BY IdleNames, IdleFacts DEF OpOK
<1> QED
  BY <1>1 DEF OneInv, IdentNow, Ident, Setup

LEMMA CrashOne ==
  ASSUME Crash
  PROVE  OneInv'
<1>1. (\A p \in Procs : op'[p] = Idle) /\ peer' = None /\ swarm' = None /\ ready' = FALSE
  BY DEF Crash
<1>2. Idle.pc = "idle" /\ Idle.id = None /\ Idle.kind = "none" /\ NamesOf(Idle) = {}
  BY IdleNames, IdleFacts DEF OpOK
<1> QED
  BY <1>1, <1>2 DEF OneInv, IdentNow, Ident, Setup

LEMMA InitOne == Init => QInv
<1> SUFFICES ASSUME Init PROVE QInv
  OBVIOUS
<1>1. (\A p \in Procs : op[p] = Idle) /\ peer = None /\ swarm = None /\ ready = FALSE
  BY DEF Init
<1> QED
  BY <1>1, InitInv, NobodyOne DEF QInv

LEMMA NextOne == QInv /\ [Next]_vars => QInv'
<1> SUFFICES ASSUME QInv, [Next]_vars PROVE QInv'
  OBVIOUS
<1>1. IInv /\ IInv' /\ meddled \in BOOLEAN /\ twin \in BOOLEAN
  BY NextInv, Types DEF QInv
<1>2. SUFFICES ASSUME meddled' = FALSE, twin' = FALSE PROVE OneInv'
  BY <1>1 DEF QInv
<1>3. CASE UNCHANGED vars
  <2>1. OneInv
    BY <1>2, <1>3 DEF vars, QInv
  <2> QED
    BY <1>3, <2>1 DEF vars, OneInv, IdentNow
<1>4. CASE Crash
  BY <1>4, CrashOne
<1>5. ASSUME NEW p \in Procs,
             \/ Call(p) \/ StartSwarm(p)
             \/ Test(p) \/ Create(p) \/ Phrase(p) \/ Derive(p) \/ Verify(p)
             \/ FindSelf(p) \/ MakeSelf(p) \/ PutSelf(p)
             \/ Make(p) \/ Put(p) \/ Find(p) \/ PutNew(p) \/ Drop(p)
             \/ FindPeer(p) \/ PublicKey(p) \/ PrivateKey(p)
      PROVE  OneInv'
  <2>1. meddled = FALSE
    BY <1>1, <1>2, <1>5 DEF Call, StartSwarm, Test, Create, Phrase, Derive, Verify, FindSelf,
       MakeSelf, PutSelf, Make, Put, Find, PutNew, Drop, FindPeer, PublicKey, PrivateKey,
       CallsUnchanged
  <2>2. twin = FALSE
    BY <1>1, <1>2, <1>5 DEF Call, StartSwarm, Test, Create, Phrase, Derive, Verify, FindSelf,
       MakeSelf, PutSelf, Make, Put, Find, PutNew, Drop, FindPeer, PublicKey, PrivateKey,
       EngineUnchanged
  <2>3. OneInv
    BY <2>1, <2>2 DEF QInv
  <2> QED
    BY <1>1, <1>2, <1>5, <2>3, CallOne, StartSwarmOne, KeyChainAsyncOne, IdentityOne, HandOne,
       WriteOne, PutSelfOne
<1> QED
  BY <1>3, <1>4, <1>5 DEF Next

(* The peer the node announces, the private key its swarm signs with and   *)
(* the key stored as Self are one and the same, for any number of calls,   *)
(* of sessions and of crashes; except in a session in which two first      *)
(* calls of KeyChainAsync meet (twin), or a call names Self before the     *)
(* key chain is set up, or runs when the identity is taken, or later       *)
(* (meddled).                                                              *)
THEOREM KeyChainIdentity == Spec => []IdentityIsOne
<1>1. QInv => IdentityIsOne
  BY Types DEF QInv, OneInv, IdentityIsOne
<1> QED
  BY <1>1, InitOne, NextOne, PTL DEF Spec

=============================================================================
