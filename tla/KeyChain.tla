------------------------------ MODULE KeyChain ------------------------------
(***************************************************************************)
(* The key chain: the keys of the repository, each in a file under its     *)
(* name and encrypted with the key derived from the pass phrase; the lazy  *)
(* creation of the key chain by IpfsEngine.KeyChainAsync, through which    *)
(* every call of KeyApi goes; and the lazy values LocalPeer and            *)
(* SwarmService, which take the identity of the node from it.  The key     *)
(* store is a FileStore: each of its operations is one step.               *)
(***************************************************************************)
EXTENDS Naturals, FiniteSets

CONSTANTS
  Procs,       \* the callers
  Names,       \* names of keys
  Self,        \* the name of the node's own key
  Ids,         \* key pairs (with their key ids)
  Phrases,     \* pass phrases
  None,
  FirstStores, \* what earlier sessions may have left
  MaxCalls     \* bound: calls in a behaviour

Entries == [id : Ids, name : Names, phrase : Phrases \cup {None}, sure : BOOLEAN]
Stores == [Names -> Entries \cup {None}]

(* A repository whose keys are all as KeyChainAsync leaves them.           *)
Sound(s) ==
  \A n \in Names : s[n] # None =>
    /\ s[n].name = n /\ s[n].sure /\ s[n].phrase # None
    /\ s[Self] # None /\ s[n].phrase = s[Self].phrase

ASSUME ConstantsAssumption ==
  /\ Self \in Names
  /\ None \notin Ids \cup Phrases \cup Names \cup Entries
  /\ FirstStores \subseteq Stores /\ \A s \in FirstStores : Sound(s)
  /\ MaxCalls \in Nat

VARIABLES
  store,    \* [Names -> the EncryptedKey stored, or None]
  chain,    \* IpfsEngine.keyChain is set
  init,     \* IpfsEngine.keyChainInitPassphrase
  dek,      \* KeyChain.dek, as the pass phrase it was derived from
  lazy,     \* the state of LocalPeer and SwarmService
  peer,     \* the id of LocalPeer
  swarm,    \* the id of the private key of SwarmService
  op,       \* the operation of each process
  calls,    \* the calls so far
  ready,    \* history: a KeyChainAsync of this session created or found Self
  twin,     \* history: two calls of this session saw that keyChain was null
  spoiled,  \* history: a phrase was tried on no Self, or Self is a key of an unready chain
  meddled,  \* history: a user named Self while the chain was not ready, or while the
            \* identity of the session was taken, or later
  owned     \* history: the keys a user was given and has not given up

vars == <<store, chain, init, dek, lazy, peer, swarm, op, calls, ready, twin, spoiled, meddled,
          owned>>

Pcs == {"idle", "test", "create", "phrase", "derive", "verify", "findSelf", "makeSelf",
        "putSelf", "enter", "make", "put", "find", "putNew", "drop",
        "peer", "public", "private"}

OpRecord ==
  [ kind  : {"none", "generate", "remove", "rename", "swarm"},
    pc    : Pcs,
    name  : Names \cup {None},
    new   : Names \cup {None},     \* RenameAsync: the new name
    item  : Entries \cup {None},   \* the key in hand
    id    : Ids \cup {None},       \* LocalPeer: the id of Self
    sure  : BOOLEAN,               \* history: KeyChainAsync had done its work
    mixed : BOOLEAN ]              \* history: another call used one of the names

Op(kind, pc, name, new) ==
  [ kind |-> kind, pc |-> pc, name |-> name, new |-> new, item |-> None,
    id |-> None, sure |-> FALSE, mixed |-> FALSE ]

Idle == Op("none", "idle", None, None)

TypeOK ==
  /\ store \in Stores
  /\ chain \in BOOLEAN
  /\ init \in Phrases \cup {None}
  /\ dek \in Phrases \cup {None}
  /\ lazy \in {"none", "running", "built", "failed"}
  /\ peer \in Ids \cup {None}
  /\ swarm \in Ids \cup {None}
  /\ op \in [Procs -> OpRecord]
  /\ \A p \in Procs :
       /\ op[p].pc \in {"putSelf", "put", "putNew"} => op[p].item # None
       /\ op[p].pc = "idle" => op[p].kind = "none" /\ op[p].item = None
  /\ calls \in 0..MaxCalls
  /\ ready \in BOOLEAN /\ twin \in BOOLEAN
  /\ spoiled \in BOOLEAN /\ meddled \in BOOLEAN
  /\ owned \subseteq Ids

Init ==
  /\ store \in FirstStores
  /\ init \in Phrases
  /\ chain = FALSE /\ dek = None
  /\ lazy = "none" /\ peer = None /\ swarm = None
  /\ op = [p \in Procs |-> Idle]
  /\ calls = 0
  /\ ready = FALSE /\ twin = FALSE /\ spoiled = FALSE /\ meddled = FALSE
  /\ owned = {store[n].id : n \in {m \in Names \ {Self} : store[m] # None}}

At(p, pc) == op[p].pc = pc
Busy(p) == ~At(p, "idle")
Goto(p, pc) == op' = [op EXCEPT ![p].pc = pc]

(* Mutant: what the call had in hand stays.                                *)
Suspend(p) == op' = [op EXCEPT ![p].pc = "idle"]
Return(p) == op' = [op EXCEPT ![p] = Idle]

EngineUnchanged == UNCHANGED <<chain, init, dek, ready, twin>>
LazyUnchanged == UNCHANGED <<lazy, peer, swarm>>
StoreUnchanged == UNCHANGED <<store, owned>>
CallsUnchanged == UNCHANGED <<calls, spoiled, meddled>>

Sure(key) == key # None /\ key.sure
IdsAt(N) == {store[n].id : n \in {m \in N : store[m] # None}}

-----------------------------------------------------------------------------
(* Calls of KeyApi, and the first use of SwarmService                      *)

NamesOf(r) == {r.name, r.new} \ {None}

Generate(n) == Op("generate", "test", n, None)
Remove(n) == Op("remove", "test", n, None)
Rename(n, m) == Op("rename", "test", n, m)
BuildSwarm == Op("swarm", "test", None, None)

Call(p) ==
  /\ At(p, "idle") /\ calls < MaxCalls
  /\ \E n, m \in Names :
       \E r \in {Generate(n), Remove(n), Rename(n, m)} :
         LET others == {q \in Procs \ {p} : Busy(q) /\ NamesOf(op[q]) \cap NamesOf(r) # {}}
             mixing == IF others = {} THEN {} ELSE others \cup {p}
             held == {op[q].item.id : q \in {o \in others : op[o].item # None}}
         IN /\ op' = [q \in Procs |-> [(IF q = p THEN r ELSE op[q])
                                          EXCEPT !.mixed = @ \/ q \in mixing]]
            /\ owned' = IF others = {} THEN owned ELSE (owned \ IdsAt(NamesOf(r))) \ held
            /\ meddled' = (meddled \/ (Self \in NamesOf(r) /\ (lazy # "none" \/ ~ready)))
  /\ calls' = calls + 1
  /\ UNCHANGED <<store, spoiled>>
  /\ EngineUnchanged /\ LazyUnchanged

(* AsyncLazy starts its factory once and keeps its outcome.                *)
StartSwarm(p) ==
  /\ At(p, "idle") /\ lazy = "none"
  /\ lazy' = "running"
  /\ op' = [op EXCEPT ![p] = BuildSwarm]
  /\ meddled' = (meddled \/ \E q \in Procs : Self \in NamesOf(op[q]))
  /\ UNCHANGED <<peer, swarm, calls, spoiled>>
  /\ EngineUnchanged /\ StoreUnchanged

(* The call ends with an exception.                                        *)
Throw(p) ==
  /\ Return(p)
  /\ lazy' = IF op[p].kind = "swarm" THEN "failed" ELSE lazy
  /\ UNCHANGED <<peer, swarm>>

-----------------------------------------------------------------------------
(* IpfsEngine.KeyChainAsync                                                *)

Start(p) ==
  IF op[p].kind = "generate" THEN "make"
  ELSE IF op[p].kind = "swarm" THEN (IF op[p].id = None THEN "peer" ELSE "private")
  ELSE "find"

(* The caller gets the key chain.                                          *)
Enter(p, sure) == op' = [op EXCEPT ![p].pc = Start(p), ![p].sure = sure]

(* A key chain that is set is handed out, whatever state it is in.         *)
Test(p) ==
  /\ At(p, "test")
  /\ IF chain THEN Enter(p, ready) ELSE Goto(p, "create")
  /\ EngineUnchanged /\ LazyUnchanged /\ StoreUnchanged /\ CallsUnchanged

Create(p) ==
  /\ At(p, "create")
  /\ chain' = TRUE
  /\ twin' = (twin \/ chain)
  /\ Goto(p, "phrase")
  /\ UNCHANGED <<init, dek, ready>>
  /\ LazyUnchanged /\ StoreUnchanged /\ CallsUnchanged

Phrase(p) ==
  /\ At(p, "phrase")
  /\ Goto(p, IF init = None THEN "findSelf" ELSE "derive")
  /\ EngineUnchanged /\ LazyUnchanged /\ StoreUnchanged /\ CallsUnchanged

(* SetPassphraseAsync; it throws if another call has disposed the phrase.  *)
Derive(p) ==
  /\ At(p, "derive")
  /\ IF init = None THEN Throw(p) /\ UNCHANGED dek
     ELSE dek' = init /\ Goto(p, "verify") /\ LazyUnchanged
  /\ UNCHANGED <<chain, init, ready, twin>>
  /\ StoreUnchanged /\ CallsUnchanged

(* UseEncryptedKey(key) with the present derived key.                      *)
Readable(key) == key.phrase = dek

(* Mutant: the pass phrase is not tried on Self.                           *)
AnyPhrase(key) == TRUE
Accepts(key) == Readable(key)

(* Keys that were made with a chain that was ready are stored, or in hand. *)
SureKeys ==
  (\E n \in Names : Sure(store[n])) \/ (\E q \in Procs : Sure(op[q].item))

(* The phrase is tried on Self and disposed.  If another first caller has  *)
(* set it to null, Dispose throws, unless it was read before.              *)
Verify(p) ==
  LET accepted == IF store[Self] = None THEN TRUE ELSE Accepts(store[Self]) IN
  /\ At(p, "verify")
  /\ \/ /\ accepted
        /\ init' = None /\ Goto(p, "findSelf") /\ LazyUnchanged
        /\ spoiled' = (spoiled \/ (store[Self] = None /\ SureKeys))
     \/ /\ ~accepted \/ init = None
        /\ Throw(p) /\ UNCHANGED <<init, spoiled>>
  /\ UNCHANGED <<chain, dek, ready, twin, calls, meddled>>
  /\ StoreUnchanged

(* Mutant: Self is generated whether it is there or not.                   *)
AlwaysMissing == TRUE
SelfMissing == store[Self] = None

FindSelf(p) ==
  /\ At(p, "findSelf")
  /\ IF SelfMissing THEN Goto(p, "makeSelf") /\ UNCHANGED ready
     ELSE Enter(p, TRUE) /\ ready' = TRUE
  /\ UNCHANGED <<chain, init, dek, twin>>
  /\ LazyUnchanged /\ StoreUnchanged /\ CallsUnchanged

(* A key pair that was never seen before.                                  *)
Seen == IdsAt(Names) \cup owned \cup {peer, swarm}
        \cup {op[q].item.id : q \in {o \in Procs : op[o].item # None}}
NewId == CHOOSE i \in Ids : i \notin Seen

(* GeneratePrivateKeyAsync, or ImportAsync: the key is encrypted.          *)
NewEntry(name, sure) == [id |-> NewId, name |-> name, phrase |-> dek, sure |-> sure]

MakeSelf(p) ==
  /\ At(p, "makeSelf") /\ ~(Ids \subseteq Seen)
  /\ op' = [op EXCEPT ![p].pc = "putSelf", ![p].item = NewEntry(Self, TRUE)]
  /\ EngineUnchanged /\ LazyUnchanged /\ StoreUnchanged /\ CallsUnchanged

(* A Self that a user made in the meantime is overwritten.                 *)
PutSelf(p) ==
  /\ At(p, "putSelf")
  /\ store' = [store EXCEPT ![Self] = op[p].item]
  /\ op' = [op EXCEPT ![p].pc = Start(p), ![p].sure = TRUE, ![p].item = None]
  /\ ready' = TRUE
  /\ owned' = owned \ IdsAt({Self})
  /\ UNCHANGED <<chain, init, dek, twin>>
  /\ LazyUnchanged /\ CallsUnchanged

-----------------------------------------------------------------------------
(* KeyChain: GeneratePrivateKeyAsync and ImportAsync, RemoveAsync,         *)
(* RenameAsync                                                             *)

Make(p) ==
  /\ At(p, "make") /\ ~(Ids \subseteq Seen)
  /\ op' = [op EXCEPT ![p].pc = "put", ![p].item = NewEntry(op[p].name, op[p].sure)]
  /\ EngineUnchanged /\ LazyUnchanged /\ StoreUnchanged /\ CallsUnchanged

(* A key of the same name is overwritten.                                  *)
Put(p) ==
  LET r == op[p] IN
  /\ At(p, "put")
  /\ store' = [store EXCEPT ![r.name] = r.item]
  /\ owned' = (owned \ IdsAt({r.name})) \cup (IF r.mixed THEN {} ELSE {r.item.id})
  /\ spoiled' = (spoiled \/ (r.name = Self /\ ~r.item.sure))
  /\ Return(p)
  /\ EngineUnchanged /\ LazyUnchanged /\ UNCHANGED <<calls, meddled>>

(* Mutant: RenameAsync leaves the name in the key.                         *)
Kept(key, name) == key
Renamed(key, name) == [key EXCEPT !.name = name]

Find(p) ==
  LET r == op[p]
      key == store[r.name]
  IN /\ At(p, "find")
     /\ IF key = None THEN Return(p)
        ELSE IF r.kind = "remove" THEN Goto(p, "drop")
        ELSE op' = [op EXCEPT ![p].pc = "putNew", ![p].item = Renamed(key, r.new)]
     /\ EngineUnchanged /\ LazyUnchanged /\ StoreUnchanged /\ CallsUnchanged

(* Mutant: RenameAsync writes the old file.                                *)
OldFile(r) == r.name
NewFile(r) == r.new

PutNew(p) ==
  LET r == op[p] IN
  /\ At(p, "putNew")
  /\ store' = [store EXCEPT ![NewFile(r)] = r.item]
  /\ owned' = owned \ (IdsAt({r.new}) \ {r.item.id})
  /\ spoiled' = (spoiled \/ (r.new = Self /\ ~r.item.sure))
  /\ Goto(p, "drop")
  /\ EngineUnchanged /\ LazyUnchanged /\ UNCHANGED <<calls, meddled>>

(* RemoveAsync is asked to give the key up; so is a RenameAsync of a key   *)
(* to the name it has.                                                     *)
GivesUp(r) == r.kind = "remove" \/ r.new = r.name \/ r.mixed

Drop(p) ==
  LET r == op[p] IN
  /\ At(p, "drop")
  /\ store' = [store EXCEPT ![r.name] = None]
  /\ owned' = IF GivesUp(r) THEN owned \ IdsAt({r.name}) ELSE owned
  /\ Return(p)
  /\ EngineUnchanged /\ LazyUnchanged /\ CallsUnchanged

-----------------------------------------------------------------------------
(* IpfsEngine.LocalPeer and SwarmService                                   *)

FindPeer(p) ==
  /\ At(p, "peer")
  /\ IF store[Self] = None THEN Throw(p)
     ELSE /\ op' = [op EXCEPT ![p].pc = "public", ![p].id = store[Self].id]
          /\ LazyUnchanged
  /\ EngineUnchanged /\ StoreUnchanged /\ CallsUnchanged

(* GetIpfsPublicKeyAsync, which allows for a missing key.                  *)
PublicKey(p) ==
  /\ At(p, "public")
  /\ IF store[Self] # None /\ ~Readable(store[Self]) THEN Throw(p)
     ELSE /\ peer' = op[p].id
          /\ Goto(p, "test")
          /\ UNCHANGED <<lazy, swarm>>
  /\ EngineUnchanged /\ StoreUnchanged /\ CallsUnchanged

PrivateKey(p) ==
  /\ At(p, "private")
  /\ IF store[Self] = None \/ ~Readable(store[Self]) THEN Throw(p)
     ELSE /\ swarm' = store[Self].id
          /\ lazy' = "built"
          /\ Return(p)
          /\ UNCHANGED peer
  /\ EngineUnchanged /\ StoreUnchanged /\ CallsUnchanged

-----------------------------------------------------------------------------
(* The process dies; the next one is given a pass phrase again.            *)
Crash ==
  /\ init' \in Phrases
  /\ chain' = FALSE /\ dek' = None
  /\ lazy' = "none" /\ peer' = None /\ swarm' = None
  /\ op' = [p \in Procs |-> Idle]
  /\ ready' = FALSE /\ twin' = FALSE /\ meddled' = FALSE
  /\ StoreUnchanged /\ UNCHANGED <<calls, spoiled>>

Next ==
  \/ \E p \in Procs :
       \/ Call(p) \/ StartSwarm(p)
       \/ Test(p) \/ Create(p) \/ Phrase(p) \/ Derive(p) \/ Verify(p)
       \/ FindSelf(p) \/ MakeSelf(p) \/ PutSelf(p)
       \/ Make(p) \/ Put(p) \/ Find(p) \/ PutNew(p) \/ Drop(p)
       \/ FindPeer(p) \/ PublicKey(p) \/ PrivateKey(p)
  \/ Crash

Spec == Init /\ [][Next]_vars

-----------------------------------------------------------------------------
(* Properties                                                              *)

(* A key that was made after KeyChainAsync had done its work (sure) can be *)
(* read in every session whose KeyChainAsync has done its work (ready),    *)
(* whatever phrases were tried in between, because SetPassphraseAsync      *)
(* tries the phrase on Self.  Excepted (spoiled): once a phrase was tried  *)
(* when there were such keys but no Self, which a user removed or renamed; *)
(* or a key made before the chain was ready was put in Self's place.       *)
KeysStayReadable ==
  ready /\ ~spoiled => \A n \in Names : Sure(store[n]) => Readable(store[n])

(* A key a user was given is in the repository until that user removes or  *)
(* overwrites it, or renames it to the name it has, also if the process    *)
(* dies between the two writes of RenameAsync.  Calls that overlap on a    *)
(* name make no such promise (mixed): two renames that cross, alice to bob *)
(* and bob to alice, lose both keys.                                       *)
KeyKept == owned \subseteq IdsAt(Names)

(* A key is listed under the name by which it is found (ListAsync reads    *)
(* the name in the key, all other operations use the name of its file).    *)
ListedUnderItsName == \A n \in Names : store[n] # None => store[n].name = n

(* The peer the node announces, the private key its swarm signs with and   *)
(* the key stored as Self are one and the same (LocalPeer, SwarmService),  *)
(* whatever users do with the other keys meanwhile, and with Self before.  *)
(* Excepted in a session: two first calls of KeyChainAsync at the same     *)
(* moment (twin), and a call that names Self while the chain is not ready  *)
(* or that runs when the identity is taken, or later (meddled).            *)
IdentityIsOne ==
  ~meddled /\ ~twin =>
    /\ peer # None => store[Self] # None /\ store[Self].id = peer
    /\ swarm # None => swarm = peer

=============================================================================
