------------------------------- MODULE Config -------------------------------
(***************************************************************************)
(* The configuration (ConfigApi) and the two lists kept in it: the         *)
(* bootstrap peers (BootstrapApi) and the address filters (SwarmApi), both *)
(* read, changed and written back without a lock.  The configuration is an *)
(* object in memory that SetAsync changes in place and SaveAsync writes to *)
(* one file, which is open for one writer or for several readers.          *)
(***************************************************************************)
EXTENDS Naturals, FiniteSets

CONSTANTS
  Procs,     \* the callers
  Addrs,     \* addresses
  Bootstrap, \* the key of the bootstrap peers
  Filters,   \* the key of the address filters, which the swarm is told about
  Defaults,  \* [Keys -> SUBSET Addrs], written where a key is missing
  Kinds,     \* the operations the callers use
  MaxCalls,  \* bound: calls in a behaviour
  None       \* no object, no list

Keys == {Bootstrap, Filters}
AllKinds == {"list", "add", "addDefaults", "remove", "removeAll", "replace"}
Static == "defaultConfiguration"   \* the static object of ConfigApi
Given == "given"                   \* the object a caller of ReplaceAsync passes

ASSUME ConstantsAssumption ==
  /\ Bootstrap # Filters
  /\ Defaults \in [Keys -> SUBSET Addrs]
  /\ Kinds \subseteq AllKinds
  /\ MaxCalls \in Nat
  /\ \A A \in SUBSET Addrs : None # A
  /\ None \notin Procs \cup Keys \cup Addrs \cup {Static, Given}
  /\ Static \notin Procs /\ Given \notin Procs /\ Static # Given

Lists == {None} \cup SUBSET Addrs      \* None: the key is missing
Contents == [Keys -> Lists]
Refs == Procs \cup {Static, Given}     \* p names the object that p loaded
NoKeys == [k \in Keys |-> None]

VARIABLES
  heap,     \* [Refs -> Contents], the JObjects
  cfg,      \* ConfigApi.configuration: the object in use, or None
  file,     \* the file: its state and the object that can be read from it
  white,    \* SwarmService.WhiteList
  op,       \* the operation of each process
  calls,    \* the calls so far
  known     \* history: [Keys -> [Addrs -> ...]], what acknowledged calls imply

vars == <<heap, cfg, file, white, op, calls, known>>

Pcs == {"idle", "check", "first", "load", "got", "list", "defaults", "assign",
        "replace", "open", "write", "close", "saved"}

OpRecord ==
  [ kind  : AllKinds \cup {"none"},
    pc    : Pcs,
    key   : Keys \cup {None},
    addr  : Addrs \cup {None},\* the address to add or to remove
    rest  : SUBSET Addrs,    \* AddDefaultsAsync: those to add after it
    ref   : Refs \cup {None},\* the object GetAsync returned
    val   : Lists,           \* the value to set
    then  : {"idle", "list", "assign"},           \* where GetAsync returns to
    fresh : BOOLEAN,         \* GetAsync is saving the default configuration
    after : {"idle", "defaults", "saved"},          \* where SetAsync returns to
    out   : Contents,        \* what the writer has serialised
    mixed : BOOLEAN ]        \* history: another call came in between

Idle == [ kind |-> "none", pc |-> "idle", key |-> None, addr |-> None, rest |-> {}, ref |-> None,
          val |-> None, then |-> "idle", fresh |-> FALSE, after |-> "idle",
          out |-> NoKeys, mixed |-> FALSE ]

TypeOK ==
  /\ heap \in [Refs -> Contents]
  /\ cfg \in Refs \cup {None}
  /\ file \in [state : {"absent", "whole", "torn"}, val : Contents]
  /\ white \subseteq Addrs
  /\ calls \in 0..MaxCalls
  /\ op \in [Procs -> OpRecord]
  /\ \A p \in Procs :
       op[p].pc \in {"list", "assign"} => op[p].ref # None /\ op[p].key # None
  /\ known \in [Keys -> [Addrs -> {"in", "out", "open"}]]

(* What a reader of the key is given.                                      *)
Listed(k, v) == IF v = None THEN Defaults[k] ELSE v

(* The file is missing, or an earlier session has left it.                 *)
Init ==
  /\ heap = [r \in Refs |-> NoKeys]
  /\ cfg = None
  /\ white = {}
  /\ op = [p \in Procs |-> Idle]
  /\ calls = 0
  /\ \/ /\ file = [state |-> "absent", val |-> NoKeys]
        /\ known = [k \in Keys |-> [a \in Addrs |-> "open"]]
     \/ \E c \in Contents :
          /\ file = [state |-> "whole", val |-> c]
          /\ known = [k \in Keys |-> [a \in Addrs |->
                        IF a \in Listed(k, c[k]) THEN "in" ELSE "out"]]

At(p, pc) == op[p].pc = pc
Busy(p) == ~At(p, "idle")
Step(p, r) == op' = [op EXCEPT ![p] = r] /\ UNCHANGED calls
Goto(p, pc) == Step(p, [op[p] EXCEPT !.pc = pc])

(* The calls in M are no longer alone.                                     *)
Mix(ops, M) == [q \in Procs |-> [ops[q] EXCEPT !.mixed = @ \/ q \in M]]

(* A call ends; an object to which nothing refers any more is gone.        *)
Return(p) ==
  /\ Step(p, Idle)
  /\ heap' = [r \in Refs |->
               IF r = cfg \/ \E q \in Procs \ {p} : op[q].ref = r THEN heap[r] ELSE NoKeys]

(* A call ends with an exception.  What it changed in memory stays.        *)
Throw(p) == Return(p) /\ UNCHANGED <<cfg, file, white, known>>
Proceed(p, r) == Step(p, r) /\ UNCHANGED heap

-----------------------------------------------------------------------------
(* Calls.  Before a call on a list returns, nothing is known of the        *)
(* addresses it is about, and two calls on one list disturb each other.    *)

About(r) == CASE r.kind \in {"add", "addDefaults", "remove"} -> {r.addr} \cup r.rest
              [] r.kind \in {"removeAll", "replace"} -> Addrs
              [] OTHER -> {}

Forget(K, A) ==
  [k \in Keys |-> [a \in Addrs |-> IF k \in K /\ a \in A THEN "open" ELSE known[k][a]]]

ListCall(kind, k, a, rest) ==
  [Idle EXCEPT !.kind = kind, !.pc = "check", !.key = k, !.addr = a, !.rest = rest,
               !.then = "list"]
RemoveAllCall ==
  [Idle EXCEPT !.kind = "removeAll", !.pc = "check", !.key = Bootstrap, !.val = {},
               !.then = "assign", !.after = "saved"]
ReplaceCall == [Idle EXCEPT !.kind = "replace", !.pc = "replace"]

Calls ==
  {ListCall("list", k, None, {}) : k \in Keys}
  \cup {ListCall(kind, k, a, {}) : kind \in {"add", "remove"}, k \in Keys, a \in Addrs}
  \cup {ListCall("addDefaults", Bootstrap, a, Defaults[Bootstrap] \ {a}) :
          a \in Defaults[Bootstrap]}
  \cup {RemoveAllCall, ReplaceCall}

Call(p) ==
  /\ At(p, "idle") /\ calls < MaxCalls /\ calls' = calls + 1
  /\ \E r \in Calls :
       LET others == {q \in Procs \ {p} : Busy(q) /\ op[q].key = r.key}
           mixing == IF others = {} THEN {} ELSE others \cup {p}
       IN /\ r.kind \in Kinds
          /\ r.kind = "replace" => \A q \in Procs : op[q].ref # Given /\ op[q].kind # "replace"
          /\ r.kind = "replace" => cfg # Given
          /\ op' = Mix([op EXCEPT ![p] = r], mixing)
          /\ known' = IF r.kind = "replace" THEN Forget(Keys, Addrs)
                      ELSE Forget({r.key}, About(r))
  /\ UNCHANGED <<heap, cfg, file, white>>

-----------------------------------------------------------------------------
(* ConfigApi.GetAsync                                                      *)

(* Mutant: the object is not handed on.                                    *)
Forgotten(p) == [op[p] EXCEPT !.pc = op[p].then, !.then = "idle"]

Returned(p) == [op[p] EXCEPT !.pc = op[p].then, !.then = "idle", !.ref = cfg]

Check(p) ==
  /\ At(p, "check")
  /\ IF cfg = None THEN Goto(p, "first") ELSE Step(p, Returned(p))
  /\ UNCHANGED <<heap, cfg, file, white, known>>

(* Another caller has the file open.                                       *)
InUse(p, pcs) == \E q \in Procs \ {p} : op[q].pc \in pcs

(* The file is missing: the static object becomes the configuration.       *)
FirstDefault(p) ==
  /\ At(p, "first") /\ file.state = "absent"
  /\ cfg' = Static
  /\ op' = Mix([op EXCEPT ![p].pc = "open", ![p].fresh = TRUE],
               {q \in Procs : op[q].ref \notin {None, Static}})
  /\ UNCHANGED <<heap, calls, file, white, known>>

(* File.OpenText, which a writer makes fail.                               *)
FirstOpen(p) ==
  /\ At(p, "first") /\ file.state # "absent"
  /\ IF InUse(p, {"write", "close"}) THEN Throw(p)
     ELSE Goto(p, "load") /\ UNCHANGED <<heap, cfg, file, white, known>>

(* The object that was loaded replaces the one another caller loaded in    *)
(* the meantime, which that caller still changes.                          *)
Load(p) ==
  /\ At(p, "load")
  /\ IF file.state = "torn" THEN Throw(p)
     ELSE /\ heap' = [heap EXCEPT ![p] = file.val]
          /\ cfg' = p
          /\ op' = Mix([op EXCEPT ![p].pc = "got"], {q \in Procs \ {p} : op[q].ref # None})
          /\ UNCHANGED <<calls, file, white, known>>

Got(p) ==
  /\ At(p, "got")
  /\ Step(p, Returned(p))
  /\ UNCHANGED <<heap, cfg, file, white, known>>

-----------------------------------------------------------------------------
(* ConfigApi.SetAsync, ReplaceAsync and SaveAsync                          *)

Assign(p) ==
  LET r == op[p] IN
  /\ At(p, "assign")
  /\ heap' = [heap EXCEPT ![r.ref][r.key] = r.val]
  /\ Step(p, [r EXCEPT !.pc = "open", !.val = None])
  /\ known' = IF r.mixed THEN Forget({r.key}, Addrs) ELSE known
  /\ UNCHANGED <<cfg, file, white>>

Replace(p) ==
  /\ At(p, "replace")
  /\ heap' = [heap EXCEPT ![Given] = NoKeys]
  /\ cfg' = Given
  /\ op' = Mix([op EXCEPT ![p].pc = "open", ![p].after = "saved"], {q \in Procs : Busy(q)})
  /\ known' = Forget(Keys, Addrs)
  /\ UNCHANGED <<calls, file, white>>

(* Mutant: the file is cut when it is opened.                              *)
Truncated == [file EXCEPT !.state = "torn"]

(* File.OpenWrite creates the file and does not cut it.                    *)
Opened == IF file.state = "absent" THEN [file EXCEPT !.state = "torn"] ELSE file

Open(p) ==
  /\ At(p, "open")
  /\ IF InUse(p, {"load", "write", "close"}) THEN Throw(p)
     ELSE /\ Step(p, [op[p] EXCEPT !.pc = "write"])
          /\ file' = Opened
          /\ UNCHANGED <<heap, cfg, white, known>>

(* configuration.WriteToAsync, into a buffer.                              *)
Write(p) ==
  /\ At(p, "write")
  /\ Step(p, [op[p] EXCEPT !.pc = "close", !.out = heap[cfg]])
  /\ UNCHANGED <<heap, cfg, file, white, known>>

Close(p) ==
  /\ At(p, "close")
  /\ file' = [state |-> "whole", val |-> op[p].out]
  /\ Step(p, [op[p] EXCEPT !.pc = IF op[p].fresh THEN "got" ELSE op[p].after,
                       !.fresh = FALSE, !.out = NoKeys])
  /\ UNCHANGED <<heap, cfg, white, known>>

-----------------------------------------------------------------------------
(* The lists: ListAsync, AddAsync, RemoveAsync and their likes             *)

Set(r, v, after) ==
  [r EXCEPT !.pc = "check", !.then = "assign", !.val = v, !.after = after]

(* The address is dealt with: AddDefaultsAsync goes on to the next one.    *)
GoOn(p, r) ==
  IF r.rest = {} THEN Return(p)
  ELSE \E a \in r.rest :
         Proceed(p, [r EXCEPT !.pc = "check", !.then = "list", !.addr = a, !.rest = @ \ {a}])

(* Mutant: the new address replaces the list.                              *)
Only(v, a) == {a}

With(v, a) == v \cup {a}

(* What the call does with the list v it was given.                        *)
Use(p, r, v) ==
  CASE r.kind = "list" -> Return(p)
    [] r.kind = "remove" /\ r.addr \in v -> Proceed(p, Set(r, v \ {r.addr}, "saved"))
    [] r.kind \in {"add", "addDefaults"} /\ r.addr \notin v ->
         Proceed(p, Set(r, With(v, r.addr), "saved"))
    [] OTHER -> GoOn(p, r)

(* The key is missing: its defaults are written before they are returned.  *)
List(p) ==
  LET r == op[p]
      v == heap[r.ref][r.key]
  IN /\ At(p, "list")
     /\ IF v = None THEN Proceed(p, Set(r, Defaults[r.key], "defaults")) ELSE Use(p, r, v)
     /\ UNCHANGED <<cfg, file, white, known>>

DefaultsSaved(p) ==
  /\ At(p, "defaults")
  /\ Use(p, op[p], Defaults[op[p].key])
  /\ UNCHANGED <<cfg, file, white, known>>

(* The list is saved; the swarm is told of a filter.  A call that was      *)
(* alone on its list is acknowledged.                                      *)
Acknowledge(r) ==
  IF r.mixed \/ r.kind \in {"list", "replace"} THEN known
  ELSE IF r.kind = "removeAll" THEN [known EXCEPT ![r.key] = [a \in Addrs |-> "out"]]
  ELSE [known EXCEPT ![r.key][r.addr] = IF r.kind = "remove" THEN "out" ELSE "in"]

(* Mutant: the swarm is told of every filter as if it were added.          *)
Added(r) == IF r.key = Filters THEN white \cup {r.addr} ELSE white

Told(r) == IF r.key # Filters THEN white
           ELSE IF r.kind = "remove" THEN white \ {r.addr}
           ELSE white \cup {r.addr}

Saved(p) ==
  LET r == op[p] IN
  /\ At(p, "saved")
  /\ white' = Told(r)
  /\ known' = Acknowledge(r)
  /\ GoOn(p, r)
  /\ UNCHANGED <<cfg, file>>

-----------------------------------------------------------------------------
(* The process dies and a new one is started on the same repository.  A    *)
(* file that is being written may be left unreadable.                      *)
Crash ==
  /\ \E torn \in {s \in BOOLEAN : s => \E p \in Procs : op[p].pc \in {"write", "close"}} :
       /\ file' = IF torn THEN [file EXCEPT !.state = "torn"] ELSE file
       /\ known' = IF torn THEN Forget(Keys, Addrs) ELSE known
  /\ heap' = [r \in Refs |-> NoKeys]
  /\ cfg' = None
  /\ white' = {}
  /\ op' = [p \in Procs |-> Idle]
  /\ UNCHANGED calls

Next ==
  \/ \E p \in Procs :
       \/ Call(p)
       \/ Check(p) \/ FirstDefault(p) \/ FirstOpen(p) \/ Load(p) \/ Got(p)
       \/ Assign(p) \/ Replace(p) \/ Open(p) \/ Write(p) \/ Close(p)
       \/ List(p) \/ DefaultsSaved(p) \/ Saved(p)
  \/ Crash

Spec == Init /\ [][Next]_vars

-----------------------------------------------------------------------------
(* Properties                                                              *)

Agrees(c) ==
  \A k \in Keys, a \in Addrs :
    /\ known[k][a] = "in" => a \in Listed(k, c[k])
    /\ known[k][a] = "out" => a \notin Listed(k, c[k])

(* What a call that nobody disturbed has added to or removed from a list   *)
(* is what the next reader is given, whatever other lists are changed at   *)
(* the same time, whichever calls fail and whoever loads the configuration *)
(* again (ConfigApi.GetAsync and SetAsync share one object).               *)
AcknowledgedIsListed == cfg # None => Agrees(heap[cfg])

(* The file can be read and holds all that was acknowledged, at every      *)
(* moment at which the process may die (ConfigApi.SaveAsync before the     *)
(* calls return, and one writer at a time).                                *)
AcknowledgedIsStored ==
  (\E k \in Keys, a \in Addrs : known[k][a] # "open") =>
    file.state = "whole" /\ Agrees(file.val)

(* A filter whose removal was acknowledged is no longer in the white list  *)
(* of the swarm (RemoveAddressFilterAsync: the list first, then the swarm).*)
RemovedFilterIsDropped ==
  \A a \in Addrs : known[Filters][a] = "out" => a \notin white

=============================================================================
