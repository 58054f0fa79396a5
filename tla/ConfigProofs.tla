---------------------------- MODULE ConfigProofs ----------------------------
(***************************************************************************)
(* The configuration for any callers, addresses and numbers of calls: what *)
(* a call that was alone on its list has added or removed is listed, is in *)
(* the file at every moment, and a removed filter stays removed, whichever *)
(* other calls run, fail or load the configuration again.                  *)
(***************************************************************************)
EXTENDS Config, TLAPS

ListKinds == {"list", "add", "addDefaults", "remove", "removeAll"}

-----------------------------------------------------------------------------
(* The inductive invariant: what a process has in hand, at each point.     *)

(* The control of a call, whatever the state around it.                    *)
Shape(r) ==
  /\ r.pc = "idle" <=> r.kind = "none"
  /\ r.kind = "none" => r.ref = None
  /\ r.pc = "replace" => r.kind = "replace"
  /\ r.then # "idle" => r.pc \in {"check", "first", "load", "got"} \/ r.fresh
  /\ r.then # "idle" \/ r.after = "defaults" => r.kind \in ListKinds
  /\ r.kind \in ListKinds => r.key \in Keys
  /\ r.kind \in {"add", "addDefaults", "remove"} => r.addr \in Addrs
  /\ r.kind = "list" => r.pc # "saved" /\ r.after # "saved"
  /\ r.kind = "removeAll" =>
       r.key = Bootstrap /\ r.pc \notin {"list", "defaults"} /\ r.then # "list" /\ r.after = "saved"
  /\ r.kind = "replace" =>
       /\ r.pc \in {"replace", "open", "write", "close", "saved"}
       /\ r.key = None /\ r.ref = None /\ ~r.fresh
       /\ r.pc # "replace" => r.after = "saved"
  /\ r.pc \in {"check", "first", "load", "got"} \/ r.fresh => r.then \in {"list", "assign"}
  /\ r.pc \in {"first", "load", "got"} \/ r.fresh => r.ref = None
  /\ r.fresh => r.pc \in {"open", "write", "close"}
  /\ \/ r.pc \in {"list", "assign", "defaults", "saved"}
     \/ r.pc \in {"open", "write", "close"} /\ ~r.fresh
     => r.kind = "replace" \/ r.ref # None
  /\ \/ r.pc = "assign" \/ r.then = "assign"
     \/ r.pc \in {"open", "write", "close"} /\ ~r.fresh
     => r.after \in {"defaults", "saved"}
  /\ r.pc \in {"defaults", "saved"} => r.after = r.pc
  /\ r.addr \notin r.rest
  /\ r.rest # {} => r.kind = "addDefaults"

(* The list v of the key k agrees with what is known of its addresses.     *)
Holds(kn, k, v) ==
  \A a \in Addrs : /\ kn[k][a] = "in" => a \in v
                   /\ kn[k][a] = "out" => a \notin v

Fits(kn, c) == \A k \in Keys : Holds(kn, k, Listed(k, c[k]))

(* The list v is as the call will promise when it is acknowledged.         *)
Promised(r, v) ==
  /\ r.kind \in {"add", "addDefaults"} => r.addr \in v
  /\ r.kind = "remove" => r.addr \notin v
  /\ r.kind = "removeAll" => v = {}

Done(r, c) == ~r.mixed /\ r.kind \in ListKinds => Promised(r, Listed(r.key, c[r.key]))

(* The list that the call promises is set, and is being saved.             *)
Pending(r) == r.pc \in {"open", "write", "close"} /\ ~r.fresh /\ r.after = "saved"

(* A call against the configuration c, its contents, what is known, and    *)
(* the file.                                                               *)
RefOK(r, c) ==
  /\ ~r.mixed /\ r.ref # None => r.ref = c
  /\ r.ref # None \/ r.pc \in {"got", "open", "write", "close", "saved"} => c # None

KnownOK(r, kn) ==
  /\ r.kind \in ListKinds => \A a \in About(r) : kn[r.key][a] = "open"
  /\ ~r.mixed /\ (r.then = "assign" \/ r.pc = "assign") =>
       r.val # None /\ Holds(kn, r.key, r.val)
  /\ ~r.mixed /\ r.after = "defaults" => Holds(kn, r.key, Defaults[r.key])
  /\ r.pc = "close" => Fits(kn, r.out)

ValueOK(r) ==
  /\ ~r.mixed /\ (r.then = "assign" \/ r.pc = "assign") /\ r.after = "saved" => Promised(r, r.val)
  /\ r.pc = "close" /\ Pending(r) => Done(r, r.out)

StoredOK(r, cur, f) ==
  /\ Pending(r) \/ r.pc = "saved" => Done(r, cur)
  /\ r.pc = "saved" => f.state = "whole" /\ Done(r, f.val)

Local(r, c, cur, kn, f) ==
  Shape(r) /\ RefOK(r, c) /\ KnownOK(r, kn) /\ ValueOK(r) /\ StoredOK(r, cur, f)

(* Two calls: on one list neither is alone, one has the file open, and     *)
(* what one writes holds what the other has saved before.                  *)
Pair(r, s) ==
  /\ r.pc # "idle" /\ s.pc # "idle" /\ r.key # None /\ s.key = r.key => r.mixed
  /\ r.pc \in {"write", "close"} => s.pc \notin {"load", "write", "close"}
  /\ r.pc = "close" /\ s.pc = "saved" => Done(s, r.out)

Current == IF cfg = None THEN NoKeys ELSE heap[cfg]

OpsOK ==
  /\ \A p \in Procs : Local(op[p], cfg, Current, known, file)
  /\ \A p, q \in Procs : p # q => Pair(op[p], op[q])

Kept == AcknowledgedIsListed /\ AcknowledgedIsStored /\ RemovedFilterIsDropped

IInv == TypeOK /\ OpsOK /\ Kept

-----------------------------------------------------------------------------
(* Constants and records                                                   *)

LEMMA NoneFacts ==
  /\ None \notin Keys /\ None \notin Addrs /\ None \notin Refs /\ None \notin SUBSET Addrs
  /\ Bootstrap \in Keys /\ Filters \in Keys /\ Static \in Refs /\ Given \in Refs
  /\ Defaults \in [Keys -> SUBSET Addrs]
  /\ NoKeys \in Contents
BY ConstantsAssumption DEF Refs, Keys, NoKeys, Contents, Lists

LEMMA IdleFacts ==
  /\ Idle \in OpRecord
  /\ Idle.pc = "idle" /\ Idle.kind = "none" /\ Idle.key = None /\ Idle.ref = None
  /\ Idle.addr = None /\ Idle.rest = {} /\ Idle.then = "idle" /\ Idle.after = "idle"
  /\ Idle.fresh = FALSE /\ Idle.mixed = FALSE
BY NoneFacts DEF Idle, OpRecord, Pcs, AllKinds, Lists

LEMMA SetMixed ==
  ASSUME NEW r \in OpRecord
  PROVE  LET e == [r EXCEPT !.mixed = TRUE] IN
         /\ e \in OpRecord
         /\ e.mixed = TRUE
         /\ e.kind = r.kind /\ e.pc = r.pc /\ e.key = r.key /\ e.addr = r.addr /\ e.rest = r.rest
         /\ e.ref = r.ref /\ e.val = r.val /\ e.then = r.then /\ e.fresh = r.fresh
         /\ e.after = r.after /\ e.out = r.out
BY DEF OpRecord

LEMMA SetPc ==
  ASSUME NEW r \in OpRecord, NEW pc \in Pcs
  PROVE  LET e == [r EXCEPT !.pc = pc] IN
         /\ e \in OpRecord
         /\ e.pc = pc
         /\ e.kind = r.kind /\ e.key = r.key /\ e.addr = r.addr /\ e.rest = r.rest
         /\ e.ref = r.ref /\ e.val = r.val /\ e.then = r.then /\ e.fresh = r.fresh
         /\ e.after = r.after /\ e.out = r.out /\ e.mixed = r.mixed
BY DEF OpRecord

LEMMA SetReturned ==
  ASSUME NEW r \in OpRecord, NEW c \in Refs \cup {None}
  PROVE  LET e == [r EXCEPT !.pc = r.then, !.then = "idle", !.ref = c] IN
         /\ e \in OpRecord
         /\ e.pc = r.then /\ e.then = "idle" /\ e.ref = c
         /\ e.kind = r.kind /\ e.key = r.key /\ e.addr = r.addr /\ e.rest = r.rest
         /\ e.val = r.val /\ e.fresh = r.fresh
         /\ e.after = r.after /\ e.out = r.out /\ e.mixed = r.mixed
BY DEF OpRecord, Pcs

LEMMA SetFresh ==
  ASSUME NEW r \in OpRecord
  PROVE  LET e == [r EXCEPT !.pc = "open", !.fresh = TRUE] IN
         /\ e \in OpRecord
         /\ e.pc = "open" /\ e.fresh = TRUE
         /\ e.kind = r.kind /\ e.key = r.key /\ e.addr = r.addr /\ e.rest = r.rest
         /\ e.ref = r.ref /\ e.val = r.val /\ e.then = r.then
         /\ e.after = r.after /\ e.out = r.out /\ e.mixed = r.mixed
BY DEF OpRecord, Pcs

LEMMA SetAssigned ==
  ASSUME NEW r \in OpRecord
  PROVE  LET e == [r EXCEPT !.pc = "open", !.val = None] IN
         /\ e \in OpRecord
         /\ e.pc = "open" /\ e.val = None
         /\ e.kind = r.kind /\ e.key = r.key /\ e.addr = r.addr /\ e.rest = r.rest
         /\ e.ref = r.ref /\ e.then = r.then /\ e.fresh = r.fresh
         /\ e.after = r.after /\ e.out = r.out /\ e.mixed = r.mixed
BY DEF OpRecord, Pcs, Lists

LEMMA SetReplaced ==
  ASSUME NEW r \in OpRecord
  PROVE  LET e == [r EXCEPT !.pc = "open", !.after = "saved"] IN
         /\ e \in OpRecord
         /\ e.pc = "open" /\ e.after = "saved"
         /\ e.kind = r.kind /\ e.key = r.key /\ e.addr = r.addr /\ e.rest = r.rest
         /\ e.ref = r.ref /\ e.val = r.val /\ e.then = r.then /\ e.fresh = r.fresh
         /\ e.out = r.out /\ e.mixed = r.mixed
BY DEF OpRecord, Pcs

LEMMA SetWritten ==
  ASSUME NEW r \in OpRecord, NEW c \in Contents
  PROVE  LET e == [r EXCEPT !.pc = "close", !.out = c] IN
         /\ e \in OpRecord
         /\ e.pc = "close" /\ e.out = c
         /\ e.kind = r.kind /\ e.key = r.key /\ e.addr = r.addr /\ e.rest = r.rest
         /\ e.ref = r.ref /\ e.val = r.val /\ e.then = r.then /\ e.fresh = r.fresh
         /\ e.after = r.after /\ e.mixed = r.mixed
BY DEF OpRecord, Pcs

LEMMA SetClosed ==
  ASSUME NEW r \in OpRecord, NEW pc \in Pcs
  PROVE  LET e == [r EXCEPT !.pc = pc, !.fresh = FALSE, !.out = NoKeys] IN
         /\ e \in OpRecord
         /\ e.pc = pc /\ e.fresh = FALSE
         /\ e.kind = r.kind /\ e.key = r.key /\ e.addr = r.addr /\ e.rest = r.rest
         /\ e.ref = r.ref /\ e.val = r.val /\ e.then = r.then
         /\ e.after = r.after /\ e.mixed = r.mixed
BY NoneFacts DEF OpRecord

LEMMA SetSet ==
  ASSUME NEW r \in OpRecord, NEW v \in Lists, NEW after \in {"defaults", "saved"}
  PROVE  LET e == Set(r, v, after) IN
         /\ e \in OpRecord
         /\ e.pc = "check" /\ e.then = "assign" /\ e.val = v /\ e.after = after
         /\ e.kind = r.kind /\ e.key = r.key /\ e.addr = r.addr /\ e.rest = r.rest
         /\ e.ref = r.ref /\ e.fresh = r.fresh /\ e.out = r.out /\ e.mixed = r.mixed
BY DEF OpRecord, Pcs, Set

LEMMA SetNext ==
  ASSUME NEW r \in OpRecord, NEW a \in r.rest
  PROVE  LET e == [r EXCEPT !.pc = "check", !.then = "list", !.addr = a, !.rest = @ \ {a}] IN
         /\ e \in OpRecord
         /\ e.pc = "check" /\ e.then = "list" /\ e.addr = a /\ e.rest = r.rest \ {a}
         /\ e.kind = r.kind /\ e.key = r.key /\ e.val = r.val /\ e.after = r.after
         /\ e.ref = r.ref /\ e.fresh = r.fresh /\ e.out = r.out /\ e.mixed = r.mixed
BY DEF OpRecord, Pcs

-----------------------------------------------------------------------------
(* What the invariant loses nothing of                                     *)

Knowledge == [Keys -> [Addrs -> {"in", "out", "open"}]]

(* kn2 says nothing that kn does not say.                                  *)
Weaker(kn2, kn) ==
  \A k \in Keys, a \in Addrs : kn2[k][a] = kn[k][a] \/ kn2[k][a] = "open"

LEMMA HoldsWeaker ==
  ASSUME NEW kn, NEW kn2, Weaker(kn2, kn), NEW k \in Keys, NEW v, Holds(kn, k, v)
  PROVE  Holds(kn2, k, v)
BY DEF Weaker, Holds

LEMMA FitsWeaker ==
  ASSUME NEW kn, NEW kn2, Weaker(kn2, kn), NEW c, Fits(kn, c)
  PROVE  Fits(kn2, c)
BY HoldsWeaker DEF Fits

LEMMA AboutFacts ==
  ASSUME NEW r \in OpRecord, Shape(r)
  PROVE  About(r) \subseteq Addrs
BY DEF About, Shape, OpRecord

LEMMA KnownWeaker ==
  ASSUME NEW kn, NEW kn2, Weaker(kn2, kn), NEW r \in OpRecord, Shape(r), KnownOK(r, kn)
  PROVE  KnownOK(r, kn2)
<1>1. r.kind \in ListKinds => \A a \in About(r) : kn2[r.key][a] = "open"
  BY AboutFacts DEF KnownOK, Weaker, Shape
<1>2. r.kind \in ListKinds => r.key \in Keys
  BY DEF Shape
<1>3. r.then = "assign" \/ r.pc = "assign" \/ r.after = "defaults" => r.kind \in ListKinds
  BY DEF Shape, OpRecord, AllKinds, ListKinds
<1> QED
  BY <1>1, <1>2, <1>3, HoldsWeaker, FitsWeaker DEF KnownOK

LEMMA LocalWeaker ==
  ASSUME NEW kn, NEW kn2, Weaker(kn2, kn), NEW r \in OpRecord, NEW c, NEW cur, NEW f,
         Local(r, c, cur, kn, f)
  PROVE  Local(r, c, cur, kn2, f)
BY KnownWeaker DEF Local

LEMMA LocalMixed ==
  ASSUME NEW r \in OpRecord, NEW c, NEW cur, NEW kn, NEW f,
         Shape(r), KnownOK(r, kn),
         r.ref # None \/ r.pc \in {"got", "open", "write", "close", "saved"} => c # None,
         r.pc = "saved" => f.state = "whole"
  PROVE  Local([r EXCEPT !.mixed = TRUE], c, cur, kn, f)
<1> DEFINE e == [r EXCEPT !.mixed = TRUE]
<1>1. e \in OpRecord /\ e.mixed = TRUE
      /\ e.kind = r.kind /\ e.pc = r.pc /\ e.key = r.key /\ e.addr = r.addr /\ e.rest = r.rest
      /\ e.ref = r.ref /\ e.val = r.val /\ e.then = r.then /\ e.fresh = r.fresh
      /\ e.after = r.after /\ e.out = r.out
  BY SetMixed
<1> HIDE DEF e
<1>2. Shape(e)
  BY <1>1 DEF Shape
<1>3. About(e) = About(r)
  BY <1>1 DEF About
<1>4. RefOK(e, c)
  BY <1>1 DEF RefOK
<1>5. KnownOK(e, kn)
  BY <1>1, <1>3 DEF KnownOK
<1>6. ValueOK(e) /\ StoredOK(e, cur, f)
  BY <1>1 DEF ValueOK, StoredOK, Done
<1> QED
  BY <1>2, <1>4, <1>5, <1>6 DEF Local, e

LEMMA PairMixed ==
  ASSUME NEW r \in OpRecord, NEW s \in OpRecord, Pair(r, s),
         NEW r2, r2 = r \/ r2 = [r EXCEPT !.mixed = TRUE],
         NEW s2, s2 = s \/ s2 = [s EXCEPT !.mixed = TRUE]
  PROVE  Pair(r2, s2)
<1>1. /\ r2.pc = r.pc /\ r2.key = r.key /\ r2.out = r.out
      /\ r2 = r \/ r2.mixed
  BY SetMixed
<1>2. /\ s2.pc = s.pc /\ s2.key = s.key /\ s2.kind = s.kind
      /\ s2 = s \/ s2.mixed
  BY SetMixed
<1>3. \A c : Done(s, c) => Done(s2, c)
  BY <1>2 DEF Done
<1> QED
  BY <1>1, <1>2, <1>3 DEF Pair

(* A step of p: the others are untouched, or no longer alone.              *)
LEMMA StepOps ==
  ASSUME TypeOK, OpsOK, NEW p \in Procs, op' \in [Procs -> OpRecord],
         \A q \in Procs \ {p} : op'[q] = op[q] \/ op'[q] = [op[q] EXCEPT !.mixed = TRUE],
         Local(op'[p], cfg', Current', known', file'),
         \A q \in Procs \ {p} : Local(op'[q], cfg', Current', known', file'),
         \A q \in Procs \ {p} : Pair(op'[p], op'[q]) /\ Pair(op'[q], op'[p])
  PROVE  OpsOK'
<1>1. \A q \in Procs : Local(op'[q], cfg', Current', known', file')
  OBVIOUS
<1>2. ASSUME NEW q \in Procs \ {p}, NEW s \in Procs \ {p}, q # s
      PROVE  Pair(op'[q], op'[s])
  <2>1. Pair(op[q], op[s])
    BY <1>2 DEF OpsOK
  <2>2. op[q] \in OpRecord /\ op[s] \in OpRecord
    BY DEF TypeOK
  <2> QED
    BY <2>1, <2>2, PairMixed
<1>3. \A q, s \in Procs : q # s => Pair(op'[q], op'[s])
  BY <1>2
<1> QED
  BY <1>1, <1>3 DEF OpsOK

(* A step of p after which the same configuration has the same contents.   *)
LEMMA OwnStep ==
  ASSUME IInv, NEW p \in Procs, NEW r \in OpRecord, op' = [op EXCEPT ![p] = r],
         heap' \in [Refs -> Contents], white' \in SUBSET Addrs, known' \in Knowledge,
         file' \in [state : {"absent", "whole", "torn"}, val : Contents],
         UNCHANGED <<cfg, calls>>, cfg # None => heap'[cfg] = heap[cfg],
         r.pc \in {"list", "assign"} => r.ref # None /\ r.key # None,
         Local(r, cfg, Current, known', file'),
         \A q \in Procs \ {p} : Local(op[q], cfg, Current, known', file'),
         \A q \in Procs \ {p} : Pair(r, op[q]) /\ Pair(op[q], r),
         Kept'
  PROVE  IInv'
<1>1. op' \in [Procs -> OpRecord] /\ op'[p] = r /\ \A q \in Procs \ {p} : op'[q] = op[q]
  BY DEF IInv, TypeOK
<1>2. Current' = Current
  BY DEF Current
<1>3. OpsOK'
  <2>1. \A q \in Procs \ {p} : Local(op'[q], cfg', Current', known', file')
    BY <1>1, <1>2
  <2> QED
    BY <1>1, <1>2, <2>1, StepOps DEF IInv
<1>4. TypeOK'
  BY <1>1 DEF IInv, TypeOK, Knowledge
<1> QED
  BY <1>3, <1>4 DEF IInv

(* The same, when nothing that is shared changes.                          *)
LEMMA LocalStep ==
  ASSUME IInv, NEW p \in Procs, NEW r \in OpRecord, op' = [op EXCEPT ![p] = r],
         heap' \in [Refs -> Contents],
         UNCHANGED <<cfg, file, calls, white, known>>, cfg # None => heap'[cfg] = heap[cfg],
         r.pc \in {"list", "assign"} => r.ref # None /\ r.key # None,
         Local(r, cfg, Current, known, file),
         \A q \in Procs \ {p} : Pair(r, op[q]) /\ Pair(op[q], r)
  PROVE  IInv'
<1>1. Kept'
  BY DEF IInv, Kept, AcknowledgedIsListed, AcknowledgedIsStored, RemovedFilterIsDropped, Agrees
<1>2. /\ white' \in SUBSET Addrs /\ known' \in Knowledge
      /\ file' \in [state : {"absent", "whole", "torn"}, val : Contents]
  BY DEF IInv, TypeOK, Knowledge
<1>3. \A q \in Procs \ {p} : Local(op[q], cfg, Current, known', file')
  BY DEF IInv, OpsOK
<1> QED
  BY <1>1, <1>2, <1>3, OwnStep

(* The points at which a call has no file open and nothing just saved.     *)
LEMMA PairSame ==
  ASSUME NEW r, NEW r2, NEW s, Pair(r, s), Pair(s, r), r.pc # "idle",
         r2.key = r.key, r2.mixed = r.mixed, r2.pc \notin {"load", "write", "close", "saved"}
  PROVE  Pair(r2, s) /\ Pair(s, r2)
BY DEF Pair

LEMMA IdleLocal ==
  ASSUME NEW c, NEW cur, NEW kn, NEW f
  PROVE  Local(Idle, c, cur, kn, f)
<1>1. Shape(Idle)
  BY IdleFacts, NoneFacts DEF Shape, ListKinds
<1>2. RefOK(Idle, c)
  BY IdleFacts DEF RefOK
<1>3. KnownOK(Idle, kn)
  BY IdleFacts DEF KnownOK, ListKinds
<1>4. ValueOK(Idle) /\ StoredOK(Idle, cur, f)
  BY IdleFacts DEF ValueOK, StoredOK, Pending
<1> QED
  BY <1>1, <1>2, <1>3, <1>4 DEF Local

LEMMA IdlePair ==
  ASSUME NEW s
  PROVE  Pair(Idle, s) /\ Pair(s, Idle)
BY IdleFacts DEF Pair

LEMMA ReturnHeap ==
  ASSUME TypeOK, NEW p \in Procs, Return(p)
  PROVE  heap' \in [Refs -> Contents] /\ (cfg # None => heap'[cfg] = heap[cfg])
BY NoneFacts DEF Return, TypeOK

LEMMA ReturnStep ==
  ASSUME IInv, NEW p \in Procs, Return(p), UNCHANGED <<cfg, file, white, known>>
  PROVE  IInv'
<1>1. op' = [op EXCEPT ![p] = Idle] /\ UNCHANGED calls
  BY DEF Return, Step
<1>2. heap' \in [Refs -> Contents] /\ (cfg # None => heap'[cfg] = heap[cfg])
  BY ReturnHeap DEF IInv
<1>3. Local(Idle, cfg, Current, known, file)
  BY IdleLocal
<1>4. \A q \in Procs \ {p} : Pair(Idle, op[q]) /\ Pair(op[q], Idle)
  BY IdlePair
<1> QED
  BY <1>1, <1>2, <1>3, <1>4, IdleFacts, LocalStep

-----------------------------------------------------------------------------
(* ConfigApi.GetAsync                                                      *)

(* The call of p, and the others, at the start of a step.                  *)
LEMMA OpFacts ==
  ASSUME IInv, NEW p \in Procs
  PROVE  /\ op[p] \in OpRecord
         /\ Local(op[p], cfg, Current, known, file)
         /\ \A q \in Procs \ {p} : op[q] \in OpRecord
         /\ \A q \in Procs \ {p} : Local(op[q], cfg, Current, known, file)
         /\ \A q \in Procs \ {p} : Pair(op[p], op[q]) /\ Pair(op[q], op[p])
BY DEF IInv, OpsOK, TypeOK

LEMMA ReturnedStep ==
  ASSUME IInv, NEW p \in Procs, op[p].pc \in {"check", "got"}, cfg # None,
         op[p].pc = "check" => op[p].fresh = FALSE,
         Step(p, Returned(p)), UNCHANGED <<heap, cfg, file, white, known>>
  PROVE  IInv'
<1> DEFINE r == op[p]
           e == Returned(p)
<1>1. /\ r \in OpRecord /\ Local(r, cfg, Current, known, file)
      /\ \A q \in Procs \ {p} : Pair(r, op[q]) /\ Pair(op[q], r)
  BY OpFacts
<1>2. r.fresh = FALSE /\ r.then \in {"list", "assign"} /\ r.kind \in ListKinds /\ r.key \in Keys
  BY <1>1 DEF Local, Shape, OpRecord
<1>3. cfg \in Refs \cup {None}
  BY DEF IInv, TypeOK
<1>4. /\ e \in OpRecord
      /\ e.pc = r.then /\ e.then = "idle" /\ e.ref = cfg
      /\ e.kind = r.kind /\ e.key = r.key /\ e.addr = r.addr /\ e.rest = r.rest
      /\ e.val = r.val /\ e.fresh = r.fresh
      /\ e.after = r.after /\ e.out = r.out /\ e.mixed = r.mixed
  BY <1>1, <1>3, SetReturned DEF Returned
<1>5. op' = [op EXCEPT ![p] = e] /\ UNCHANGED calls
  BY DEF Step
<1> HIDE DEF e
<1>6. Shape(e)
  BY <1>1, <1>2, <1>4 DEF Local, Shape
<1>7. About(e) = About(r)
  BY <1>4 DEF About
<1>8. Local(e, cfg, Current, known, file)
  <2>1. RefOK(e, cfg)
    BY <1>4 DEF RefOK
  <2>2. KnownOK(e, known)
    BY <1>1, <1>2, <1>4, <1>7 DEF Local, KnownOK
  <2>3. ValueOK(e)
    BY <1>1, <1>2, <1>4 DEF Local, ValueOK, Promised
  <2>4. StoredOK(e, Current, file)
    BY <1>2, <1>4 DEF StoredOK, Pending
  <2> QED
    BY <1>6, <2>1, <2>2, <2>3, <2>4 DEF Local
<1>9. \A q \in Procs \ {p} : Pair(e, op[q]) /\ Pair(op[q], e)
  BY <1>1, <1>2, <1>4, PairSame
<1>10. e.pc \in {"list", "assign"} => e.ref # None /\ e.key # None
  BY <1>2, <1>4, NoneFacts
<1>11. heap' \in [Refs -> Contents] /\ (cfg # None => heap'[cfg] = heap[cfg])
  BY DEF IInv, TypeOK
<1> QED
  BY <1>4, <1>5, <1>8, <1>9, <1>10, <1>11, LocalStep

(* A step from one point of GetAsync to another.                           *)
LEMMA GettingStep ==
  ASSUME IInv, NEW p \in Procs, NEW pc \in {"first", "load"},
         op[p].pc \in {"check", "first"}, op[p].pc = "check" => op[p].ref = None,
         pc = "load" => \A q \in Procs \ {p} : op[q].pc \notin {"write", "close"},
         Goto(p, pc), UNCHANGED <<heap, cfg, file, white, known>>
  PROVE  IInv'
<1> DEFINE r == op[p]
           e == [r EXCEPT !.pc = pc]
<1>1. /\ r \in OpRecord /\ Local(r, cfg, Current, known, file)
      /\ \A q \in Procs \ {p} : Pair(r, op[q]) /\ Pair(op[q], r)
  BY OpFacts
<1>2. /\ e \in OpRecord /\ e.pc = pc
      /\ e.kind = r.kind /\ e.key = r.key /\ e.addr = r.addr /\ e.rest = r.rest
      /\ e.ref = r.ref /\ e.val = r.val /\ e.then = r.then /\ e.fresh = r.fresh
      /\ e.after = r.after /\ e.out = r.out /\ e.mixed = r.mixed
  <2>1. pc \in Pcs
    BY DEF Pcs
  <2> QED
    BY <1>1, <2>1, SetPc
<1>3. op' = [op EXCEPT ![p] = e] /\ UNCHANGED calls
  BY DEF Goto, Step
<1> HIDE DEF e
<1>4. r.ref = None /\ r.fresh = FALSE /\ r.kind \in ListKinds
  BY <1>1 DEF Local, Shape, OpRecord
<1>5. Shape(e)
  BY <1>1, <1>2, <1>4 DEF Local, Shape
<1>6. About(e) = About(r)
  BY <1>2 DEF About
<1>7. Local(e, cfg, Current, known, file)
  BY <1>1, <1>2, <1>4, <1>5, <1>6 DEF Local, RefOK, KnownOK, ValueOK, StoredOK, Pending, Promised
<1>8. \A q \in Procs \ {p} : Pair(e, op[q]) /\ Pair(op[q], e)
  BY <1>1, <1>2 DEF Pair
<1>9. heap' \in [Refs -> Contents] /\ (cfg # None => heap'[cfg] = heap[cfg])
  BY DEF IInv, TypeOK
<1> QED
  BY <1>2, <1>3, <1>7, <1>8, <1>9, LocalStep

LEMMA CheckStep ==
  ASSUME IInv, NEW p \in Procs, Check(p)
  PROVE  IInv'
<1>1. op[p].pc = "check" /\ UNCHANGED <<heap, cfg, file, white, known>>
  BY DEF Check, At
<1>2. Local(op[p], cfg, Current, known, file) /\ op[p] \in OpRecord
  BY OpFacts
<1>3. op[p].fresh = FALSE
  BY <1>1, <1>2 DEF Local, Shape, OpRecord
<1>4. CASE cfg = None
  <2>1. Goto(p, "first")
    BY <1>4 DEF Check
  <2>2. op[p].ref = None
    BY <1>2, <1>4 DEF Local, RefOK
  <2> QED
    BY <1>1, <2>1, <2>2, GettingStep
<1>5. CASE cfg # None
  BY <1>1, <1>3, <1>5, ReturnedStep DEF Check
<1> QED
  BY <1>4, <1>5

LEMMA FirstOpenStep ==
  ASSUME IInv, NEW p \in Procs, FirstOpen(p)
  PROVE  IInv'
<1>1. CASE InUse(p, {"write", "close"})
  BY <1>1, ReturnStep DEF FirstOpen, Throw
<1>2. CASE ~InUse(p, {"write", "close"})
  <2>1. /\ op[p].pc = "first" /\ Goto(p, "load")
        /\ UNCHANGED <<heap, cfg, file, white, known>>
    BY <1>2 DEF FirstOpen, At
  <2>2. \A q \in Procs \ {p} : op[q].pc \notin {"write", "close"}
    BY <1>2 DEF InUse
  <2> QED
    BY <2>1, <2>2, GettingStep
<1> QED
  BY <1>1, <1>2

LEMMA GotStep ==
  ASSUME IInv, NEW p \in Procs, Got(p)
  PROVE  IInv'
<1>1. /\ op[p].pc = "got" /\ Step(p, Returned(p))
      /\ UNCHANGED <<heap, cfg, file, white, known>>
  BY DEF Got, At
<1>2. cfg # None
  BY <1>1, OpFacts DEF Local, RefOK
<1> QED
  BY <1>1, <1>2, ReturnedStep

-----------------------------------------------------------------------------
(* A configuration is adopted                                              *)

LEMMA MixFacts ==
  ASSUME NEW ops \in [Procs -> OpRecord], NEW M
  PROVE  /\ Mix(ops, M) \in [Procs -> OpRecord]
         /\ \A q \in Procs : q \in M => Mix(ops, M)[q] = [ops[q] EXCEPT !.mixed = TRUE]
         /\ \A q \in Procs : q \notin M => Mix(ops, M)[q] = ops[q]
<1>1. ASSUME NEW q \in Procs
      PROVE  /\ Mix(ops, M)[q] \in OpRecord
             /\ q \in M => Mix(ops, M)[q] = [ops[q] EXCEPT !.mixed = TRUE]
             /\ q \notin M => Mix(ops, M)[q] = ops[q]
  <2>1. Mix(ops, M)[q] = [ops[q] EXCEPT !.mixed = ops[q].mixed \/ q \in M]
    BY DEF Mix
  <2>2. ops[q] \in OpRecord /\ ops[q].mixed \in BOOLEAN
    BY DEF OpRecord
  <2>3. CASE q \in M
    BY <2>1, <2>2, <2>3, SetMixed
  <2>4. CASE q \notin M
    <3>1. (ops[q].mixed \/ q \in M) = ops[q].mixed
      BY <2>2, <2>4
    <3>2. [ops[q] EXCEPT !.mixed = ops[q].mixed] = ops[q]
      BY <2>2 DEF OpRecord
    <3> QED
      BY <2>1, <2>2, <2>4, <3>1, <3>2
  <2> QED
    BY <2>3, <2>4
<1> QED
  BY <1>1 DEF Mix

(* Nothing is known while the file cannot be read.                         *)
LEMMA NothingKnown ==
  ASSUME IInv, file.state # "whole"
  PROVE  \A k \in Keys, a \in Addrs : known[k][a] = "open"
BY DEF IInv, Kept, AcknowledgedIsStored

LEMMA NothingFits ==
  ASSUME NEW kn, \A k \in Keys, a \in Addrs : kn[k][a] = "open"
  PROVE  \A c : Fits(kn, c)
BY DEF Fits, Holds

LEMMA AgreesFits ==
  ASSUME NEW c
  PROVE  Agrees(c) <=> Fits(known, c)
BY DEF Agrees, Fits, Holds

(* The other calls do not notice, or no longer count.                      *)
LEMMA OtherAdopts ==
  ASSUME NEW s \in OpRecord, NEW c, NEW cur, NEW kn, NEW f, Local(s, c, cur, kn, f),
         NEW c2, c2 # None, NEW cur2,
         NEW s2, s2 = s \/ s2 = [s EXCEPT !.mixed = TRUE],
         s2.mixed \/ s.ref = None \/ (c2 = c /\ cur2 = cur)
  PROVE  Local(s2, c2, cur2, kn, f)
<1>1. CASE s2 = [s EXCEPT !.mixed = TRUE]
  BY <1>1, LocalMixed DEF Local, StoredOK
<1>2. CASE s2 = s
  <2>1. s.ref = None => (Pending(s) \/ s.pc = "saved" => s.kind \notin ListKinds)
    BY DEF Local, Shape, Pending, ListKinds
  <2>2. s.kind \notin ListKinds => Done(s, cur2)
    BY DEF Done
  <2>3. s.mixed => Done(s, cur2)
    BY DEF Done
  <2>4. StoredOK(s, cur2, f)
    BY <1>2, <2>1, <2>2, <2>3 DEF Local, StoredOK
  <2>5. RefOK(s, c2)
    BY <1>2 DEF Local, RefOK
  <2> QED
    BY <1>2, <2>4, <2>5 DEF Local
<1> QED
  BY <1>1, <1>2

(* A step of p with which the configuration changes.                       *)
LEMMA AdoptStep ==
  ASSUME IInv, NEW p \in Procs, NEW r \in OpRecord, NEW M \in SUBSET Procs,
         op' = Mix([op EXCEPT ![p] = r], M),
         heap' \in [Refs -> Contents], cfg' \in Refs, UNCHANGED <<calls, file, white>>,
         known' \in Knowledge, Weaker(known', known),
         r.pc \notin {"list", "assign"},
         Local(r, cfg', heap'[cfg'], known, file),
         \A q \in Procs \ {p} : \/ q \in M \/ op[q].mixed \/ op[q].ref = None
                                \/ cfg' = cfg /\ heap' = heap,
         \A q \in Procs \ {p} : Pair(r, op[q]) /\ Pair(op[q], r),
         Fits(known', heap'[cfg'])
  PROVE  IInv'
<1> DEFINE ops == [op EXCEPT ![p] = r]
<1>1. ops \in [Procs -> OpRecord] /\ ops[p] = r /\ \A q \in Procs \ {p} : ops[q] = op[q]
  BY DEF IInv, TypeOK
<1>2. /\ op' \in [Procs -> OpRecord]
      /\ \A q \in Procs : q \in M => op'[q] = [ops[q] EXCEPT !.mixed = TRUE]
      /\ \A q \in Procs : q \notin M => op'[q] = ops[q]
  <2> HIDE DEF ops
  <2>1. op' = Mix(ops, M)
    BY DEF ops
  <2>2. /\ Mix(ops, M) \in [Procs -> OpRecord]
        /\ \A q \in Procs : q \in M => Mix(ops, M)[q] = [ops[q] EXCEPT !.mixed = TRUE]
        /\ \A q \in Procs : q \notin M => Mix(ops, M)[q] = ops[q]
    BY <1>1, MixFacts
  <2> QED
    BY <2>1, <2>2
<1> HIDE DEF ops
<1>3. cfg' # None /\ Current' = heap'[cfg']
  BY NoneFacts DEF Current
<1>4. op'[p] = r \/ op'[p] = [r EXCEPT !.mixed = TRUE]
  BY <1>1, <1>2
<1>5. \A q \in Procs \ {p} : op'[q] = op[q] \/ op'[q] = [op[q] EXCEPT !.mixed = TRUE]
  BY <1>1, <1>2
<1>6. Local(op'[p], cfg', Current', known', file')
  <2> DEFINE c2 == cfg'
             cur2 == Current'
  <2>1. Local(r, c2, cur2, known, file)
    BY <1>3
  <2> HIDE DEF c2, cur2
  <2>2. Local([r EXCEPT !.mixed = TRUE], c2, cur2, known, file)
    BY <2>1, LocalMixed DEF Local, StoredOK, RefOK
  <2>3. Local(op'[p], cfg', Current', known, file)
    BY <1>4, <2>1, <2>2 DEF c2, cur2
  <2> QED
    BY <1>2, <2>3, LocalWeaker
<1>7. ASSUME NEW q \in Procs \ {p}
      PROVE  Local(op'[q], cfg', Current', known', file')
  <2>1. op[q] \in OpRecord /\ Local(op[q], cfg, Current, known, file)
    BY OpFacts
  <2>2. op'[q].mixed \/ op[q].ref = None \/ (cfg' = cfg /\ Current' = Current)
    <3>1. CASE q \in M
      <4>1. op'[q] = [op[q] EXCEPT !.mixed = TRUE]
        BY <1>1, <1>2, <3>1
      <4> QED
        BY <2>1, <4>1, SetMixed
    <3>2. CASE q \notin M
      BY <1>1, <1>2, <1>3, <3>2 DEF Current
    <3> QED
      BY <3>1, <3>2
  <2>3. Local(op'[q], cfg', Current', known, file)
    <3> DEFINE s == op[q]
               s2 == op'[q]
               cur2 == Current'
               c2 == cfg'
    <3>1. s2 = s \/ s2 = [s EXCEPT !.mixed = TRUE]
      BY <1>5
    <3>2. s2.mixed \/ s.ref = None \/ (c2 = cfg /\ cur2 = Current)
      BY <2>2
    <3>3. c2 # None
      BY <1>3
    <3>4. s \in OpRecord /\ Local(s, cfg, Current, known, file)
      BY <2>1
    <3> HIDE DEF s, s2, cur2, c2
    <3>5. Local(s2, c2, cur2, known, file)
      BY <3>1, <3>2, <3>3, <3>4, OtherAdopts
    <3> QED
      BY <3>5 DEF s2, c2, cur2
  <2> QED
    BY <1>2, <2>3, LocalWeaker
<1>8. ASSUME NEW q \in Procs \ {p}
      PROVE  Pair(op'[p], op'[q]) /\ Pair(op'[q], op'[p])
  <2>1. op[q] \in OpRecord /\ Pair(r, op[q]) /\ Pair(op[q], r)
    BY OpFacts
  <2> QED
    BY <1>4, <1>5, <2>1, PairMixed
<1>9. OpsOK'
  BY <1>2, <1>5, <1>6, <1>7, <1>8, StepOps DEF IInv
<1>10. TypeOK'
  <2>1. ASSUME NEW q \in Procs, op'[q].pc \in {"list", "assign"}
        PROVE  op'[q].ref # None /\ op'[q].key # None
    <3>1. CASE q = p
      BY <1>4, <2>1, <3>1, SetMixed
    <3>2. CASE q # p
      <4>1. op[q] \in OpRecord /\ (op'[q] = op[q] \/ op'[q] = [op[q] EXCEPT !.mixed = TRUE])
        BY <1>5, <3>2, OpFacts
      <4>2. op'[q].pc = op[q].pc /\ op'[q].ref = op[q].ref /\ op'[q].key = op[q].key
        BY <4>1, SetMixed
      <4> QED
        BY <2>1, <4>2 DEF IInv, TypeOK
    <3> QED
      BY <3>1, <3>2
  <2> QED
    BY <1>2, <2>1 DEF IInv, TypeOK, Knowledge
<1>11. Kept'
  <2>1. AcknowledgedIsListed'
    BY DEF AcknowledgedIsListed, Agrees, Fits, Holds
  <2>2. AcknowledgedIsStored'
    <3>1. (\E k \in Keys, a \in Addrs : known[k][a] # "open") =>
             file.state = "whole" /\ Fits(known, file.val)
      BY AgreesFits DEF IInv, Kept, AcknowledgedIsStored
    <3>2. (\E k \in Keys, a \in Addrs : known'[k][a] # "open") =>
             file.state = "whole" /\ Fits(known', file.val)
      BY <3>1, FitsWeaker DEF Weaker
    <3> QED
      BY <3>2 DEF AcknowledgedIsStored, Agrees, Fits, Holds
  <2>3. RemovedFilterIsDropped'
    BY NoneFacts DEF IInv, Kept, RemovedFilterIsDropped, Weaker
  <2> QED
    BY <2>1, <2>2, <2>3 DEF Kept
<1> QED
  BY <1>9, <1>10, <1>11 DEF IInv

LEMMA FirstDefaultStep ==
  ASSUME IInv, NEW p \in Procs, FirstDefault(p)
  PROVE  IInv'
<1> DEFINE r == op[p]
           e == [r EXCEPT !.pc = "open", !.fresh = TRUE]
           M == {q \in Procs : op[q].ref \notin {None, Static}}
<1>1. /\ r.pc = "first" /\ file.state = "absent" /\ cfg' = Static
      /\ UNCHANGED <<heap, calls, file, white, known>>
  BY DEF FirstDefault, At
<1>2. /\ r \in OpRecord /\ Local(r, cfg, Current, known, file)
      /\ \A q \in Procs \ {p} : Pair(r, op[q]) /\ Pair(op[q], r)
  BY OpFacts
<1>3. op' = Mix([op EXCEPT ![p] = e], M)
  <2>1. [op EXCEPT ![p].pc = "open", ![p].fresh = TRUE] = [op EXCEPT ![p] = e]
    BY DEF IInv, TypeOK
  <2> QED
    BY <2>1 DEF FirstDefault
<1>4. /\ e \in OpRecord
      /\ e.pc = "open" /\ e.fresh = TRUE
      /\ e.kind = r.kind /\ e.key = r.key /\ e.addr = r.addr /\ e.rest = r.rest
      /\ e.ref = r.ref /\ e.val = r.val /\ e.then = r.then
      /\ e.after = r.after /\ e.out = r.out /\ e.mixed = r.mixed
  BY <1>2, SetFresh
<1> HIDE DEF e
<1>5. r.ref = None /\ r.then \in {"list", "assign"} /\ r.kind \in ListKinds
  BY <1>1, <1>2 DEF Local, Shape
<1>6. Shape(e)
  BY <1>1, <1>2, <1>4, <1>5 DEF Local, Shape, ListKinds
<1>7. About(e) = About(r)
  BY <1>4 DEF About
<1>8. Local(e, cfg', heap'[cfg'], known, file)
  <2>1. RefOK(e, cfg')
    BY <1>1, <1>4, <1>5, NoneFacts DEF RefOK
  <2>2. KnownOK(e, known)
    BY <1>1, <1>2, <1>4, <1>7 DEF Local, KnownOK
  <2>3. ValueOK(e)
    BY <1>1, <1>2, <1>4 DEF Local, ValueOK, Promised
  <2>4. StoredOK(e, heap'[cfg'], file)
    BY <1>4 DEF StoredOK, Pending
  <2> QED
    BY <1>6, <2>1, <2>2, <2>3, <2>4 DEF Local
<1>9. ASSUME NEW q \in Procs \ {p}
      PROVE  q \in M \/ op[q].mixed \/ op[q].ref = None \/ (cfg' = cfg /\ heap' = heap)
  <2>1. CASE q \notin M /\ op[q].ref # None /\ ~op[q].mixed
    <3>1. op[q].ref = Static
      BY <2>1
    <3>2. op[q].ref = cfg
      BY <2>1, OpFacts DEF Local, RefOK
    <3> QED
      BY <1>1, <3>1, <3>2
  <2> QED
    BY <2>1
<1>10. \A q \in Procs \ {p} : Pair(e, op[q]) /\ Pair(op[q], e)
  BY <1>1, <1>2, <1>4, PairSame
<1>11. known' \in Knowledge /\ Weaker(known', known) /\ heap' \in [Refs -> Contents]
  BY <1>1 DEF IInv, TypeOK, Knowledge, Weaker
<1>12. Fits(known', heap'[cfg'])
  BY <1>1, NothingKnown, NothingFits
<1>13. M \in SUBSET Procs
  OBVIOUS
<1>14. cfg' \in Refs
  BY <1>1, NoneFacts
<1> HIDE DEF M
<1> QED
  BY <1>1, <1>3, <1>4, <1>8, <1>9, <1>10, <1>11, <1>12, <1>13, <1>14, AdoptStep

LEMMA LoadStep ==
  ASSUME IInv, NEW p \in Procs, Load(p)
  PROVE  IInv'
<1>1. CASE file.state = "torn"
  BY <1>1, ReturnStep DEF Load, Throw
<1>2. CASE file.state # "torn"
  <2> DEFINE r == op[p]
             e == [r EXCEPT !.pc = "got"]
             M == {q \in Procs \ {p} : op[q].ref # None}
  <2>1. /\ r.pc = "load" /\ cfg' = p /\ heap' = [heap EXCEPT ![p] = file.val]
        /\ UNCHANGED <<calls, file, white, known>>
    BY <1>2 DEF Load, At
  <2>2. /\ r \in OpRecord /\ Local(r, cfg, Current, known, file)
        /\ \A q \in Procs \ {p} : Pair(r, op[q]) /\ Pair(op[q], r)
    BY OpFacts
  <2>3. op' = Mix([op EXCEPT ![p] = e], M)
    BY <1>2 DEF Load
  <2>4. /\ e \in OpRecord /\ e.pc = "got"
        /\ e.kind = r.kind /\ e.key = r.key /\ e.addr = r.addr /\ e.rest = r.rest
        /\ e.ref = r.ref /\ e.val = r.val /\ e.then = r.then /\ e.fresh = r.fresh
        /\ e.after = r.after /\ e.out = r.out /\ e.mixed = r.mixed
    <3>1. "got" \in Pcs
      BY DEF Pcs
    <3> QED
      BY <2>2, <3>1, SetPc
  <2> HIDE DEF e
  <2>5. /\ r.ref = None /\ r.then \in {"list", "assign"} /\ r.kind \in ListKinds
        /\ r.fresh = FALSE
    BY <2>1, <2>2 DEF Local, Shape, OpRecord
  <2>6. Shape(e)
    BY <2>1, <2>2, <2>4, <2>5 DEF Local, Shape, ListKinds
  <2>7. About(e) = About(r)
    BY <2>4 DEF About
  <2>8. p \in Refs /\ p # None
    BY NoneFacts DEF Refs
  <2>9. heap' \in [Refs -> Contents] /\ heap'[cfg'] = file.val
    BY <2>1, <2>8 DEF IInv, TypeOK
  <2>10. Local(e, cfg', heap'[cfg'], known, file)
    <3>1. RefOK(e, cfg')
      BY <2>1, <2>4, <2>5, <2>8 DEF RefOK
    <3>2. KnownOK(e, known)
      BY <2>1, <2>2, <2>4, <2>7 DEF Local, KnownOK
    <3>3. ValueOK(e)
      BY <2>1, <2>2, <2>4 DEF Local, ValueOK, Promised
    <3>4. StoredOK(e, heap'[cfg'], file)
      BY <2>4 DEF StoredOK, Pending
    <3> QED
      BY <2>6, <3>1, <3>2, <3>3, <3>4 DEF Local
  <2>11. \A q \in Procs \ {p} : q \in M \/ op[q].ref = None
    OBVIOUS
  <2>12. \A q \in Procs \ {p} : Pair(e, op[q]) /\ Pair(op[q], e)
    BY <2>1, <2>2, <2>4, PairSame
  <2>13. known' \in Knowledge /\ Weaker(known', known)
    BY <2>1 DEF IInv, TypeOK, Knowledge, Weaker
  <2>14. Fits(known', heap'[cfg'])
    <3>1. CASE file.state = "whole"
      <4>1. CASE \E k \in Keys, a \in Addrs : known[k][a] # "open"
        BY <2>1, <2>9, <4>1, AgreesFits DEF IInv, Kept, AcknowledgedIsStored
      <4>2. CASE \A k \in Keys, a \in Addrs : known[k][a] = "open"
        BY <2>1, <4>2, NothingFits
      <4> QED
        BY <4>1, <4>2
    <3>2. CASE file.state # "whole"
      BY <2>1, <3>2, NothingKnown, NothingFits
    <3> QED
      BY <3>1, <3>2
  <2>15. M \in SUBSET Procs /\ cfg' \in Refs
    BY <2>1, <2>8
  <2> HIDE DEF M
  <2> QED
    BY <2>1, <2>3, <2>4, <2>9, <2>10, <2>11, <2>12, <2>13, <2>14, <2>15, AdoptStep
<1> QED
  BY <1>1, <1>2

-----------------------------------------------------------------------------
(* ConfigApi.SetAsync, ReplaceAsync and SaveAsync                          *)

LEMMA ForgetFacts ==
  ASSUME TypeOK, NEW K, NEW A
  PROVE  /\ Forget(K, A) \in Knowledge /\ Weaker(Forget(K, A), known)
         /\ \A k \in Keys, a \in Addrs : k \in K /\ a \in A => Forget(K, A)[k][a] = "open"
BY DEF TypeOK, Forget, Knowledge, Weaker

LEMMA ReplaceStep ==
  ASSUME IInv, NEW p \in Procs, Replace(p)
  PROVE  IInv'
<1> DEFINE r == op[p]
           e == [r EXCEPT !.pc = "open", !.after = "saved"]
           M == {q \in Procs : Busy(q)}
<1>1. /\ r.pc = "replace" /\ heap' = [heap EXCEPT ![Given] = NoKeys] /\ cfg' = Given
      /\ known' = Forget(Keys, Addrs) /\ UNCHANGED <<calls, file, white>>
  BY DEF Replace, At
<1>2. /\ r \in OpRecord /\ Local(r, cfg, Current, known, file)
      /\ \A q \in Procs \ {p} : Pair(r, op[q]) /\ Pair(op[q], r)
  BY OpFacts
<1>3. op' = Mix([op EXCEPT ![p] = e], M)
  <2>1. [op EXCEPT ![p].pc = "open", ![p].after = "saved"] = [op EXCEPT ![p] = e]
    BY DEF IInv, TypeOK
  <2> QED
    BY <2>1 DEF Replace
<1>4. /\ e \in OpRecord
      /\ e.pc = "open" /\ e.after = "saved"
      /\ e.kind = r.kind /\ e.key = r.key /\ e.addr = r.addr /\ e.rest = r.rest
      /\ e.ref = r.ref /\ e.val = r.val /\ e.then = r.then /\ e.fresh = r.fresh
      /\ e.out = r.out /\ e.mixed = r.mixed
  BY <1>2, SetReplaced
<1> HIDE DEF e
<1>5. /\ r.kind = "replace" /\ r.key = None /\ r.ref = None /\ r.fresh = FALSE
      /\ r.then = "idle"
  BY <1>1, <1>2 DEF Local, Shape, OpRecord
<1>6. Shape(e)
  BY <1>1, <1>2, <1>4, <1>5 DEF Local, Shape, ListKinds
<1>7. Local(e, cfg', heap'[cfg'], known, file)
  <2>1. RefOK(e, cfg')
    BY <1>1, <1>4, <1>5, NoneFacts DEF RefOK
  <2>2. KnownOK(e, known)
    BY <1>4, <1>5 DEF KnownOK, ListKinds
  <2>3. ValueOK(e)
    BY <1>4, <1>5 DEF ValueOK
  <2>4. StoredOK(e, heap'[cfg'], file)
    BY <1>4, <1>5 DEF StoredOK, Done, ListKinds
  <2> QED
    BY <1>6, <2>1, <2>2, <2>3, <2>4 DEF Local
<1>8. ASSUME NEW q \in Procs \ {p}
      PROVE  q \in M \/ op[q].ref = None
  <2>1. CASE q \notin M
    <3>1. op[q].pc = "idle"
      BY <2>1 DEF Busy, At
    <3> QED
      BY <3>1, OpFacts DEF Local, Shape
  <2> QED
    BY <2>1
<1>9. \A q \in Procs \ {p} : Pair(e, op[q]) /\ Pair(op[q], e)
  BY <1>1, <1>2, <1>4, PairSame
<1>10. /\ known' \in Knowledge /\ Weaker(known', known)
       /\ \A k \in Keys, a \in Addrs : known'[k][a] = "open"
  BY <1>1, ForgetFacts DEF IInv
<1>11. heap' \in [Refs -> Contents] /\ cfg' \in Refs
  BY <1>1, NoneFacts DEF IInv, TypeOK
<1>12. Fits(known', heap'[cfg'])
  BY <1>10, NothingFits
<1>13. M \in SUBSET Procs
  OBVIOUS
<1> HIDE DEF M
<1> QED
  BY <1>1, <1>3, <1>4, <1>7, <1>8, <1>9, <1>10, <1>11, <1>12, <1>13, AdoptStep

LEMMA AssignStep ==
  ASSUME IInv, NEW p \in Procs, Assign(p)
  PROVE  IInv'
<1> DEFINE r == op[p]
           e == [r EXCEPT !.pc = "open", !.val = None]
<1>1. /\ r.pc = "assign" /\ heap' = [heap EXCEPT ![r.ref][r.key] = r.val]
      /\ known' = IF r.mixed THEN Forget({r.key}, Addrs) ELSE known
      /\ op' = [op EXCEPT ![p] = e] /\ UNCHANGED <<calls, cfg, file, white>>
  BY DEF Assign, At, Step
<1>2. /\ r \in OpRecord /\ Local(r, cfg, Current, known, file)
      /\ \A q \in Procs \ {p} : Pair(r, op[q]) /\ Pair(op[q], r)
  BY OpFacts
<1>3. /\ e \in OpRecord
      /\ e.pc = "open" /\ e.val = None
      /\ e.kind = r.kind /\ e.key = r.key /\ e.addr = r.addr /\ e.rest = r.rest
      /\ e.ref = r.ref /\ e.then = r.then /\ e.fresh = r.fresh
      /\ e.after = r.after /\ e.out = r.out /\ e.mixed = r.mixed
  BY <1>2, SetAssigned
<1> HIDE DEF e
<1>4. /\ r.ref # None /\ r.ref \in Refs /\ r.kind \in ListKinds /\ r.key \in Keys
      /\ r.fresh = FALSE /\ r.then = "idle" /\ r.val \in Lists /\ r.after \in {"defaults", "saved"}
  <2>1. r.kind # "none" /\ r.kind # "replace"
    BY <1>1, <1>2 DEF Local, Shape
  <2>2. r.kind \in ListKinds
    BY <1>2, <2>1 DEF OpRecord, AllKinds, ListKinds
  <2> QED
    BY <1>1, <1>2, <2>1, <2>2 DEF Local, Shape, OpRecord
<1>5. cfg # None /\ cfg \in Refs /\ Current = heap[cfg] /\ Current \in Contents
  BY <1>2, <1>4 DEF Local, RefOK, IInv, TypeOK, Current
<1>6. heap' \in [Refs -> Contents] /\ Current' = heap'[cfg]
  <2>1. heap[r.ref] \in Contents
    BY <1>4 DEF IInv, TypeOK
  <2>2. [heap[r.ref] EXCEPT ![r.key] = r.val] \in Contents
    BY <1>4, <2>1 DEF Contents
  <2>3. heap' = [heap EXCEPT ![r.ref] = [heap[r.ref] EXCEPT ![r.key] = r.val]]
    BY <1>1
  <2> QED
    BY <1>1, <1>4, <1>5, <2>2, <2>3 DEF IInv, TypeOK, Current
<1>7. \A k \in Keys : k # r.key => Current'[k] = Current[k]
  <2>1. CASE r.ref = cfg
    BY <1>1, <1>4, <1>5, <1>6, <2>1 DEF IInv, TypeOK, Contents
  <2>2. CASE r.ref # cfg
    BY <1>1, <1>4, <1>5, <1>6, <2>2 DEF IInv, TypeOK
  <2> QED
    BY <2>1, <2>2
<1>8. ~r.mixed => Current'[r.key] = r.val /\ r.val # None /\ Holds(known, r.key, r.val)
                  /\ (r.after = "saved" => Promised(r, r.val))
  <2>1. ASSUME ~r.mixed
        PROVE  r.ref = cfg
    BY <1>2, <1>4, <2>1 DEF Local, RefOK
  <2>2. ASSUME ~r.mixed
        PROVE  Current'[r.key] = r.val
    BY <1>1, <1>4, <1>5, <1>6, <2>1, <2>2 DEF IInv, TypeOK, Contents
  <2> QED
    BY <1>1, <1>2, <2>2 DEF Local, KnownOK, ValueOK
<1>9. known' \in Knowledge /\ Weaker(known', known)
  BY <1>1, ForgetFacts DEF IInv, TypeOK, Knowledge, Weaker
<1>10. r.mixed => \A a \in Addrs : known'[r.key][a] = "open"
  BY <1>1, <1>4 DEF Forget
<1>11. About(e) = About(r)
  BY <1>3 DEF About
<1>12. Local(e, cfg', Current', known', file')
  <2>1. Shape(e)
    BY <1>1, <1>2, <1>3, <1>4 DEF Local, Shape, ListKinds
  <2>2. RefOK(e, cfg)
    BY <1>2, <1>3, <1>5 DEF Local, RefOK
  <2>3. KnownOK(e, known)
    BY <1>1, <1>2, <1>3, <1>4, <1>11 DEF Local, KnownOK
  <2>4. ValueOK(e)
    BY <1>3, <1>4 DEF ValueOK
  <2>5. StoredOK(e, Current', file)
    <3>1. ASSUME Pending(e), ~e.mixed
          PROVE  Promised(e, Listed(e.key, Current'[e.key]))
      <4>1. Listed(e.key, Current'[e.key]) = r.val /\ Promised(r, r.val)
        BY <1>3, <1>8, <3>1 DEF Listed, Pending
      <4> QED
        BY <1>3, <4>1 DEF Promised
    <3> QED
      BY <1>3, <3>1 DEF StoredOK, Done
  <2>6. Local(e, cfg, Current', known, file)
    BY <2>1, <2>2, <2>3, <2>4, <2>5 DEF Local
  <2> QED
    BY <1>1, <1>3, <1>9, <2>6, LocalWeaker
<1>13. ASSUME NEW q \in Procs \ {p}
       PROVE  Local(op[q], cfg', Current', known', file')
  <2> DEFINE s == op[q]
  <2>1. s \in OpRecord /\ Local(s, cfg, Current, known, file) /\ Pair(s, r)
    BY <1>2, OpFacts
  <2>2. ASSUME Pending(s) \/ s.pc = "saved"
        PROVE  Done(s, Current')
    <3>1. ASSUME ~s.mixed, s.kind \in ListKinds
          PROVE  Current'[s.key] = Current[s.key]
      <4>1. s.key \in Keys /\ s.key # None /\ s.pc # "idle"
        BY <2>1, <2>2, <3>1, NoneFacts DEF Local, Shape, Pending
      <4>2. s.key # r.key
        BY <1>1, <2>1, <3>1, <4>1 DEF Pair
      <4> QED
        BY <1>7, <4>1, <4>2
    <3>2. Done(s, Current)
      BY <2>1, <2>2 DEF Local, StoredOK
    <3> QED
      BY <3>1, <3>2 DEF Done
  <2>3. Local(s, cfg, Current', known, file)
    BY <2>1, <2>2 DEF Local, StoredOK
  <2> HIDE DEF s
  <2>4. Local(s, cfg, Current', known', file)
    BY <1>9, <2>1, <2>3, LocalWeaker
  <2> QED
    BY <1>1, <2>4 DEF s
<1>14. \A q \in Procs \ {p} : Pair(e, op[q]) /\ Pair(op[q], e)
  BY <1>1, <1>2, <1>3, PairSame
<1>15. OpsOK'
  <2>1. op' \in [Procs -> OpRecord] /\ op'[p] = e /\ \A q \in Procs \ {p} : op'[q] = op[q]
    BY <1>1, <1>3 DEF IInv, TypeOK
  <2> QED
    BY <1>12, <1>13, <1>14, <2>1, StepOps DEF IInv
<1>16. TypeOK'
  BY <1>1, <1>3, <1>6, <1>9 DEF IInv, TypeOK, Knowledge
<1>17. Kept'
  <2>1. Fits(known', Current')
    <3>1. Fits(known, Current)
      BY <1>5, AgreesFits DEF IInv, Kept, AcknowledgedIsListed
    <3>2. ASSUME NEW k \in Keys
          PROVE  Holds(known', k, Listed(k, Current'[k]))
      <4>1. CASE k # r.key
        BY <1>7, <1>9, <3>1, <4>1, HoldsWeaker DEF Fits
      <4>2. CASE k = r.key /\ r.mixed
        BY <1>10, <4>2 DEF Holds
      <4>3. CASE k = r.key /\ ~r.mixed
        BY <1>1, <1>8, <4>3 DEF Listed
      <4> QED
        BY <4>1, <4>2, <4>3
    <3> QED
      BY <3>2 DEF Fits
  <2>2. AcknowledgedIsListed'
    BY <1>1, <1>6, <2>1 DEF AcknowledgedIsListed, Agrees, Fits, Holds
  <2>3. AcknowledgedIsStored'
    <3>1. (\E k \in Keys, a \in Addrs : known[k][a] # "open") =>
             file.state = "whole" /\ Fits(known, file.val)
      BY AgreesFits DEF IInv, Kept, AcknowledgedIsStored
    <3>2. (\E k \in Keys, a \in Addrs : known'[k][a] # "open") =>
             file.state = "whole" /\ Fits(known', file.val)
      BY <1>9, <3>1, FitsWeaker DEF Weaker
    <3> QED
      BY <1>1, <3>2 DEF AcknowledgedIsStored, Agrees, Fits, Holds
  <2>4. RemovedFilterIsDropped'
    BY <1>1, <1>9, NoneFacts DEF IInv, Kept, RemovedFilterIsDropped, Weaker
  <2> QED
    BY <2>2, <2>3, <2>4 DEF Kept
<1> QED
  BY <1>15, <1>16, <1>17 DEF IInv

LEMMA OpenStep ==
  ASSUME IInv, NEW p \in Procs, Open(p)
  PROVE  IInv'
<1>1. CASE InUse(p, {"load", "write", "close"})
  BY <1>1, ReturnStep DEF Open, Throw
<1>2. CASE ~InUse(p, {"load", "write", "close"})
  <2> DEFINE r == op[p]
             e == [r EXCEPT !.pc = "write"]
  <2>1. /\ r.pc = "open" /\ op' = [op EXCEPT ![p] = e] /\ file' = Opened
        /\ UNCHANGED <<calls, heap, cfg, white, known>>
    BY <1>2 DEF Open, At, Step
  <2>2. /\ r \in OpRecord /\ Local(r, cfg, Current, known, file)
        /\ \A q \in Procs \ {p} : Pair(r, op[q]) /\ Pair(op[q], r)
    BY OpFacts
  <2>3. /\ e \in OpRecord /\ e.pc = "write"
        /\ e.kind = r.kind /\ e.key = r.key /\ e.addr = r.addr /\ e.rest = r.rest
        /\ e.ref = r.ref /\ e.val = r.val /\ e.then = r.then /\ e.fresh = r.fresh
        /\ e.after = r.after /\ e.out = r.out /\ e.mixed = r.mixed
    <3>1. "write" \in Pcs
      BY DEF Pcs
    <3> QED
      BY <2>2, <3>1, SetPc
  <2> HIDE DEF e
  <2>4. About(e) = About(r)
    BY <2>3 DEF About
  <2>5. Shape(e)
    BY <2>1, <2>2, <2>3 DEF Local, Shape
  <2>6. Local(e, cfg, Current, known, file')
    <3>1. RefOK(e, cfg)
      BY <2>1, <2>2, <2>3 DEF Local, RefOK
    <3>2. KnownOK(e, known)
      BY <2>1, <2>2, <2>3, <2>4 DEF Local, KnownOK
    <3>3. ValueOK(e)
      BY <2>1, <2>2, <2>3 DEF Local, ValueOK, Promised
    <3>4. StoredOK(e, Current, file')
      BY <2>1, <2>2, <2>3 DEF Local, StoredOK, Pending, Done, Promised
    <3> QED
      BY <2>5, <3>1, <3>2, <3>3, <3>4 DEF Local
  <2>7. /\ file' \in [state : {"absent", "whole", "torn"}, val : Contents]
        /\ file'.val = file.val
        /\ file.state = "whole" => file' = file
        /\ file'.state = "whole" => file.state = "whole"
    BY <2>1 DEF Opened, IInv, TypeOK
  <2>8. \A q \in Procs \ {p} : Local(op[q], cfg, Current, known, file')
    <3>1. ASSUME NEW q \in Procs \ {p}
          PROVE  Local(op[q], cfg, Current, known, file')
      BY <2>7, OpFacts DEF Local, StoredOK
    <3> QED
      BY <3>1
  <2>9. \A q \in Procs \ {p} : Pair(e, op[q]) /\ Pair(op[q], e)
    BY <1>2, <2>1, <2>2, <2>3 DEF Pair, InUse
  <2>10. Kept'
    BY <2>1, <2>7 DEF IInv, Kept, AcknowledgedIsListed, AcknowledgedIsStored,
                      RemovedFilterIsDropped, Agrees
  <2>11. /\ heap' \in [Refs -> Contents] /\ (cfg # None => heap'[cfg] = heap[cfg])
         /\ white' \in SUBSET Addrs /\ known' \in Knowledge
    BY <2>1 DEF IInv, TypeOK, Knowledge
  <2>12. \A q \in Procs \ {p} : Local(op[q], cfg, Current, known', file')
    BY <2>1, <2>8
  <2>13. Local(e, cfg, Current, known', file')
    BY <2>1, <2>6
  <2> QED
    BY <2>1, <2>3, <2>7, <2>9, <2>10, <2>11, <2>12, <2>13, OwnStep
<1> QED
  BY <1>1, <1>2

LEMMA WriteStep ==
  ASSUME IInv, NEW p \in Procs, Write(p)
  PROVE  IInv'
<1> DEFINE r == op[p]
           e == [r EXCEPT !.pc = "close", !.out = heap[cfg]]
<1>1. /\ r.pc = "write" /\ op' = [op EXCEPT ![p] = e]
      /\ UNCHANGED <<calls, heap, cfg, file, white, known>>
  BY DEF Write, At, Step
<1>2. /\ r \in OpRecord /\ Local(r, cfg, Current, known, file)
      /\ \A q \in Procs \ {p} : Pair(r, op[q]) /\ Pair(op[q], r)
  BY OpFacts
<1>3. cfg # None /\ heap[cfg] \in Contents /\ Current = heap[cfg]
  BY <1>1, <1>2 DEF Local, RefOK, Current, IInv, TypeOK
<1>4. /\ e \in OpRecord
      /\ e.pc = "close" /\ e.out = Current
      /\ e.kind = r.kind /\ e.key = r.key /\ e.addr = r.addr /\ e.rest = r.rest
      /\ e.ref = r.ref /\ e.val = r.val /\ e.then = r.then /\ e.fresh = r.fresh
      /\ e.after = r.after /\ e.mixed = r.mixed
  BY <1>2, <1>3, SetWritten
<1> HIDE DEF e
<1>5. About(e) = About(r)
  BY <1>4 DEF About
<1>6. Shape(e)
  BY <1>1, <1>2, <1>4 DEF Local, Shape
<1>7. Fits(known, Current)
  BY <1>3, AgreesFits DEF IInv, Kept, AcknowledgedIsListed
<1>8. Local(e, cfg, Current, known, file)
  <2>1. RefOK(e, cfg)
    BY <1>2, <1>3, <1>4 DEF Local, RefOK
  <2>2. KnownOK(e, known)
    BY <1>1, <1>2, <1>4, <1>5, <1>7 DEF Local, KnownOK
  <2>3. Pending(e) => Done(e, Current)
    BY <1>1, <1>2, <1>4 DEF Local, StoredOK, Pending, Done, Promised
  <2>4. ValueOK(e)
    BY <1>1, <1>2, <1>4, <2>3 DEF Local, ValueOK, Shape, Promised
  <2>5. StoredOK(e, Current, file)
    BY <1>4, <2>3 DEF StoredOK
  <2> QED
    BY <1>6, <2>1, <2>2, <2>4, <2>5 DEF Local
<1>9. ASSUME NEW q \in Procs \ {p}
      PROVE  Pair(e, op[q]) /\ Pair(op[q], e)
  <2>1. op[q].pc = "saved" => Done(op[q], Current)
    BY OpFacts DEF Local, StoredOK
  <2> QED
    BY <1>1, <1>2, <1>4, <2>1 DEF Pair
<1>10. heap' \in [Refs -> Contents] /\ (cfg # None => heap'[cfg] = heap[cfg])
  BY <1>1 DEF IInv, TypeOK
<1> QED
  BY <1>1, <1>4, <1>8, <1>9, <1>10, LocalStep

LEMMA CloseStep ==
  ASSUME IInv, NEW p \in Procs, Close(p)
  PROVE  IInv'
<1> DEFINE r == op[p]
           pc == IF r.fresh THEN "got" ELSE r.after
           e == [r EXCEPT !.pc = pc, !.fresh = FALSE, !.out = NoKeys]
<1>1. /\ r.pc = "close" /\ op' = [op EXCEPT ![p] = e] /\ file' = [state |-> "whole", val |-> r.out]
      /\ UNCHANGED <<calls, heap, cfg, white, known>>
  BY DEF Close, At, Step
<1>2. /\ r \in OpRecord /\ Local(r, cfg, Current, known, file)
      /\ \A q \in Procs \ {p} : Pair(r, op[q]) /\ Pair(op[q], r)
  BY OpFacts
<1>3. /\ pc \in {"got", "defaults", "saved"} /\ pc \in Pcs
      /\ r.fresh => pc = "got"
      /\ ~r.fresh => pc = r.after /\ r.after \in {"defaults", "saved"}
  BY <1>1, <1>2 DEF Local, Shape, Pcs
<1> HIDE DEF pc
<1>4. /\ e \in OpRecord
      /\ e.pc = pc /\ e.fresh = FALSE
      /\ e.kind = r.kind /\ e.key = r.key /\ e.addr = r.addr /\ e.rest = r.rest
      /\ e.ref = r.ref /\ e.val = r.val /\ e.then = r.then
      /\ e.after = r.after /\ e.mixed = r.mixed
  BY <1>2, <1>3, SetClosed
<1> HIDE DEF e
<1>5. About(e) = About(r)
  BY <1>4 DEF About
<1>6. Shape(e)
  BY <1>1, <1>2, <1>3, <1>4 DEF Local, Shape, OpRecord, AllKinds, ListKinds
<1>7. file'.state = "whole" /\ file'.val = r.out
      /\ file' \in [state : {"absent", "whole", "torn"}, val : Contents]
  BY <1>1, <1>2 DEF OpRecord
<1>8. Local(e, cfg, Current, known, file')
  <2>1. RefOK(e, cfg)
    BY <1>1, <1>2, <1>4 DEF Local, RefOK
  <2>2. KnownOK(e, known)
    BY <1>1, <1>2, <1>3, <1>4, <1>5 DEF Local, KnownOK
  <2>3. ValueOK(e)
    BY <1>1, <1>2, <1>3, <1>4 DEF Local, ValueOK, Promised
  <2>4. e.pc = "saved" => Pending(r)
    BY <1>1, <1>3, <1>4 DEF Pending
  <2>5. e.pc = "saved" => Done(e, Current) /\ Done(e, r.out)
    BY <1>1, <1>2, <1>4, <2>4 DEF Local, StoredOK, ValueOK, Done, Promised
  <2>6. StoredOK(e, Current, file')
    BY <1>3, <1>4, <1>7, <2>5 DEF StoredOK, Pending
  <2> QED
    BY <1>6, <2>1, <2>2, <2>3, <2>6 DEF Local
<1>9. ASSUME NEW q \in Procs \ {p}
      PROVE  Local(op[q], cfg, Current, known, file')
  <2>1. op[q].pc = "saved" => Done(op[q], file'.val)
    BY <1>1, <1>2, <1>7 DEF Pair
  <2> QED
    BY <1>7, <2>1, OpFacts DEF Local, StoredOK
<1>10. \A q \in Procs \ {p} : Pair(e, op[q]) /\ Pair(op[q], e)
  BY <1>1, <1>2, <1>3, <1>4 DEF Pair
<1>11. Kept'
  <2>1. Fits(known, r.out)
    BY <1>1, <1>2 DEF Local, KnownOK
  <2>2. Agrees(r.out)
    BY <2>1, AgreesFits
  <2> QED
    BY <1>1, <1>7, <2>2 DEF IInv, Kept, AcknowledgedIsListed, AcknowledgedIsStored,
                            RemovedFilterIsDropped, Agrees
<1>12. /\ heap' \in [Refs -> Contents] /\ (cfg # None => heap'[cfg] = heap[cfg])
       /\ white' \in SUBSET Addrs /\ known' \in Knowledge
  BY <1>1 DEF IInv, TypeOK, Knowledge
<1>13. /\ Local(e, cfg, Current, known', file')
       /\ \A q \in Procs \ {p} : Local(op[q], cfg, Current, known', file')
  BY <1>1, <1>8, <1>9
<1>14. e.pc \notin {"list", "assign"}
  BY <1>3, <1>4
<1> QED
  BY <1>1, <1>4, <1>7, <1>10, <1>11, <1>12, <1>13, <1>14, OwnStep

-----------------------------------------------------------------------------
(* The lists                                                               *)

LEMMA NextLocal ==
  ASSUME NEW r \in OpRecord, NEW a \in r.rest, NEW c, NEW cur, NEW kn, NEW f,
         Shape(r), r.pc \in {"list", "defaults", "saved"}, RefOK(r, c),
         \A b \in r.rest : kn[r.key][b] = "open",
         ~r.mixed /\ r.after = "defaults" => Holds(kn, r.key, Defaults[r.key])
  PROVE  Local([r EXCEPT !.pc = "check", !.then = "list", !.addr = a, !.rest = @ \ {a}],
               c, cur, kn, f)
<1> DEFINE e == [r EXCEPT !.pc = "check", !.then = "list", !.addr = a, !.rest = @ \ {a}]
<1>1. /\ e \in OpRecord
      /\ e.pc = "check" /\ e.then = "list" /\ e.addr = a /\ e.rest = r.rest \ {a}
      /\ e.kind = r.kind /\ e.key = r.key /\ e.val = r.val /\ e.after = r.after
      /\ e.ref = r.ref /\ e.fresh = r.fresh /\ e.out = r.out /\ e.mixed = r.mixed
  BY SetNext
<1> HIDE DEF e
<1>2. /\ r.kind = "addDefaults" /\ a \in Addrs /\ r.rest \subseteq Addrs /\ r.fresh = FALSE
  BY DEF Shape, OpRecord
<1>3. Shape(e)
  BY <1>1, <1>2 DEF Shape, ListKinds
<1>4. About(e) = r.rest
  BY <1>1, <1>2 DEF About
<1>5. RefOK(e, c)
  BY <1>1 DEF RefOK
<1>6. KnownOK(e, kn)
  BY <1>1, <1>4 DEF KnownOK
<1>7. ValueOK(e) /\ StoredOK(e, cur, f)
  BY <1>1 DEF ValueOK, StoredOK, Pending
<1> QED
  BY <1>3, <1>5, <1>6, <1>7 DEF Local, e

LEMMA SetLocal ==
  ASSUME NEW r \in OpRecord, NEW v \in SUBSET Addrs, NEW after \in {"defaults", "saved"},
         NEW c, NEW cur, NEW kn, NEW f,
         Shape(r), r.pc \in {"list", "defaults"}, RefOK(r, c), KnownOK(r, kn),
         ~r.mixed => Holds(kn, r.key, v),
         after = "saved" => r.kind \in {"add", "addDefaults", "remove"} /\ Promised(r, v),
         after = "defaults" => v = Defaults[r.key]
  PROVE  Local(Set(r, v, after), c, cur, kn, f)
<1> DEFINE e == Set(r, v, after)
<1>1. /\ e \in OpRecord
      /\ e.pc = "check" /\ e.then = "assign" /\ e.val = v /\ e.after = after
      /\ e.kind = r.kind /\ e.key = r.key /\ e.addr = r.addr /\ e.rest = r.rest
      /\ e.ref = r.ref /\ e.fresh = r.fresh /\ e.out = r.out /\ e.mixed = r.mixed
  BY SetSet DEF Lists
<1> HIDE DEF e
<1>2. /\ r.kind \in {"list", "add", "addDefaults", "remove"} /\ r.fresh = FALSE /\ v # None
  BY NoneFacts DEF Shape, OpRecord, AllKinds
<1>3. Shape(e)
  BY <1>1, <1>2 DEF Shape, ListKinds
<1>4. About(e) = About(r)
  BY <1>1 DEF About
<1>5. RefOK(e, c)
  BY <1>1 DEF RefOK
<1>6. KnownOK(e, kn)
  BY <1>1, <1>2, <1>4 DEF KnownOK
<1>7. ValueOK(e) /\ StoredOK(e, cur, f)
  BY <1>1 DEF ValueOK, StoredOK, Pending, Promised
<1> QED
  BY <1>3, <1>5, <1>6, <1>7 DEF Local, e

LEMMA ProceedStep ==
  ASSUME IInv, NEW p \in Procs, op[p].pc \in {"list", "defaults"}, NEW e \in OpRecord,
         e.pc = "check", e.key = op[p].key, e.mixed = op[p].mixed,
         Local(e, cfg, Current, known, file),
         Proceed(p, e), UNCHANGED <<cfg, file, white, known>>
  PROVE  IInv'
<1>1. op' = [op EXCEPT ![p] = e] /\ UNCHANGED calls /\ UNCHANGED heap
  BY DEF Proceed, Step
<1>2. \A q \in Procs \ {p} : Pair(e, op[q]) /\ Pair(op[q], e)
  BY OpFacts, PairSame
<1>3. heap' \in [Refs -> Contents] /\ (cfg # None => heap'[cfg] = heap[cfg])
  BY <1>1 DEF IInv, TypeOK
<1> QED
  BY <1>1, <1>2, <1>3, LocalStep

LEMMA UseStep ==
  ASSUME IInv, NEW p \in Procs, op[p].pc \in {"list", "defaults"}, NEW v \in SUBSET Addrs,
         ~op[p].mixed => Holds(known, op[p].key, v),
         Use(p, op[p], v), UNCHANGED <<cfg, file, white, known>>
  PROVE  IInv'
<1> DEFINE r == op[p]
<1>1. /\ r \in OpRecord /\ Local(r, cfg, Current, known, file)
  BY OpFacts
<1>2. Shape(r) /\ RefOK(r, cfg) /\ KnownOK(r, known)
  BY <1>1 DEF Local
<1>3. CASE r.kind = "list"
  BY <1>3, ReturnStep DEF Use
<1>4. CASE r.kind = "remove" /\ r.addr \in v
  <2> DEFINE e == Set(r, v \ {r.addr}, "saved")
  <2>1. Proceed(p, e)
    BY <1>4 DEF Use
  <2>2. ~r.mixed => Holds(known, r.key, v \ {r.addr})
    BY <1>2, <1>4 DEF Holds, KnownOK, About, ListKinds
  <2>3. Promised(r, v \ {r.addr})
    BY <1>4 DEF Promised
  <2>4. Local(e, cfg, Current, known, file)
    BY <1>1, <1>2, <1>4, <2>2, <2>3, SetLocal
  <2>5. e \in OpRecord /\ e.pc = "check" /\ e.key = r.key /\ e.mixed = r.mixed
    BY <1>1, SetSet DEF Lists
  <2> HIDE DEF e
  <2> QED
    BY <2>1, <2>4, <2>5, ProceedStep
<1>5. CASE r.kind \in {"add", "addDefaults"} /\ r.addr \notin v
  <2> DEFINE w == v \cup {r.addr}
             e == Set(r, w, "saved")
  <2>1. Proceed(p, e)
    BY <1>5 DEF Use, With
  <2>2. w \in SUBSET Addrs
    BY <1>2, <1>5 DEF Shape
  <2>3. ~r.mixed => Holds(known, r.key, w)
    BY <1>2, <1>5 DEF Holds, KnownOK, About, ListKinds
  <2>4. Promised(r, w)
    BY <1>5 DEF Promised
  <2> HIDE DEF w
  <2>5. Local(e, cfg, Current, known, file)
    BY <1>1, <1>2, <1>5, <2>2, <2>3, <2>4, SetLocal
  <2>6. e \in OpRecord /\ e.pc = "check" /\ e.key = r.key /\ e.mixed = r.mixed
    BY <1>1, <2>2, SetSet DEF Lists
  <2> HIDE DEF e
  <2> QED
    BY <2>1, <2>5, <2>6, ProceedStep
<1>6. CASE GoOn(p, r)
  <2>1. CASE r.rest = {}
    BY <1>6, <2>1, ReturnStep DEF GoOn
  <2>2. CASE r.rest # {}
    <3>1. PICK a \in r.rest :
            Proceed(p, [r EXCEPT !.pc = "check", !.then = "list", !.addr = a, !.rest = @ \ {a}])
      BY <1>6, <2>2 DEF GoOn
    <3> DEFINE e == [r EXCEPT !.pc = "check", !.then = "list", !.addr = a, !.rest = @ \ {a}]
    <3>2. \A b \in r.rest : known[r.key][b] = "open"
      BY <1>2, <2>2 DEF KnownOK, Shape, About, ListKinds
    <3>3. ~r.mixed /\ r.after = "defaults" => Holds(known, r.key, Defaults[r.key])
      BY <1>2 DEF KnownOK
    <3>4. Local(e, cfg, Current, known, file)
      BY <1>1, <1>2, <3>2, <3>3, NextLocal
    <3>5. e \in OpRecord /\ e.pc = "check" /\ e.key = r.key /\ e.mixed = r.mixed
      BY <1>1 DEF OpRecord, Pcs
    <3>6. Proceed(p, e)
      BY <3>1
    <3> HIDE DEF e
    <3> QED
      BY <3>4, <3>5, <3>6, ProceedStep
  <2> QED
    BY <2>1, <2>2
<1> QED
  BY <1>3, <1>4, <1>5, <1>6 DEF Use

LEMMA ListStep ==
  ASSUME IInv, NEW p \in Procs, List(p)
  PROVE  IInv'
<1> DEFINE r == op[p]
           v == heap[r.ref][r.key]
<1>1. /\ r.pc = "list" /\ UNCHANGED <<cfg, file, white, known>>
      /\ IF v = None THEN Proceed(p, Set(r, Defaults[r.key], "defaults")) ELSE Use(p, r, v)
  BY DEF List, At
<1>2. /\ r \in OpRecord /\ Local(r, cfg, Current, known, file)
  BY OpFacts
<1>3. Shape(r) /\ RefOK(r, cfg) /\ KnownOK(r, known)
  BY <1>2 DEF Local
<1>4. r.ref \in Refs /\ r.kind \in ListKinds /\ r.key \in Keys
  BY <1>1, <1>2, <1>3 DEF Shape, OpRecord, AllKinds, ListKinds
<1>5. v \in Lists
  <2>1. heap[r.ref] \in Contents
    BY <1>4 DEF IInv, TypeOK
  <2> QED
    BY <1>4, <2>1 DEF Contents
<1>6. ~r.mixed => Holds(known, r.key, Listed(r.key, v))
  <2>1. ASSUME ~r.mixed
        PROVE  v = heap[cfg][r.key] /\ cfg # None
    BY <1>3, <1>4, <2>1, NoneFacts DEF RefOK
  <2>2. cfg # None => Fits(known, heap[cfg])
    BY AgreesFits DEF IInv, Kept, AcknowledgedIsListed
  <2> QED
    BY <1>4, <2>1, <2>2 DEF Fits
<1>7. CASE v = None
  <2> DEFINE d == Defaults[r.key]
             e == Set(r, d, "defaults")
  <2>1. d \in SUBSET Addrs /\ (~r.mixed => Holds(known, r.key, d))
    BY <1>4, <1>6, <1>7, NoneFacts DEF Listed
  <2>2. Proceed(p, e)
    BY <1>1, <1>7
  <2>3. d = Defaults[r.key]
    OBVIOUS
  <2> HIDE DEF d
  <2>4. Local(e, cfg, Current, known, file)
    BY <1>1, <1>2, <1>3, <2>1, <2>3, SetLocal
  <2>5. e \in OpRecord /\ e.pc = "check" /\ e.key = r.key /\ e.mixed = r.mixed
    BY <1>2, <2>1, SetSet DEF Lists
  <2> HIDE DEF e
  <2> QED
    BY <1>1, <2>2, <2>4, <2>5, ProceedStep
<1>8. CASE v # None
  <2>1. v \in SUBSET Addrs /\ (~r.mixed => Holds(known, r.key, v)) /\ Use(p, r, v)
    BY <1>1, <1>5, <1>6, <1>8 DEF Lists, Listed
  <2> HIDE DEF v
  <2> QED
    BY <1>1, <2>1, UseStep
<1> QED
  BY <1>7, <1>8

LEMMA DefaultsSavedStep ==
  ASSUME IInv, NEW p \in Procs, DefaultsSaved(p)
  PROVE  IInv'
<1>1. /\ op[p].pc = "defaults" /\ Use(p, op[p], Defaults[op[p].key])
      /\ UNCHANGED <<cfg, file, white, known>>
  BY DEF DefaultsSaved, At
<1>2. op[p] \in OpRecord /\ Shape(op[p]) /\ KnownOK(op[p], known)
  BY OpFacts DEF Local
<1>3. op[p].after = "defaults" /\ op[p].key \in Keys
  BY <1>1, <1>2 DEF Shape
<1>4. ~op[p].mixed => Holds(known, op[p].key, Defaults[op[p].key])
  BY <1>2, <1>3 DEF KnownOK
<1>5. Defaults[op[p].key] \in SUBSET Addrs
  BY <1>3, NoneFacts
<1> QED
  BY <1>1, <1>4, <1>5, UseStep

(* What is acknowledged agrees with every configuration that holds it.     *)
LEMMA AckFits ==
  ASSUME TypeOK, NEW r \in OpRecord, Shape(r), r.pc = "saved",
         NEW c, Fits(known, c), Done(r, c)
  PROVE  Fits(Acknowledge(r), c)
<1>1. CASE r.mixed \/ r.kind \in {"list", "replace"}
  BY <1>1 DEF Acknowledge
<1>2. CASE ~(r.mixed \/ r.kind \in {"list", "replace"})
  <2>1. r.kind \in {"add", "addDefaults", "remove", "removeAll"} /\ r.key \in Keys
    BY <1>2 DEF Shape, OpRecord, AllKinds, ListKinds
  <2>2. Promised(r, Listed(r.key, c[r.key]))
    BY <1>2, <2>1 DEF Done, ListKinds
  <2>3. \A k \in Keys : k # r.key => Acknowledge(r)[k] = known[k]
    BY <1>2, <2>1 DEF Acknowledge, TypeOK
  <2>4. Holds(Acknowledge(r), r.key, Listed(r.key, c[r.key]))
    <3>1. CASE r.kind = "removeAll"
      <4>1. \A a \in Addrs : Acknowledge(r)[r.key][a] = "out"
        BY <1>2, <2>1, <3>1 DEF Acknowledge, TypeOK
      <4> QED
        BY <2>2, <3>1, <4>1 DEF Holds, Promised
    <3>2. CASE r.kind \in {"add", "addDefaults", "remove"}
      <4>1. \A a \in Addrs : Acknowledge(r)[r.key][a] =
              IF a = r.addr THEN (IF r.kind = "remove" THEN "out" ELSE "in") ELSE known[r.key][a]
        BY <1>2, <2>1, <3>2 DEF Acknowledge, TypeOK
      <4> QED
        BY <2>1, <2>2, <3>2, <4>1 DEF Holds, Promised, Fits
    <3> QED
      BY <2>1, <3>1, <3>2
  <2> QED
    BY <2>3, <2>4 DEF Fits, Holds
<1> QED
  BY <1>1, <1>2

LEMMA AckFacts ==
  ASSUME TypeOK, NEW r \in OpRecord, Shape(r), r.pc = "saved"
  PROVE  /\ Acknowledge(r) \in Knowledge
         /\ r.mixed \/ r.kind = "replace" => Acknowledge(r) = known
         /\ \A k \in Keys : k # r.key => Acknowledge(r)[k] = known[k]
         /\ r.kind \in {"add", "addDefaults", "remove"} =>
              \A a \in Addrs : a # r.addr => Acknowledge(r)[r.key][a] = known[r.key][a]
<1>1. r.key \in Keys \/ r.kind = "replace"
  BY DEF Shape, OpRecord, AllKinds, ListKinds
<1>2. known \in Knowledge
  BY DEF TypeOK, Knowledge
<1>3. r.kind \in {"add", "addDefaults", "remove"} => r.key \in Keys /\ r.addr \in Addrs
  BY DEF Shape, ListKinds
<1>4. Acknowledge(r) \in Knowledge
  <2>1. CASE r.mixed \/ r.kind \in {"list", "replace"}
    BY <1>2, <2>1 DEF Acknowledge
  <2>2. CASE ~(r.mixed \/ r.kind \in {"list", "replace"}) /\ r.kind = "removeAll"
    BY <1>1, <1>2, <2>2 DEF Acknowledge, Knowledge
  <2>3. CASE ~(r.mixed \/ r.kind \in {"list", "replace"}) /\ r.kind # "removeAll"
    <3>1. r.kind \in {"add", "addDefaults", "remove"}
      BY <2>3 DEF Shape, OpRecord, AllKinds
    <3>2. [known[r.key] EXCEPT ![r.addr] = IF r.kind = "remove" THEN "out" ELSE "in"]
             \in [Addrs -> {"in", "out", "open"}]
      BY <1>2, <1>3, <3>1 DEF Knowledge
    <3>3. Acknowledge(r) = [known EXCEPT ![r.key] =
             [known[r.key] EXCEPT ![r.addr] = IF r.kind = "remove" THEN "out" ELSE "in"]]
      BY <2>3 DEF Acknowledge
    <3> QED
      BY <1>2, <3>2, <3>3 DEF Knowledge
  <2> QED
    BY <2>1, <2>2, <2>3
<1>5. r.mixed \/ r.kind = "replace" => Acknowledge(r) = known
  BY DEF Acknowledge
<1>6. \A k \in Keys : k # r.key => Acknowledge(r)[k] = known[k]
  BY <1>2 DEF Acknowledge, Knowledge
<1>7. r.kind \in {"add", "addDefaults", "remove"} =>
        \A a \in Addrs : a # r.addr => Acknowledge(r)[r.key][a] = known[r.key][a]
  BY <1>2, <1>3 DEF Acknowledge, Knowledge
<1> QED
  BY <1>4, <1>5, <1>6, <1>7

(* The others, when p is acknowledged.                                     *)
LEMMA SavedOthers ==
  ASSUME IInv, NEW p \in Procs, op[p].pc = "saved", NEW q \in Procs \ {p}
  PROVE  Local(op[q], cfg, Current, Acknowledge(op[p]), file)
<1> DEFINE r == op[p]
           s == op[q]
           kn == Acknowledge(r)
<1>1. /\ r \in OpRecord /\ Shape(r) /\ s \in OpRecord /\ Local(s, cfg, Current, known, file)
      /\ Pair(r, s) /\ Pair(s, r) /\ TypeOK
  BY OpFacts DEF Local, IInv
<1>2. /\ r.mixed \/ r.kind = "replace" => kn = known
      /\ \A k \in Keys : k # r.key => kn[k] = known[k]
  BY <1>1, AckFacts
<1>3. s.pc = "close" => Fits(kn, s.out)
  BY <1>1, AckFits DEF Local, KnownOK, Pair
<1> HIDE DEF kn
<1>4. CASE kn = known
  BY <1>1, <1>4 DEF kn
<1>5. CASE kn # known
  <2>1. ~r.mixed /\ r.kind # "replace" /\ r.kind # "none"
    BY <1>1, <1>2, <1>5 DEF Shape
  <2>2. r.key \in Keys /\ r.key # None
    BY <1>1, <2>1, NoneFacts DEF Shape, OpRecord, AllKinds, ListKinds
  <2>3. s.kind \in ListKinds => s.key \in Keys /\ s.key # r.key
    BY <1>1, <2>1, <2>2 DEF Local, Shape, Pair, ListKinds
  <2>4. s.kind \in ListKinds => kn[s.key] = known[s.key]
    BY <1>2, <2>3
  <2>5. s.then = "assign" \/ s.pc = "assign" \/ s.after = "defaults" => s.kind \in ListKinds
    BY <1>1 DEF Local, Shape, OpRecord, AllKinds, ListKinds
  <2>6. KnownOK(s, kn)
    BY <1>1, <1>3, <2>4, <2>5 DEF Local, KnownOK, Holds
  <2> QED
    BY <1>1, <2>6 DEF Local, kn
<1> QED
  BY <1>4, <1>5

LEMMA SavedKept ==
  ASSUME IInv, NEW p \in Procs, op[p].pc = "saved", known' = Acknowledge(op[p]),
         white' = Told(op[p]), UNCHANGED <<cfg, file>>, heap'[cfg] = heap[cfg]
  PROVE  Kept' /\ white' \in SUBSET Addrs
<1> DEFINE r == op[p]
<1>1. r \in OpRecord /\ Local(r, cfg, Current, known, file) /\ TypeOK
  BY OpFacts DEF IInv
<1>2. cfg # None /\ Current = heap[cfg] /\ Shape(r)
  BY <1>1 DEF Local, RefOK, Current
<1>3. Fits(known', heap[cfg])
  <2>1. Fits(known, heap[cfg]) /\ Done(r, heap[cfg])
    BY <1>1, <1>2, AgreesFits DEF Local, StoredOK, IInv, Kept, AcknowledgedIsListed
  <2> QED
    BY <1>1, <1>2, <2>1, AckFits
<1>4. file.state = "whole" /\ Fits(known', file.val)
  <2>1. file.state = "whole" /\ Done(r, file.val)
    BY <1>1 DEF Local, StoredOK
  <2>2. Fits(known, file.val)
    <3>1. CASE \E k \in Keys, a \in Addrs : known[k][a] # "open"
      BY <3>1, AgreesFits DEF IInv, Kept, AcknowledgedIsStored
    <3>2. CASE \A k \in Keys, a \in Addrs : known[k][a] = "open"
      BY <3>2, NothingFits
    <3> QED
      BY <3>1, <3>2
  <2> QED
    BY <1>1, <1>2, <2>1, <2>2, AckFits
<1>5. r.key = Filters => r.kind \in {"add", "addDefaults", "remove"} /\ r.addr \in Addrs
  BY <1>1, <1>2, NoneFacts, ConstantsAssumption DEF Shape, OpRecord, AllKinds, ListKinds
<1>6. white' \in SUBSET Addrs
  BY <1>1, <1>5 DEF Told, TypeOK
<1>7. ASSUME NEW a \in Addrs, known'[Filters][a] = "out"
      PROVE  a \notin white'
  <2>1. known[Filters][a] = "out" => a \notin white
    BY DEF IInv, Kept, RemovedFilterIsDropped
  <2>2. CASE r.key # Filters
    BY <1>1, <1>2, <1>7, <2>1, <2>2, AckFacts, NoneFacts DEF Told
  <2>3. CASE r.key = Filters /\ a # r.addr
    BY <1>1, <1>2, <1>5, <1>7, <2>1, <2>3, AckFacts DEF Told
  <2>4. CASE r.key = Filters /\ a = r.addr /\ r.kind = "remove"
    BY <2>4 DEF Told
  <2>5. CASE r.key = Filters /\ a = r.addr /\ r.kind # "remove"
    <3>1. known[Filters][a] = "open"
      BY <1>1, <1>5, <2>5 DEF Local, KnownOK, About, ListKinds
    <3>2. CASE r.mixed
      BY <1>1, <1>2, <1>7, <3>1, <3>2, AckFacts
    <3>3. CASE ~r.mixed
      <4>1. Acknowledge(r) = [known EXCEPT ![r.key][r.addr] = "in"]
        BY <1>5, <2>5, <3>3 DEF Acknowledge
      <4>2. known'[Filters][a] = "in"
        BY <1>1, <1>5, <2>5, <4>1, NoneFacts DEF TypeOK
      <4> QED
        BY <1>7, <4>2
    <3> QED
      BY <3>2, <3>3
  <2> QED
    BY <1>5, <2>2, <2>3, <2>4, <2>5
<1>8. AcknowledgedIsListed'
  BY <1>3 DEF AcknowledgedIsListed, Agrees, Fits, Holds
<1>9. AcknowledgedIsStored'
  BY <1>4 DEF AcknowledgedIsStored, Agrees, Fits, Holds
<1> QED
  BY <1>6, <1>7, <1>8, <1>9 DEF Kept, RemovedFilterIsDropped

LEMMA SavedStep ==
  ASSUME IInv, NEW p \in Procs, Saved(p)
  PROVE  IInv'
<1> DEFINE r == op[p]
<1>1. /\ r.pc = "saved" /\ white' = Told(r) /\ known' = Acknowledge(r)
      /\ GoOn(p, r) /\ UNCHANGED <<cfg, file>>
  BY DEF Saved, At
<1>2. /\ r \in OpRecord /\ Local(r, cfg, Current, known, file) /\ TypeOK
      /\ \A q \in Procs \ {p} : Pair(r, op[q]) /\ Pair(op[q], r)
  BY OpFacts DEF IInv
<1>3. cfg # None /\ Shape(r) /\ RefOK(r, cfg) /\ KnownOK(r, known)
  BY <1>1, <1>2 DEF Local, RefOK
<1>4. known' \in Knowledge
  BY <1>1, <1>2, <1>3, AckFacts
<1>5. \A q \in Procs \ {p} : Local(op[q], cfg, Current, known', file')
  BY <1>1, SavedOthers
<1>6. file' \in [state : {"absent", "whole", "torn"}, val : Contents]
  BY <1>1, <1>2 DEF TypeOK
<1>7. CASE r.rest = {}
  <2>1. Return(p)
    BY <1>1, <1>7 DEF GoOn
  <2>2. heap' \in [Refs -> Contents] /\ (cfg # None => heap'[cfg] = heap[cfg])
    BY <1>2, <2>1, ReturnHeap
  <2>3. op' = [op EXCEPT ![p] = Idle] /\ UNCHANGED calls
    BY <2>1 DEF Return, Step
  <2>4. Kept' /\ white' \in SUBSET Addrs
    BY <1>1, <1>3, <2>2, SavedKept
  <2>5. Local(Idle, cfg, Current, known', file')
    BY IdleLocal
  <2>6. \A q \in Procs \ {p} : Pair(Idle, op[q]) /\ Pair(op[q], Idle)
    BY IdlePair
  <2> QED
    BY <1>1, <1>4, <1>5, <1>6, <2>2, <2>3, <2>4, <2>5, <2>6, IdleFacts, OwnStep
<1>8. CASE r.rest # {}
  <2>1. PICK a \in r.rest :
          Proceed(p, [r EXCEPT !.pc = "check", !.then = "list", !.addr = a, !.rest = @ \ {a}])
    BY <1>1, <1>8 DEF GoOn
  <2> DEFINE e == [r EXCEPT !.pc = "check", !.then = "list", !.addr = a, !.rest = @ \ {a}]
  <2>2. op' = [op EXCEPT ![p] = e] /\ UNCHANGED calls /\ UNCHANGED heap
    BY <2>1 DEF Proceed, Step
  <2>3. \A b \in r.rest : known'[r.key][b] = "open"
    <3>1. r.kind = "addDefaults" /\ r.addr \notin r.rest /\ r.rest \subseteq Addrs
      BY <1>2, <1>3, <1>8 DEF Shape, OpRecord
    <3>2. \A b \in r.rest : known[r.key][b] = "open"
      BY <1>3, <3>1 DEF KnownOK, About, ListKinds
    <3>3. \A b \in Addrs : b # r.addr => known'[r.key][b] = known[r.key][b]
      BY <1>1, <1>2, <1>3, <3>1, AckFacts
    <3> QED
      BY <3>1, <3>2, <3>3
  <2>4. r.after = "saved"
    BY <1>1, <1>3 DEF Shape
  <2>5. Local(e, cfg, Current, known', file')
    BY <1>1, <1>2, <1>3, <2>3, <2>4, NextLocal
  <2>6. e \in OpRecord /\ e.pc = "check" /\ e.key = r.key /\ e.mixed = r.mixed
    BY <1>2 DEF OpRecord, Pcs
  <2> HIDE DEF e
  <2>7. heap' \in [Refs -> Contents] /\ heap'[cfg] = heap[cfg]
    BY <1>2, <2>2 DEF TypeOK
  <2>8. Kept' /\ white' \in SUBSET Addrs
    BY <1>1, <2>7, SavedKept
  <2>9. \A q \in Procs \ {p} : Pair(e, op[q]) /\ Pair(op[q], e)
    BY <1>1, <1>2, <2>6, PairSame
  <2> QED
    BY <1>1, <1>4, <1>5, <1>6, <2>2, <2>5, <2>6, <2>7, <2>8, <2>9, OwnStep
<1> QED
  BY <1>7, <1>8

-----------------------------------------------------------------------------
(* Calls and crashes                                                       *)

LEMMA ListCallLocal ==
  ASSUME NEW r \in OpRecord, r.pc = "check", r.then = "list", r.after = "idle", r.ref = None,
         r.fresh = FALSE, r.mixed = FALSE, r.key \in Keys,
         r.kind \in {"list", "add", "addDefaults", "remove"},
         r.kind # "list" => r.addr \in Addrs, r.kind # "addDefaults" => r.rest = {},
         r.addr \notin r.rest,
         NEW c, NEW cur, NEW kn, NEW f, \A b \in About(r) : kn[r.key][b] = "open"
  PROVE  Local(r, c, cur, kn, f)
<1>1. Shape(r)
  BY DEF Shape, ListKinds
<1>2. KnownOK(r, kn)
  BY DEF KnownOK
<1>3. RefOK(r, c) /\ ValueOK(r) /\ StoredOK(r, cur, f)
  BY DEF RefOK, ValueOK, StoredOK, Pending
<1> QED
  BY <1>1, <1>2, <1>3 DEF Local

LEMMA RemoveAllLocal ==
  ASSUME NEW c, NEW cur, NEW kn, NEW f, \A b \in Addrs : kn[Bootstrap][b] = "open"
  PROVE  /\ RemoveAllCall \in OpRecord /\ RemoveAllCall.pc = "check"
         /\ RemoveAllCall.mixed = FALSE /\ RemoveAllCall.key = Bootstrap
         /\ Local(RemoveAllCall, c, cur, kn, f)
<1> DEFINE r == RemoveAllCall
<1>1. /\ r \in OpRecord /\ r.kind = "removeAll" /\ r.pc = "check" /\ r.key = Bootstrap
      /\ r.addr = None /\ r.rest = {} /\ r.val = {} /\ r.then = "assign" /\ r.after = "saved"
      /\ r.ref = None /\ r.fresh = FALSE /\ r.mixed = FALSE
  BY IdleFacts, NoneFacts DEF RemoveAllCall, OpRecord, Pcs, AllKinds, Lists
<1> HIDE DEF r
<1>2. Shape(r)
  BY <1>1, NoneFacts DEF Shape, ListKinds
<1>3. KnownOK(r, kn)
  <2>1. About(r) = Addrs
    BY <1>1 DEF About
  <2>2. Holds(kn, Bootstrap, {}) /\ {} # None
    BY NoneFacts DEF Holds
  <2> QED
    BY <1>1, <2>1, <2>2 DEF KnownOK
<1>4. ValueOK(r)
  BY <1>1 DEF ValueOK, Promised
<1>5. RefOK(r, c) /\ StoredOK(r, cur, f)
  BY <1>1 DEF RefOK, StoredOK, Pending
<1> QED
  BY <1>1, <1>2, <1>3, <1>4, <1>5 DEF Local, r

LEMMA ReplaceLocal ==
  ASSUME NEW c, NEW cur, NEW kn, NEW f
  PROVE  /\ ReplaceCall \in OpRecord /\ ReplaceCall.pc = "replace"
         /\ ReplaceCall.mixed = FALSE /\ ReplaceCall.key = None
         /\ Local(ReplaceCall, c, cur, kn, f)
<1> DEFINE r == ReplaceCall
<1>1. /\ r \in OpRecord /\ r.kind = "replace" /\ r.pc = "replace" /\ r.key = None
      /\ r.addr = None /\ r.rest = {} /\ r.then = "idle" /\ r.after = "idle"
      /\ r.ref = None /\ r.fresh = FALSE /\ r.mixed = FALSE
  BY IdleFacts DEF ReplaceCall, OpRecord, Pcs, AllKinds
<1> HIDE DEF r
<1>2. Shape(r)
  BY <1>1 DEF Shape, ListKinds
<1>3. KnownOK(r, kn)
  BY <1>1 DEF KnownOK, ListKinds
<1>4. RefOK(r, c) /\ ValueOK(r) /\ StoredOK(r, cur, f)
  BY <1>1 DEF RefOK, ValueOK, StoredOK, Pending
<1> QED
  BY <1>1, <1>2, <1>3, <1>4 DEF Local, r

(* Nothing is acknowledged.                                                *)
LEMMA KeptWeaker ==
  ASSUME IInv, Weaker(known', known), UNCHANGED <<heap, cfg, file, white>>
  PROVE  Kept'
<1>1. AcknowledgedIsListed'
  <2>1. cfg # None => Fits(known, heap[cfg])
    BY AgreesFits DEF IInv, Kept, AcknowledgedIsListed
  <2>2. cfg # None => Fits(known', heap[cfg])
    BY <2>1, FitsWeaker
  <2> QED
    BY <2>2 DEF AcknowledgedIsListed, Agrees, Fits, Holds
<1>2. AcknowledgedIsStored'
  <2>1. (\E k \in Keys, a \in Addrs : known[k][a] # "open") =>
           file.state = "whole" /\ Fits(known, file.val)
    BY AgreesFits DEF IInv, Kept, AcknowledgedIsStored
  <2>2. (\E k \in Keys, a \in Addrs : known'[k][a] # "open") =>
           file.state = "whole" /\ Fits(known', file.val)
    BY <2>1, FitsWeaker DEF Weaker
  <2> QED
    BY <2>2 DEF AcknowledgedIsStored, Agrees, Fits, Holds
<1>3. RemovedFilterIsDropped'
  BY NoneFacts DEF IInv, Kept, RemovedFilterIsDropped, Weaker
<1> QED
  BY <1>1, <1>2, <1>3 DEF Kept

LEMMA CallFacts ==
  ASSUME TypeOK, NEW r \in Calls, NEW kn,
         kn = IF r.kind = "replace" THEN Forget(Keys, Addrs) ELSE Forget({r.key}, About(r)),
         NEW c, NEW cur, NEW f
  PROVE  /\ r \in OpRecord /\ r.pc \in {"check", "replace"} /\ r.mixed = FALSE
         /\ kn \in Knowledge /\ Weaker(kn, known)
         /\ Local(r, c, cur, kn, f)
<1>1. kn \in Knowledge /\ Weaker(kn, known)
  BY ForgetFacts
<1>2. CASE \E k \in Keys : r = ListCall("list", k, None, {})
  <2>1. PICK k \in Keys : r = ListCall("list", k, None, {})
    BY <1>2
  <2>2. /\ r \in OpRecord /\ r.kind = "list" /\ r.pc = "check" /\ r.key = k /\ r.addr = None
        /\ r.rest = {} /\ r.then = "list" /\ r.after = "idle" /\ r.ref = None
        /\ r.fresh = FALSE /\ r.mixed = FALSE
    BY <2>1, IdleFacts DEF ListCall, OpRecord, Pcs, AllKinds
  <2>3. About(r) = {}
    BY <2>2 DEF About
  <2>4. Local(r, c, cur, kn, f)
    BY <2>2, <2>3, ListCallLocal
  <2> QED
    BY <1>1, <2>2, <2>4
<1>3. CASE \E kind \in {"add", "remove"}, k \in Keys, a \in Addrs : r = ListCall(kind, k, a, {})
  <2>1. PICK kind \in {"add", "remove"}, k \in Keys, a \in Addrs : r = ListCall(kind, k, a, {})
    BY <1>3
  <2>2. /\ r \in OpRecord /\ r.kind = kind /\ r.pc = "check" /\ r.key = k /\ r.addr = a
        /\ r.rest = {} /\ r.then = "list" /\ r.after = "idle" /\ r.ref = None
        /\ r.fresh = FALSE /\ r.mixed = FALSE
    BY <2>1, IdleFacts DEF ListCall, OpRecord, Pcs, AllKinds
  <2>3. About(r) = {a}
    BY <2>2 DEF About
  <2>4. kn[k][a] = "open"
    BY <2>2, <2>3 DEF Forget
  <2>5. Local(r, c, cur, kn, f)
    BY <2>2, <2>3, <2>4, ListCallLocal
  <2> QED
    BY <1>1, <2>2, <2>5
<1>4. CASE \E a \in Defaults[Bootstrap] :
             r = ListCall("addDefaults", Bootstrap, a, Defaults[Bootstrap] \ {a})
  <2>1. PICK a \in Defaults[Bootstrap] :
             r = ListCall("addDefaults", Bootstrap, a, Defaults[Bootstrap] \ {a})
    BY <1>4
  <2> DEFINE rest == Defaults[Bootstrap] \ {a}
  <2>2. a \in Addrs /\ rest \in SUBSET Addrs /\ Bootstrap \in Keys /\ a \notin rest
    BY NoneFacts
  <2>3. r = ListCall("addDefaults", Bootstrap, a, rest)
    BY <2>1
  <2> HIDE DEF rest
  <2>4. /\ r \in OpRecord /\ r.kind = "addDefaults" /\ r.pc = "check" /\ r.key = Bootstrap
        /\ r.addr = a /\ r.rest = rest /\ r.then = "list" /\ r.after = "idle" /\ r.ref = None
        /\ r.fresh = FALSE /\ r.mixed = FALSE
    BY <2>2, <2>3, IdleFacts DEF ListCall, OpRecord, Pcs, AllKinds
  <2>5. About(r) = {a} \cup rest
    BY <2>4 DEF About
  <2>6. \A b \in About(r) : kn[Bootstrap][b] = "open"
    BY <2>2, <2>4, <2>5 DEF Forget
  <2>7. Local(r, c, cur, kn, f)
    BY <2>2, <2>4, <2>6, ListCallLocal
  <2> QED
    BY <1>1, <2>4, <2>7
<1>5. CASE r = RemoveAllCall
  <2>1. r.kind = "removeAll" /\ r.key = Bootstrap /\ About(r) = Addrs
    BY <1>5, IdleFacts DEF RemoveAllCall, About, OpRecord
  <2>2. \A b \in Addrs : kn[Bootstrap][b] = "open"
    BY <2>1, NoneFacts DEF Forget
  <2> QED
    BY <1>1, <1>5, <2>2, RemoveAllLocal
<1>6. CASE r = ReplaceCall
  BY <1>1, <1>6, ReplaceLocal
<1>7. \/ \E k \in Keys : r = ListCall("list", k, None, {})
      \/ \E kind \in {"add", "remove"}, k \in Keys, a \in Addrs : r = ListCall(kind, k, a, {})
      \/ \E a \in Defaults[Bootstrap] :
            r = ListCall("addDefaults", Bootstrap, a, Defaults[Bootstrap] \ {a})
      \/ r = RemoveAllCall \/ r = ReplaceCall
  BY DEF Calls
<1> QED
  BY <1>2, <1>3, <1>4, <1>5, <1>6, <1>7

LEMMA CallStep ==
  ASSUME IInv, NEW p \in Procs, Call(p)
  PROVE  IInv'
<1>1. PICK r \in Calls :
        LET others == {q \in Procs \ {p} : Busy(q) /\ op[q].key = r.key}
            mixing == IF others = {} THEN {} ELSE others \cup {p}
        IN /\ op' = Mix([op EXCEPT ![p] = r], mixing)
           /\ known' = IF r.kind = "replace" THEN Forget(Keys, Addrs)
                       ELSE Forget({r.key}, About(r))
  BY DEF Call
<1>2. /\ op[p].pc = "idle" /\ calls < MaxCalls /\ calls' = calls + 1
      /\ UNCHANGED <<heap, cfg, file, white>>
  BY DEF Call, At
<1> DEFINE others == {q \in Procs \ {p} : Busy(q) /\ op[q].key = r.key}
           mixing == IF others = {} THEN {} ELSE others \cup {p}
           ops == [op EXCEPT ![p] = r]
<1>3. /\ r \in OpRecord /\ r.pc \in {"check", "replace"} /\ r.mixed = FALSE
      /\ known' \in Knowledge /\ Weaker(known', known)
      /\ Local(r, cfg, Current, known', file)
  BY <1>1, CallFacts DEF IInv
<1>4. ops \in [Procs -> OpRecord] /\ ops[p] = r /\ \A q \in Procs \ {p} : ops[q] = op[q]
  BY <1>3 DEF IInv, TypeOK
<1>5. /\ op' \in [Procs -> OpRecord]
      /\ \A q \in Procs : q \in mixing => op'[q] = [ops[q] EXCEPT !.mixed = TRUE]
      /\ \A q \in Procs : q \notin mixing => op'[q] = ops[q]
  <2>1. op' = Mix(ops, mixing)
    BY <1>1
  <2> HIDE DEF ops, mixing
  <2>2. /\ Mix(ops, mixing) \in [Procs -> OpRecord]
        /\ \A q \in Procs : q \in mixing => Mix(ops, mixing)[q] = [ops[q] EXCEPT !.mixed = TRUE]
        /\ \A q \in Procs : q \notin mixing => Mix(ops, mixing)[q] = ops[q]
    BY <1>4, MixFacts
  <2> QED
    BY <2>1, <2>2
<1> HIDE DEF ops
<1>6. op'[p] = r \/ op'[p] = [r EXCEPT !.mixed = TRUE]
  BY <1>4, <1>5
<1>7. \A q \in Procs \ {p} : op'[q] = op[q] \/ op'[q] = [op[q] EXCEPT !.mixed = TRUE]
  BY <1>4, <1>5
<1>8. Current' = Current
  BY <1>2 DEF Current
<1>9. Local(op'[p], cfg', Current', known', file')
  <2>1. Local([r EXCEPT !.mixed = TRUE], cfg, Current, known', file)
    <3>1. /\ Shape(r) /\ KnownOK(r, known')
          /\ r.ref # None \/ r.pc \in {"got", "open", "write", "close", "saved"} => cfg # None
          /\ r.pc # "saved"
      BY <1>3 DEF Local, RefOK
    <3> DEFINE kn == known'
    <3>2. KnownOK(r, kn)
      BY <3>1
    <3> HIDE DEF kn
    <3>3. Local([r EXCEPT !.mixed = TRUE], cfg, Current, kn, file)
      BY <1>3, <3>1, <3>2, LocalMixed
    <3> QED
      BY <3>3 DEF kn
  <2> QED
    BY <1>2, <1>3, <1>6, <1>8, <2>1
<1>10. ASSUME NEW q \in Procs \ {p}
       PROVE  Local(op'[q], cfg', Current', known', file')
  <2> DEFINE s == op[q]
  <2>1. s \in OpRecord /\ Local(s, cfg, Current, known, file)
    BY OpFacts
  <2> HIDE DEF s
  <2>2. Local(s, cfg, Current, known', file)
    BY <1>3, <2>1, LocalWeaker
  <2>3. Local([s EXCEPT !.mixed = TRUE], cfg, Current, known, file)
    BY <2>1, LocalMixed DEF Local, RefOK, StoredOK
  <2>4. [s EXCEPT !.mixed = TRUE] \in OpRecord
    BY <2>1, SetMixed
  <2>5. Local([s EXCEPT !.mixed = TRUE], cfg, Current, known', file)
    BY <1>3, <2>3, <2>4, LocalWeaker
  <2>6. op'[q] = s \/ op'[q] = [s EXCEPT !.mixed = TRUE]
    BY <1>7 DEF s
  <2> QED
    BY <1>2, <1>8, <2>2, <2>5, <2>6
<1>11. ASSUME NEW q \in Procs \ {p}
       PROVE  Pair(op'[p], op'[q]) /\ Pair(op'[q], op'[p])
  <2>1. op[q] \in OpRecord /\ (op'[q] = op[q] \/ op'[q] = [op[q] EXCEPT !.mixed = TRUE])
    BY <1>7, OpFacts
  <2>2. /\ op'[p].pc = r.pc /\ op'[p].key = r.key
        /\ op'[q].pc = op[q].pc /\ op'[q].key = op[q].key
    <3>1. op'[p].pc = r.pc /\ op'[p].key = r.key
      BY <1>3, <1>6, SetMixed
    <3>2. op'[q].pc = op[q].pc /\ op'[q].key = op[q].key
      BY <2>1, SetMixed
    <3> QED
      BY <3>1, <3>2
  <2>3. ASSUME op[q].pc # "idle", op[q].key = r.key
        PROVE  op'[p].mixed /\ op'[q].mixed
    <3>1. q \in mixing /\ p \in mixing
      BY <2>3 DEF Busy, At
    <3> HIDE DEF mixing
    <3>2. op'[q] = [op[q] EXCEPT !.mixed = TRUE] /\ op'[p] = [r EXCEPT !.mixed = TRUE]
      BY <1>4, <1>5, <3>1
    <3> QED
      BY <1>3, <2>1, <3>2, SetMixed
  <2> QED
    BY <1>3, <2>2, <2>3 DEF Pair
<1> HIDE DEF mixing
<1>12. OpsOK'
  BY <1>5, <1>7, <1>9, <1>10, <1>11, StepOps DEF IInv
<1>13. TypeOK'
  <2>1. ASSUME NEW q \in Procs, op'[q].pc \in {"list", "assign"}
        PROVE  op'[q].ref # None /\ op'[q].key # None
    <3>1. CASE q = p
      BY <1>3, <1>6, <2>1, <3>1, SetMixed
    <3>2. CASE q # p
      <4>1. op[q] \in OpRecord /\ (op'[q] = op[q] \/ op'[q] = [op[q] EXCEPT !.mixed = TRUE])
        BY <1>7, <3>2, OpFacts
      <4>2. op'[q].pc = op[q].pc /\ op'[q].ref = op[q].ref /\ op'[q].key = op[q].key
        BY <4>1, SetMixed
      <4> QED
        BY <2>1, <4>2 DEF IInv, TypeOK
    <3> QED
      BY <3>1, <3>2
  <2>2. calls' \in 0..MaxCalls
    BY <1>2, ConstantsAssumption DEF IInv, TypeOK
  <2> QED
    BY <1>2, <1>3, <1>5, <2>1, <2>2 DEF IInv, TypeOK, Knowledge
<1>14. Kept'
  BY <1>2, <1>3, KeptWeaker
<1> QED
  BY <1>12, <1>13, <1>14 DEF IInv

LEMMA AllIdle ==
  ASSUME op' = [p \in Procs |-> Idle]
  PROVE  op' \in [Procs -> OpRecord] /\ OpsOK' /\ \A p \in Procs : op'[p].pc = "idle"
BY IdleFacts, IdleLocal, IdlePair DEF OpsOK

LEMMA CrashStep ==
  ASSUME IInv, Crash
  PROVE  IInv'
<1>1. PICK torn \in BOOLEAN :
        /\ file' = IF torn THEN [file EXCEPT !.state = "torn"] ELSE file
        /\ known' = IF torn THEN Forget(Keys, Addrs) ELSE known
  BY DEF Crash
<1>2. /\ heap' = [r \in Refs |-> NoKeys] /\ cfg' = None /\ white' = {}
      /\ op' = [p \in Procs |-> Idle] /\ UNCHANGED calls
  BY DEF Crash
<1>3. /\ known' \in Knowledge /\ Weaker(known', known)
      /\ torn => \A k \in Keys, a \in Addrs : known'[k][a] = "open"
  BY <1>1, ForgetFacts DEF IInv, TypeOK, Knowledge, Weaker
<1>4. TypeOK'
  BY <1>1, <1>2, <1>3, AllIdle, NoneFacts DEF IInv, TypeOK, Knowledge
<1>5. Kept'
  <2>1. CASE torn
    BY <1>2, <1>3, <2>1 DEF Kept, AcknowledgedIsListed, AcknowledgedIsStored,
                            RemovedFilterIsDropped
  <2>2. CASE ~torn
    BY <1>1, <1>2, <2>2 DEF IInv, Kept, AcknowledgedIsListed, AcknowledgedIsStored,
                            RemovedFilterIsDropped, Agrees
  <2> QED
    BY <2>1, <2>2
<1> QED
  BY <1>2, <1>4, <1>5, AllIdle DEF IInv

-----------------------------------------------------------------------------
(* The theorems                                                            *)

LEMMA Initially == Init => IInv
<1> SUFFICES ASSUME Init
             PROVE  IInv
  OBVIOUS
<1>1. /\ heap = [r \in Refs |-> NoKeys] /\ cfg = None /\ white = {}
      /\ op = [p \in Procs |-> Idle] /\ calls = 0
  BY DEF Init
<1>2. /\ file \in [state : {"absent", "whole", "torn"}, val : Contents]
      /\ known \in [Keys -> [Addrs -> {"in", "out", "open"}]]
      /\ (\E k \in Keys, a \in Addrs : known[k][a] # "open") =>
           file.state = "whole" /\ Agrees(file.val)
  <2>1. CASE /\ file = [state |-> "absent", val |-> NoKeys]
             /\ known = [k \in Keys |-> [a \in Addrs |-> "open"]]
    BY <2>1, NoneFacts
  <2>2. CASE \E c \in Contents :
               /\ file = [state |-> "whole", val |-> c]
               /\ known = [k \in Keys |-> [a \in Addrs |->
                             IF a \in Listed(k, c[k]) THEN "in" ELSE "out"]]
    BY <2>2 DEF Agrees
  <2> QED
    BY <2>1, <2>2 DEF Init
<1>3. TypeOK
  BY <1>1, <1>2, IdleFacts, NoneFacts, ConstantsAssumption DEF TypeOK
<1>4. OpsOK
  BY <1>1, IdleLocal, IdlePair DEF OpsOK
<1>5. Kept
  BY <1>1, <1>2 DEF Kept, AcknowledgedIsListed, AcknowledgedIsStored, RemovedFilterIsDropped
<1> QED
  BY <1>3, <1>4, <1>5 DEF IInv

LEMMA Preserved == IInv /\ [Next]_vars => IInv'
<1> SUFFICES ASSUME IInv, [Next]_vars
             PROVE  IInv'
  OBVIOUS
<1>1. ASSUME NEW p \in Procs, Call(p) \/ Check(p) \/ FirstDefault(p) \/ FirstOpen(p)
      PROVE  IInv'
  BY <1>1, CallStep, CheckStep, FirstDefaultStep, FirstOpenStep
<1>2. ASSUME NEW p \in Procs, Load(p) \/ Got(p) \/ Assign(p) \/ Replace(p) \/ Open(p)
      PROVE  IInv'
  BY <1>2, LoadStep, GotStep, AssignStep, ReplaceStep, OpenStep
<1>3. ASSUME NEW p \in Procs, Write(p) \/ Close(p) \/ List(p) \/ DefaultsSaved(p) \/ Saved(p)
      PROVE  IInv'
  BY <1>3, WriteStep, CloseStep, ListStep, DefaultsSavedStep, SavedStep
<1>4. CASE Crash
  BY <1>4, CrashStep
<1>5. CASE UNCHANGED vars
  BY <1>5 DEF vars, IInv, TypeOK, OpsOK, Current, Kept, AcknowledgedIsListed,
              AcknowledgedIsStored, RemovedFilterIsDropped, Agrees
<1> QED
  BY <1>1, <1>2, <1>3, <1>4, <1>5 DEF Next

LEMMA Invariance == Spec => []IInv
<1>1. Init => IInv
  BY Initially
<1>2. IInv /\ [Next]_vars => IInv'
  BY Preserved
<1> QED
  BY <1>1, <1>2, PTL DEF Spec

(* The configuration keeps its type: no call uses a list it has no object  *)
(* for (ConfigApi, BootstrapApi, SwarmApi).                                *)
THEOREM ConfigTyped == Spec => []TypeOK
<1>1. IInv => TypeOK
  BY DEF IInv
<1> QED
  BY <1>1, Invariance, PTL

(* What a call that was alone on its list has added or removed is listed,  *)
(* for any callers, addresses and interleaving of other calls.             *)
THEOREM AcknowledgedIsAlwaysListed == Spec => []AcknowledgedIsListed
<1>1. IInv => AcknowledgedIsListed
  BY DEF IInv, Kept
<1> QED
  BY <1>1, Invariance, PTL

(* The file can be read and holds what was acknowledged, whenever the      *)
(* process dies.                                                           *)
THEOREM AcknowledgedIsAlwaysStored == Spec => []AcknowledgedIsStored
<1>1. IInv => AcknowledgedIsStored
  BY DEF IInv, Kept
<1> QED
  BY <1>1, Invariance, PTL

(* A filter whose removal was acknowledged is not in the white list of the *)
(* swarm.                                                                  *)
THEOREM RemovedFilterStaysDropped == Spec => []RemovedFilterIsDropped
<1>1. IInv => RemovedFilterIsDropped
  BY DEF IInv, Kept
<1> QED
  BY <1>1, Invariance, PTL
=============================================================================
