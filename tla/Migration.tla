------------------------------ MODULE Migration -----------------------------
(***************************************************************************)
(* The migration of a repository between the versions 0 and 1              *)
(* (MigrationManager, MigrateTo1).  In version 0 a pin is an empty file    *)
(* named by its content id, in version 1 it is a file of the pin store.    *)
(* A migration moves one pin after the other, swallows what goes wrong     *)
(* with a pin, and writes the version last.  Nothing keeps two migrations  *)
(* from running at the same time.                                          *)
(***************************************************************************)
EXTENDS Naturals

CONSTANTS
  Procs,   \* the callers
  Pins,    \* the content ids that are pinned
  NoPin,
  Faults   \* TRUE: operations on files may fail

ASSUME MigrationAssumption == NoPin \notin Pins /\ Faults \in BOOLEAN

VARIABLES
  old,        \* the pins that have a file of version 0
  new,        \* [Pins -> ...], the files of version 1
  version,    \* the file "version": 0 also if it is missing, or Torn
  mig,        \* the migration each process runs
  overlap,    \* history: two migrations ran at the same time
  swallowed,  \* history: what went wrong with a pin was swallowed
  died,       \* history: the process died during a migration
  downgraded, \* history: a migration to version 0 was started
  partial     \* history: one of those failed or died on its way

repository == <<old, new, version>>
history == <<overlap, swallowed, died, downgraded, partial>>
migrationVars == <<repository, mig, history>>

Torn == 2      \* no number can be read from the file
Latest == 1

MigPcs == {"idle", "read", "compare", "pins", "putting", "deleteOld", "deleteNew",
           "version", "done", "failed"}

MigRecord == [ pc : MigPcs, target : {0, Latest}, current : {0, Latest},
               seen : SUBSET Pins, pin : Pins \cup {NoPin} ]

NoMigration == [pc |-> "idle", target |-> 0, current |-> 0, seen |-> {}, pin |-> NoPin]

MigrationTypeOK ==
  /\ old \subseteq Pins
  /\ new \in [Pins -> {"absent", "torn", "whole"}]
  /\ version \in {0, Latest, Torn}
  /\ mig \in [Procs -> MigRecord]
  /\ \A p \in Procs :
       mig[p].pc \in {"putting", "deleteOld", "deleteNew"} <=> mig[p].pin # NoPin
  /\ overlap \in BOOLEAN /\ swallowed \in BOOLEAN /\ died \in BOOLEAN
  /\ downgraded \in BOOLEAN /\ partial \in BOOLEAN

MigrationInit ==
  /\ old = Pins
  /\ new = [f \in Pins |-> "absent"]
  /\ version = 0
  /\ mig = [p \in Procs |-> NoMigration]
  /\ overlap = FALSE /\ swallowed = FALSE /\ died = FALSE
  /\ downgraded = FALSE /\ partial = FALSE

MigAt(p, pc) == mig[p].pc = pc
Migrating(p) == mig[p].pc \notin {"idle", "done", "failed"}
MigGoto(p, pc) == mig' = [mig EXCEPT ![p].pc = pc]

(* Mutant: the pin stays in hand.                                          *)
KeepsPin(p) == mig' = [mig EXCEPT ![p].pc = "pins", ![p].seen = @ \cup {mig[p].pin}]

(* The pin in hand is dealt with.                                          *)
NextPin(p) == mig' = [mig EXCEPT ![p].pc = "pins", ![p].seen = @ \cup {mig[p].pin},
                                 ![p].pin = NoPin]
SkipPin(p, f) == mig' = [mig EXCEPT ![p].seen = @ \cup {f}]

(* An operation on a file of the pin in hand throws.                       *)
Fault(p) ==
  /\ Faults
  /\ swallowed' = TRUE
  /\ partial' = (partial \/ mig[p].target = 0)
  /\ UNCHANGED <<overlap, died, downgraded>>

-----------------------------------------------------------------------------
(* MigrationManager.MirgrateToVersionAsync                                 *)

MigrateTo(p, target) ==
  /\ MigAt(p, "idle")
  /\ mig' = [mig EXCEPT ![p] = [NoMigration EXCEPT !.pc = "read", !.target = target]]
  /\ overlap' = (overlap \/ \E q \in Procs : Migrating(q))
  /\ downgraded' = (downgraded \/ target = 0)
  /\ UNCHANGED <<repository, swallowed, died, partial>>

(* The version is read twice: for where to start and for which way to go.  *)
ReadVersion(p) ==
  /\ MigAt(p, "read")
  /\ mig' = IF version = Torn THEN [mig EXCEPT ![p].pc = "failed"]
            ELSE [mig EXCEPT ![p].pc = "compare", ![p].current = version]
  /\ UNCHANGED <<repository, history>>

(* There is no migration from version 0 downwards.                         *)
Compare(p) ==
  LET m == mig[p] IN
  /\ MigAt(p, "compare")
  /\ MigGoto(p, IF version = Torn THEN "failed"
                ELSE IF m.current = m.target THEN "done"
                ELSE IF m.target = Latest /\ version = Latest THEN "failed"
                ELSE "pins")
  /\ UNCHANGED <<repository, history>>

BeingPut(f) == \E q \in Procs : MigAt(q, "putting") /\ mig[q].pin = f

(* Mutant: the old file is removed before the new one is written.          *)
DeletedFirst(f) == old \ {f}
KeptForNow(f) == old

(* UpgradeAsync: FileStore.PutAsync of the pin, which truncates its file   *)
(* and fails if somebody else writes to it; then the old file goes.        *)
UpgradePin(p) ==
  /\ MigAt(p, "pins") /\ mig[p].target = Latest
  /\ \E f \in old \ mig[p].seen :
       IF BeingPut(f) THEN SkipPin(p, f) /\ UNCHANGED <<old, new>>
       ELSE /\ old' = KeptForNow(f)
            /\ new' = [new EXCEPT ![f] = "torn"]
            /\ mig' = [mig EXCEPT ![p].pc = "putting", ![p].pin = f]
  /\ UNCHANGED <<version, history>>

PutPin(p) ==
  /\ MigAt(p, "putting")
  /\ new' = [new EXCEPT ![mig[p].pin] = "whole"]
  /\ MigGoto(p, "deleteOld")
  /\ UNCHANGED <<old, version, history>>

PutFails(p) ==
  /\ MigAt(p, "putting") /\ Fault(p)
  /\ new' = [new EXCEPT ![mig[p].pin] = "absent"]
  /\ NextPin(p)
  /\ UNCHANGED <<old, version>>

DeleteOld(p) ==
  /\ MigAt(p, "deleteOld")
  /\ old' = old \ {mig[p].pin}
  /\ NextPin(p)
  /\ UNCHANGED <<new, version, history>>

(* DowngradeAsync: the pin is read, then the old file is created and the   *)
(* new one removed.  A file that cannot be read is left alone.             *)
DowngradePin(p) ==
  /\ MigAt(p, "pins") /\ mig[p].target = 0
  /\ \E f \in {g \in Pins : new[g] # "absent"} \ mig[p].seen :
       IF new[f] = "torn" THEN SkipPin(p, f) /\ UNCHANGED old
       ELSE /\ old' = old \cup {f}
            /\ mig' = [mig EXCEPT ![p].pc = "deleteNew", ![p].pin = f]
  /\ UNCHANGED <<new, version, history>>

DeleteNew(p) ==
  /\ MigAt(p, "deleteNew")
  /\ new' = [new EXCEPT ![mig[p].pin] = "absent"]
  /\ NextPin(p)
  /\ UNCHANGED <<old, version, history>>

DeleteFails(p) ==
  /\ mig[p].pc \in {"deleteOld", "deleteNew"} /\ Fault(p)
  /\ NextPin(p)
  /\ UNCHANGED repository

(* Mutant: one pin is enough.                                              *)
AnySeen(p) == mig[p].seen # {}
AllSeen(p) ==
  IF mig[p].target = Latest THEN old \subseteq mig[p].seen
  ELSE {f \in Pins : new[f] # "absent"} \subseteq mig[p].seen

PinsDone(p) ==
  /\ MigAt(p, "pins") /\ AllSeen(p)
  /\ MigGoto(p, "version")
  /\ UNCHANGED <<repository, history>>

WriteVersion(p) ==
  /\ MigAt(p, "version")
  /\ version' = mig[p].target
  /\ MigGoto(p, "done")
  /\ UNCHANGED <<old, new, history>>

MigrationStep(p) ==
  \/ ReadVersion(p) \/ Compare(p)
  \/ UpgradePin(p) \/ PutPin(p) \/ PutFails(p) \/ DeleteOld(p)
  \/ DowngradePin(p) \/ DeleteNew(p) \/ DeleteFails(p)
  \/ PinsDone(p) \/ WriteVersion(p)

(* The process dies.  The version file is truncated before it is written.  *)
MigrationCrash ==
  /\ mig' = [p \in Procs |-> NoMigration]
  /\ \/ UNCHANGED version
     \/ (\E p \in Procs : MigAt(p, "version")) /\ version' = Torn
  /\ died' = (died \/ \E p \in Procs : Migrating(p))
  /\ partial' = (partial \/ \E p \in Procs : Migrating(p) /\ mig[p].target = 0)
  /\ UNCHANGED <<old, new, overlap, swallowed, downgraded>>

-----------------------------------------------------------------------------
(* Properties                                                              *)

(* No pin is lost: it has its old file, or all of its new one, or is being *)
(* written.  That holds for one migration after the other, whatever fails  *)
(* and wherever the process dies, and for upgrades at the same time of     *)
(* which none fails (MigrateTo1: first the new file, then the old one).    *)
PinsSurvive ==
  ~overlap \/ ~(swallowed \/ died \/ downgraded) =>
    \A f \in Pins : f \in old \/ new[f] = "whole" \/ BeingPut(f)

Upgraded == old = {} /\ \A f \in Pins : new[f] = "whole"

(* A repository that says it is of version 1 has all its pins in files of  *)
(* version 1, however often an upgrade died before (the version is written *)
(* last).  Excepted: an error with a pin, which a migration swallows       *)
(* before it writes the version all the same (swallowed, MigrateTo1:81);   *)
(* two migrations at the same time (overlap); and one to version 0 that    *)
(* died on its way (partial).                                              *)
VersionIsTrue ==
  version = Latest /\ ~overlap /\ ~partial /\ ~swallowed =>
    Upgraded \/ \E p \in Procs : Migrating(p) /\ mig[p].target = 0

=============================================================================
