---------------------------- MODULE EngineProofs ----------------------------
(***************************************************************************)
(* Proofs about Engine and Migration, for every number of callers, pins    *)
(* and calls and every division of the services into stages that the       *)
(* assumptions of the two modules allow.  Three inductive invariants: one  *)
(* about the files of the pins (MigInv), one about what can still be       *)
(* stopped (StopInv) and one about the calls that the services belong to   *)
(* (OneInv).  A step of a migration is first reduced to what it does to    *)
(* its own record and to the files; a step of the engine to what it does   *)
(* to the record of its caller.                                            *)
(***************************************************************************)
EXTENDS Engine, TLAPS

MigTypes == mig \in [Procs -> MigRecord]

LEMMA MigFields ==
  ASSUME MigTypes, NEW p \in Procs
  PROVE  /\ mig[p] \in MigRecord
         /\ mig[p].pc \in MigPcs /\ mig[p].target \in {0, Latest} /\ mig[p].current \in {0, Latest}
         /\ mig[p].seen \subseteq Pins /\ mig[p].pin \in Pins \cup {NoPin}
BY DEF MigTypes, MigRecord

(* Process p goes on with its migration, and nobody else does.             *)
Keeps(p) ==
  /\ mig' \in [Procs -> MigRecord]
  /\ mig'[p].target = mig[p].target
  /\ \A q \in Procs : q # p => mig'[q] = mig[q]

LEMMA MigGotoFacts ==
  ASSUME MigTypes, NEW p \in Procs, NEW pc \in MigPcs, MigGoto(p, pc)
  PROVE  /\ Keeps(p)
         /\ mig'[p].pc = pc /\ mig'[p].current = mig[p].current
         /\ mig'[p].seen = mig[p].seen /\ mig'[p].pin = mig[p].pin
BY DEF MigTypes, MigRecord, MigGoto, Keeps

LEMMA NextPinFacts ==
  ASSUME MigTypes, NEW p \in Procs, mig[p].pin # NoPin, NextPin(p)
  PROVE  /\ Keeps(p)
         /\ mig'[p].pc = "pins"
         /\ mig'[p].seen = mig[p].seen \cup {mig[p].pin} /\ mig'[p].pin = NoPin
BY DEF MigTypes, MigRecord, NextPin, MigPcs, Keeps

LEMMA SkipPinFacts ==
  ASSUME MigTypes, NEW p \in Procs, NEW f \in Pins, SkipPin(p, f)
  PROVE  /\ Keeps(p)
         /\ mig'[p].pc = mig[p].pc
         /\ mig'[p].seen = mig[p].seen \cup {f} /\ mig'[p].pin = mig[p].pin
BY DEF MigTypes, MigRecord, SkipPin, Keeps

LEMMA TakePinFacts ==
  ASSUME MigTypes, NEW p \in Procs, NEW f \in Pins, NEW pc \in MigPcs,
         mig' = [mig EXCEPT ![p].pc = pc, ![p].pin = f]
  PROVE  /\ Keeps(p)
         /\ mig'[p].pc = pc
         /\ mig'[p].seen = mig[p].seen /\ mig'[p].pin = f
BY DEF MigTypes, MigRecord, Keeps

LEMMA MigrateToFacts ==
  ASSUME MigTypes, NEW p \in Procs, NEW target \in {0, Latest}, MigrateTo(p, target)
  PROVE  /\ mig' \in [Procs -> MigRecord]
         /\ \A q \in Procs : q # p => mig'[q] = mig[q]
         /\ mig[p].pc = "idle" /\ mig'[p].pc = "read" /\ mig'[p].target = target
         /\ mig'[p].seen = {} /\ mig'[p].pin = NoPin
<1> DEFINE r == [NoMigration EXCEPT !.pc = "read", !.target = target]
<1>1. /\ r \in MigRecord /\ r.pc = "read" /\ r.target = target
      /\ r.seen = {} /\ r.pin = NoPin
  BY DEF NoMigration, MigRecord, MigPcs, Latest
<1>2. mig' = [mig EXCEPT ![p] = r] /\ mig[p].pc = "idle"
  BY DEF MigrateTo, MigAt
<1> HIDE DEF r
<1> QED
  BY <1>1, <1>2 DEF MigTypes

LEMMA NoMigrationFacts ==
  /\ NoMigration \in MigRecord /\ NoMigration.pc = "idle" /\ NoMigration.pin = NoPin
BY DEF NoMigration, MigRecord, MigPcs, Latest

-----------------------------------------------------------------------------
(* What the steps of a migration do                                        *)

LEMMA ReadVersionFacts ==
  ASSUME MigTypes, version \in {0, Latest, Torn}, NEW p \in Procs, ReadVersion(p)
  PROVE  /\ Keeps(p) /\ mig[p].pc = "read"
         /\ \/ version = Torn /\ mig'[p].pc = "failed"
            \/ version # Torn /\ mig'[p].pc = "compare" /\ mig'[p].current = version
         /\ mig'[p].seen = mig[p].seen /\ mig'[p].pin = mig[p].pin
         /\ UNCHANGED <<repository, history>>
<1>1. CASE version = Torn
  BY <1>1 DEF ReadVersion, MigAt, MigTypes, MigRecord, MigPcs, Keeps
<1>2. CASE version # Torn
  BY <1>2 DEF ReadVersion, MigAt, MigTypes, MigRecord, MigPcs, Keeps
<1> QED
  BY <1>1, <1>2

LEMMA CompareFacts ==
  ASSUME MigTypes, version \in {0, Latest, Torn}, NEW p \in Procs, Compare(p)
  PROVE  /\ Keeps(p) /\ mig[p].pc = "compare"
         /\ \/ /\ mig'[p].pc = "pins" /\ version # Torn /\ mig[p].current # mig[p].target
               /\ mig[p].target = Latest => version # Latest
            \/ mig'[p].pc = "failed"
            \/ mig'[p].pc = "done" /\ mig[p].current = mig[p].target /\ version # Torn
         /\ mig'[p].seen = mig[p].seen /\ mig'[p].pin = mig[p].pin
         /\ UNCHANGED <<repository, history>>
<1>0. {"failed", "done", "pins"} \subseteq MigPcs
  BY DEF MigPcs
<1>1. \/ MigGoto(p, "failed")
      \/ MigGoto(p, "done") /\ mig[p].current = mig[p].target /\ version # Torn
      \/ MigGoto(p, "pins") /\ version # Torn /\ mig[p].current # mig[p].target
         /\ (mig[p].target = Latest => version # Latest)
  BY DEF Compare
<1>2. UNCHANGED <<repository, history>> /\ mig[p].pc = "compare"
  BY DEF Compare, MigAt
<1> QED
  BY <1>0, <1>1, <1>2, MigGotoFacts

(* An upgrade takes a pin in hand, or skips one that somebody else writes. *)
LEMMA UpgradePinFacts ==
  ASSUME MigTypes, old \subseteq Pins, new \in [Pins -> {"absent", "torn", "whole"}],
         NEW p \in Procs, UpgradePin(p)
  PROVE  \E f \in old \ mig[p].seen :
           /\ Keeps(p) /\ mig[p].pc = "pins" /\ mig[p].target = Latest
           /\ old' = old /\ UNCHANGED <<version, history>>
           /\ \/ /\ BeingPut(f) /\ new' = new
                 /\ mig'[p].pc = "pins" /\ mig'[p].pin = mig[p].pin
                 /\ mig'[p].seen = mig[p].seen \cup {f}
              \/ /\ ~BeingPut(f) /\ new' = [new EXCEPT ![f] = "torn"]
                 /\ mig'[p].pc = "putting" /\ mig'[p].pin = f
                 /\ mig'[p].seen = mig[p].seen
<1>1. PICK f \in old \ mig[p].seen :
        IF BeingPut(f) THEN SkipPin(p, f) /\ UNCHANGED <<old, new>>
        ELSE /\ old' = KeptForNow(f)
             /\ new' = [new EXCEPT ![f] = "torn"]
             /\ mig' = [mig EXCEPT ![p].pc = "putting", ![p].pin = f]
  BY DEF UpgradePin
<1>2. /\ mig[p].pc = "pins" /\ mig[p].target = Latest /\ UNCHANGED <<version, history>>
      /\ f \in Pins /\ "putting" \in MigPcs
  BY DEF UpgradePin, MigAt, MigPcs
<1>3. CASE BeingPut(f)
  BY <1>1, <1>2, <1>3, SkipPinFacts
<1>4. CASE ~BeingPut(f)
  BY <1>1, <1>2, <1>4, TakePinFacts DEF KeptForNow
<1> QED
  BY <1>3, <1>4

LEMMA DowngradePinFacts ==
  ASSUME MigTypes, NEW p \in Procs, DowngradePin(p)
  PROVE  \E f \in Pins :
           /\ Keeps(p) /\ mig[p].pc = "pins" /\ mig[p].target = 0
           /\ new' = new /\ UNCHANGED <<version, history>>
           /\ \/ /\ old' = old
                 /\ mig'[p].pc = "pins" /\ mig'[p].pin = mig[p].pin
              \/ /\ old' = old \cup {f}
                 /\ mig'[p].pc = "deleteNew" /\ mig'[p].pin = f
<1>1. PICK f \in {g \in Pins : new[g] # "absent"} \ mig[p].seen :
        IF new[f] = "torn" THEN SkipPin(p, f) /\ UNCHANGED old
        ELSE /\ old' = old \cup {f}
             /\ mig' = [mig EXCEPT ![p].pc = "deleteNew", ![p].pin = f]
  BY DEF DowngradePin
<1>2. /\ mig[p].pc = "pins" /\ mig[p].target = 0 /\ UNCHANGED <<new, version, history>>
      /\ f \in Pins /\ "deleteNew" \in MigPcs
  BY DEF DowngradePin, MigAt, MigPcs
<1>3. CASE new[f] = "torn"
  BY <1>1, <1>2, <1>3, SkipPinFacts
<1>4. CASE new[f] # "torn"
  BY <1>1, <1>2, <1>4, TakePinFacts
<1> QED
  BY <1>3, <1>4

(* The pin in hand is written, or its files are removed.                   *)
LEMMA PutPinFacts ==
  ASSUME MigTypes, NEW p \in Procs, PutPin(p)
  PROVE  /\ Keeps(p) /\ mig[p].pc = "putting" /\ mig'[p].pc = "deleteOld"
         /\ mig'[p].pin = mig[p].pin /\ mig'[p].seen = mig[p].seen
         /\ new' = [new EXCEPT ![mig[p].pin] = "whole"]
         /\ UNCHANGED <<old, version, history>>
<1>1. "deleteOld" \in MigPcs
  BY DEF MigPcs
<1> QED
  BY <1>1, MigGotoFacts DEF PutPin, MigAt

LEMMA PinDealtWith ==
  ASSUME MigTypes, NEW p \in Procs, mig[p].pc \in {"putting", "deleteOld", "deleteNew"} => mig[p].pin # NoPin,
         PutFails(p) \/ DeleteOld(p) \/ DeleteNew(p) \/ DeleteFails(p)
  PROVE  /\ Keeps(p) /\ mig'[p].pc = "pins" /\ mig'[p].pin = NoPin
         /\ mig'[p].seen = mig[p].seen \cup {mig[p].pin}
         /\ version' = version /\ overlap' = overlap /\ died' = died /\ downgraded' = downgraded
         /\ \/ /\ mig[p].pc = "putting" /\ old' = old /\ swallowed' = TRUE
               /\ partial' = (partial \/ mig[p].target = 0)
               /\ new' = [new EXCEPT ![mig[p].pin] = "absent"]
            \/ /\ mig[p].pc = "deleteOld" /\ old' = old \ {mig[p].pin}
               /\ UNCHANGED <<new, history>>
            \/ /\ mig[p].pc = "deleteNew" /\ new' = [new EXCEPT ![mig[p].pin] = "absent"]
               /\ UNCHANGED <<old, history>>
            \/ /\ mig[p].pc \in {"deleteOld", "deleteNew"} /\ UNCHANGED <<old, new>>
               /\ swallowed' = TRUE /\ partial' = (partial \/ mig[p].target = 0)
<1>1. NextPin(p) /\ mig[p].pin # NoPin
  BY DEF PutFails, DeleteOld, DeleteNew, DeleteFails, MigAt
<1>2. /\ Keeps(p) /\ mig'[p].pc = "pins" /\ mig'[p].pin = NoPin
      /\ mig'[p].seen = mig[p].seen \cup {mig[p].pin}
  BY <1>1, NextPinFacts
<1> HIDE DEF MigTypes
<1> QED
  BY <1>2 DEF PutFails, DeleteOld, DeleteNew, DeleteFails, MigAt, Fault, history, repository

LEMMA PinsDoneFacts ==
  ASSUME MigTypes, NEW p \in Procs, PinsDone(p)
  PROVE  /\ Keeps(p) /\ mig[p].pc = "pins" /\ mig'[p].pc = "version"
         /\ mig'[p].pin = mig[p].pin /\ mig'[p].seen = mig[p].seen
         /\ UNCHANGED <<repository, history>>
         /\ mig[p].target = Latest => old \subseteq mig[p].seen
<1>1. "version" \in MigPcs
  BY DEF MigPcs
<1> QED
  BY <1>1, MigGotoFacts DEF PinsDone, MigAt, AllSeen

LEMMA WriteVersionFacts ==
  ASSUME MigTypes, NEW p \in Procs, WriteVersion(p)
  PROVE  /\ Keeps(p) /\ mig[p].pc = "version" /\ mig'[p].pc = "done"
         /\ mig'[p].pin = mig[p].pin /\ mig'[p].seen = mig[p].seen
         /\ version' = mig[p].target
         /\ UNCHANGED <<old, new, history>>
<1>1. "done" \in MigPcs
  BY DEF MigPcs
<1> QED
  BY <1>1, MigGotoFacts DEF WriteVersion, MigAt

-----------------------------------------------------------------------------
(* The steps of the engine, as a migration sees them: one is started, goes *)
(* on, or its end is noticed.                                              *)

LEMMA TypeFacts ==
  ASSUME MigrationTypeOK
  PROVE  /\ MigTypes /\ old \subseteq Pins /\ new \in [Pins -> {"absent", "torn", "whole"}]
         /\ version \in {0, Latest, Torn} /\ 0 # Latest /\ Torn # Latest
         /\ \A p \in Procs : mig[p].pc \in {"putting", "deleteOld", "deleteNew"} <=> mig[p].pin # NoPin
BY DEF MigrationTypeOK, MigTypes, Latest, Torn

LEMMA HistoryFacts ==
  ASSUME MigrationTypeOK, UNCHANGED history
  PROVE  /\ overlap' \in BOOLEAN /\ swallowed' \in BOOLEAN /\ died' \in BOOLEAN
         /\ downgraded' \in BOOLEAN /\ partial' \in BOOLEAN
BY DEF MigrationTypeOK, history

(* The migration of p moves, and all keeps its type.                       *)
LEMMA MigrationKeepsType ==
  ASSUME MigrationTypeOK, NEW p \in Procs, mig' \in [Procs -> MigRecord],
         \A q \in Procs : q # p => mig'[q] = mig[q],
         mig'[p].pc \in {"putting", "deleteOld", "deleteNew"} <=> mig'[p].pin # NoPin,
         old' \subseteq Pins, new' \in [Pins -> {"absent", "torn", "whole"}],
         version' \in {0, Latest, Torn},
         overlap' \in BOOLEAN, swallowed' \in BOOLEAN, died' \in BOOLEAN,
         downgraded' \in BOOLEAN, partial' \in BOOLEAN
  PROVE  MigrationTypeOK'
BY DEF MigrationTypeOK

Moving(p) == /\ mig' \in [Procs -> MigRecord] /\ mig'[p].target = mig[p].target
             /\ \A q \in Procs : q # p => mig'[q] = mig[q]
             /\ mig[p].pc # "idle" /\ mig'[p].pc # "idle"
             /\ Migrating(p)

LEMMA MigrationStepType ==
  ASSUME MigrationTypeOK, NEW p \in Procs, MigrationStep(p)
  PROVE  MigrationTypeOK' /\ Moving(p)
<1> USE TypeFacts, MigFields DEF Keeps, Moving, Migrating
<1>0. overlap \in BOOLEAN /\ swallowed \in BOOLEAN /\ died \in BOOLEAN
      /\ downgraded \in BOOLEAN /\ partial \in BOOLEAN
  BY DEF MigrationTypeOK
<1>1. CASE ReadVersion(p)
  BY <1>1, HistoryFacts, ReadVersionFacts, MigrationKeepsType DEF repository
<1>2. CASE Compare(p)
  BY <1>2, HistoryFacts, CompareFacts, MigrationKeepsType DEF repository
<1>3. CASE UpgradePin(p)
  BY <1>3, HistoryFacts, UpgradePinFacts, MigrationKeepsType, MigrationAssumption
<1>4. CASE PutPin(p)
  BY <1>4, HistoryFacts, PutPinFacts, MigrationKeepsType
<1>5. CASE PutFails(p) \/ DeleteOld(p) \/ DeleteNew(p) \/ DeleteFails(p)
  <2>1. Moving(p)
    BY <1>5, PinDealtWith
  <2>2. old' \subseteq Pins /\ new' \in [Pins -> {"absent", "torn", "whole"}]
    BY <1>5, PinDealtWith
  <2>3. /\ overlap' \in BOOLEAN /\ swallowed' \in BOOLEAN /\ died' \in BOOLEAN
        /\ downgraded' \in BOOLEAN /\ partial' \in BOOLEAN
    BY <1>0, <1>5, PinDealtWith DEF history
  <2>4. MigrationTypeOK'
    BY <1>5, <2>1, <2>2, <2>3, PinDealtWith, MigrationKeepsType
  <2> QED
    BY <2>1, <2>4
<1>6. CASE DowngradePin(p)
  BY <1>6, HistoryFacts, DowngradePinFacts, MigrationKeepsType, MigrationAssumption
<1>7. CASE PinsDone(p)
  BY <1>7, HistoryFacts, PinsDoneFacts, MigrationKeepsType DEF repository
<1>8. CASE WriteVersion(p)
  BY <1>8, HistoryFacts, WriteVersionFacts, MigrationKeepsType
<1> QED
  BY <1>1, <1>2, <1>3, <1>4, <1>5, <1>6, <1>7, <1>8 DEF MigrationStep

LEMMA MigrateToType ==
  ASSUME MigrationTypeOK, NEW p \in Procs, NEW target \in {0, Latest}, MigrateTo(p, target)
  PROVE  MigrationTypeOK'
<1>1. /\ overlap' \in BOOLEAN /\ swallowed' \in BOOLEAN /\ died' \in BOOLEAN
      /\ downgraded' \in BOOLEAN /\ partial' \in BOOLEAN
  BY DEF MigrationTypeOK, MigrateTo
<1>2. UNCHANGED repository
  BY DEF MigrateTo
<1> QED
  BY <1>1, <1>2, TypeFacts, MigrateToFacts, MigrationKeepsType DEF repository

(* The engine has seen the end of the migration.                           *)
MigrationNoted(p) ==
  /\ ~Migrating(p)
  /\ mig' = [mig EXCEPT ![p] = NoMigration]
  /\ UNCHANGED <<repository, history>>

LEMMA MigrationNotedType ==
  ASSUME MigrationTypeOK, NEW p \in Procs, MigrationNoted(p)
  PROVE  MigrationTypeOK'
<1>1. /\ mig' \in [Procs -> MigRecord] /\ mig'[p] = NoMigration
      /\ \A q \in Procs : q # p => mig'[q] = mig[q]
  BY TypeFacts, NoMigrationFacts DEF MigTypes, MigrationNoted
<1> QED
  BY <1>1, TypeFacts, HistoryFacts, NoMigrationFacts, MigrationKeepsType
  DEF MigrationNoted, repository

LEMMA MigrationCrashType ==
  ASSUME MigrationTypeOK, MigrationCrash
  PROVE  MigrationTypeOK'
<1>1. mig' = [p \in Procs |-> NoMigration] /\ version' \in {version, Torn}
      /\ UNCHANGED <<old, new, overlap, swallowed, downgraded>>
      /\ died' \in BOOLEAN /\ partial' \in BOOLEAN
  BY DEF MigrationCrash, MigrationTypeOK
<1> QED
  BY <1>1, NoMigrationFacts DEF MigrationTypeOK

-----------------------------------------------------------------------------
(* The pins.  As long as migrations do not overlap there is only one, and  *)
(* what it has in hand still has its old file; when upgrades overlap and   *)
(* nothing fails, an old file goes only when the new one is there or is    *)
(* being written.                                                          *)

OnlyOne == overlap = FALSE => \A p, q \in Procs : Migrating(p) /\ Migrating(q) => p = q

Down == \A p \in Procs : mig[p].pc # "idle" /\ mig[p].target = 0 => downgraded = TRUE

Phase == \A p \in Procs :
  /\ mig[p].pc \in {"putting", "deleteOld"} => mig[p].target = Latest
  /\ mig[p].pc = "deleteNew" => mig[p].target = 0
  /\ mig[p].pc \in {"read", "compare"} => mig[p].seen = {}

Careful == overlap = FALSE \/ (swallowed = FALSE /\ died = FALSE /\ downgraded = FALSE)

Written(f) == new[f] = "whole" \/ \E q \in Procs : mig[q].pc = "putting" /\ mig[q].pin = f

(* Written(f) in the next state, for a pin f of this one.                  *)
WrittenNext(f) == new'[f] = "whole" \/ \E q \in Procs : mig'[q].pc = "putting" /\ mig'[q].pin = f

PinInv ==
  /\ Careful => \A f \in Pins : f \in old \/ Written(f)
  /\ Careful => \A p \in Procs : mig[p].pc = "deleteOld" => Written(mig[p].pin)
  /\ overlap = FALSE => \A p \in Procs : mig[p].pc \in {"putting", "deleteNew"} => mig[p].pin \in old

Shape == OnlyOne /\ Down /\ Phase

LEMMA Monotone ==
  ASSUME MigrationTypeOK, NEW p \in Procs, MigrationStep(p)
  PROVE  /\ overlap' = overlap /\ died' = died /\ downgraded' = downgraded
         /\ swallowed = TRUE => swallowed' = TRUE
         /\ partial = TRUE => partial' = TRUE
<1>1. CASE UNCHANGED history
  BY <1>1 DEF history
<1>2. CASE Fault(p)
  BY <1>2 DEF Fault, MigrationTypeOK
<1> QED
  BY <1>1, <1>2 DEF MigrationStep, ReadVersion, Compare, UpgradePin, PutPin, PutFails,
     DeleteOld, DowngradePin, DeleteNew, DeleteFails, PinsDone, WriteVersion

LEMMA StepShape ==
  ASSUME MigrationTypeOK, Shape, NEW p \in Procs, MigrationStep(p)
  PROVE  Shape'
<1> USE TypeFacts
<1>0. Moving(p) /\ MigrationTypeOK'
  BY MigrationStepType
<1>1. OnlyOne'
  BY <1>0, Monotone DEF Shape, OnlyOne, Migrating, Moving
<1>2. Down'
  BY <1>0, Monotone DEF Shape, Down, Moving
<1>3. /\ mig'[p].pc \in {"putting", "deleteOld"} => mig'[p].target = Latest
      /\ mig'[p].pc = "deleteNew" => mig'[p].target = 0
      /\ mig'[p].pc \in {"read", "compare"} => mig'[p].seen = {}
  <2> USE <1>0 DEF Moving
  <2>1. CASE ReadVersion(p)
    BY <2>1, ReadVersionFacts DEF Shape, Phase
  <2>2. CASE Compare(p)
    BY <2>2, CompareFacts
  <2>3. CASE UpgradePin(p)
    BY <2>3, UpgradePinFacts
  <2>4. CASE PutPin(p)
    BY <2>4, PutPinFacts DEF Shape, Phase
  <2>5. CASE PutFails(p) \/ DeleteOld(p) \/ DeleteNew(p) \/ DeleteFails(p)
    BY <2>5, PinDealtWith
  <2>6. CASE DowngradePin(p)
    BY <2>6, DowngradePinFacts
  <2>7. CASE PinsDone(p)
    BY <2>7, PinsDoneFacts
  <2>8. CASE WriteVersion(p)
    BY <2>8, WriteVersionFacts
  <2> QED
    BY <2>1, <2>2, <2>3, <2>4, <2>5, <2>6, <2>7, <2>8 DEF MigrationStep
<1>4. Phase'
  BY <1>0, <1>3 DEF Shape, Phase, Moving
<1> QED
  BY <1>1, <1>2, <1>4 DEF Shape

(* Nobody else migrates, or upgrades overlap and nothing has failed.       *)
LEMMA Alone ==
  ASSUME MigrationTypeOK, Shape, NEW p \in Procs, MigrationStep(p)
  PROVE  /\ overlap = FALSE => \A q \in Procs : q # p => ~Migrating(q)
         /\ Careful' => Careful
         /\ Careful' /\ overlap = TRUE => mig[p].target = Latest /\ swallowed' = FALSE
<1>1. Migrating(p) /\ mig[p].pc # "idle" /\ mig[p].target \in {0, Latest} /\ overlap \in BOOLEAN
      /\ swallowed \in BOOLEAN
  BY MigrationStepType, TypeFacts, MigFields DEF Moving, MigrationTypeOK
<1> QED
  BY <1>1, Monotone DEF Shape, OnlyOne, Down, Careful

(* What a step has to show for PinInv.                                     *)
LEMMA PinsKept ==
  ASSUME MigrationTypeOK, Shape, PinInv, NEW p \in Procs, MigrationStep(p),
         \A f \in Pins : Careful /\ (f \in old \/ Written(f)) => f \in old' \/ WrittenNext(f),
         \A f \in Pins, q \in Procs : q # p /\ mig[q].pc = "deleteOld" /\ mig[q].pin = f
                                        /\ Careful /\ Written(f) => WrittenNext(f),
         mig'[p].pc = "deleteOld" /\ Careful => WrittenNext(mig'[p].pin),
         overlap = FALSE /\ mig'[p].pc \in {"putting", "deleteNew"} => mig'[p].pin \in old'
  PROVE  PinInv'
<1>0. /\ Moving(p) /\ overlap \in BOOLEAN /\ overlap' = overlap /\ (Careful' => Careful)
      /\ overlap = FALSE => \A q \in Procs : q # p => ~Migrating(q)
  BY MigrationStepType, Alone, Monotone DEF MigrationTypeOK
<1>1. ASSUME Careful', NEW f \in Pins PROVE f \in old' \/ WrittenNext(f)
  BY <1>0, <1>1 DEF PinInv
<1>2. ASSUME Careful', NEW q \in Procs, mig'[q].pc = "deleteOld" PROVE WrittenNext(mig'[q].pin)
  <2>1. CASE q = p
    BY <1>0, <1>2, <2>1
  <2>2. CASE q # p
    <3>1. mig'[q] = mig[q] /\ mig[q].pc = "deleteOld"
      BY <1>0, <1>2, <2>2 DEF Moving
    <3>2. mig[q].pin \in Pins
      BY <3>1, TypeFacts, MigFields
    <3> QED
      BY <1>0, <1>2, <2>2, <3>1, <3>2 DEF PinInv
  <2> QED
    BY <2>1, <2>2
<1>3. ASSUME NEW q \in Procs, overlap = FALSE, mig'[q].pc \in {"putting", "deleteNew"}
      PROVE  mig'[q].pin \in old'
  BY <1>0, <1>3 DEF Moving, Migrating
<1> QED
  BY <1>0, <1>1, <1>2, <1>3 DEF PinInv, Written, WrittenNext

LEMMA StepPins ==
  ASSUME MigrationTypeOK, Shape, PinInv, NEW p \in Procs, MigrationStep(p)
  PROVE  PinInv'
<1> USE TypeFacts, PinsKept
<1>0. Moving(p) /\ mig[p] \in MigRecord
      /\ (Careful /\ overlap = TRUE => mig[p].target = Latest \/ ~Careful')
      /\ overlap \in BOOLEAN
  BY MigrationStepType, MigFields, Alone DEF MigrationTypeOK
<1>1. ASSUME UNCHANGED <<old, new>>, mig[p].pc # "putting",
             mig'[p].pc \notin {"putting", "deleteOld", "deleteNew"}
      PROVE  PinInv'
  BY <1>0, <1>1 DEF Written, WrittenNext, Moving
<1>2. CASE ReadVersion(p)
  BY <1>1, <1>2, ReadVersionFacts DEF repository
<1>3. CASE Compare(p)
  BY <1>1, <1>3, CompareFacts DEF repository
<1>4. CASE PinsDone(p)
  BY <1>1, <1>4, PinsDoneFacts DEF repository
<1>5. CASE WriteVersion(p)
  BY <1>1, <1>5, WriteVersionFacts
<1>6. CASE UpgradePin(p)
  <2>1. PICK f \in old \ mig[p].seen :
           /\ Keeps(p) /\ mig[p].pc = "pins" /\ old' = old
           /\ \/ /\ new' = new /\ mig'[p].pc = "pins"
              \/ /\ new' = [new EXCEPT ![f] = "torn"]
                 /\ mig'[p].pc = "putting" /\ mig'[p].pin = f
    BY <1>6, UpgradePinFacts
  <2>2. CASE new' = new /\ mig'[p].pc = "pins"
    BY <1>1, <2>1, <2>2
  <2>3. CASE new' = [new EXCEPT ![f] = "torn"] /\ mig'[p].pc = "putting" /\ mig'[p].pin = f
    <3>1. \A g \in Pins : new'[g] = IF g = f THEN "torn" ELSE new[g]
      BY <2>3
    <3>2. \A g \in Pins : Written(g) => WrittenNext(g)
      BY <1>0, <2>1, <2>3, <3>1 DEF Written, WrittenNext, Moving
    <3> QED
      BY <2>1, <2>3, <3>2
  <2> QED
    BY <2>1, <2>2, <2>3
<1>7. CASE PutPin(p)
  <2>1. /\ mig[p].pc = "putting" /\ mig'[p].pc = "deleteOld" /\ mig'[p].pin = mig[p].pin
        /\ new' = [new EXCEPT ![mig[p].pin] = "whole"] /\ old' = old /\ mig[p].pin \in Pins
    BY <1>7, PutPinFacts, MigFields, MigrationAssumption
  <2>2. \A g \in Pins : new'[g] = IF g = mig[p].pin THEN "whole" ELSE new[g]
    BY <2>1
  <2>3. \A g \in Pins : Written(g) => WrittenNext(g)
    BY <1>0, <2>1, <2>2 DEF Written, WrittenNext, Moving
  <2>4. WrittenNext(mig'[p].pin)
    BY <2>1, <2>2 DEF WrittenNext
  <2> QED
    BY <2>1, <2>3, <2>4
<1>8. CASE PutFails(p) \/ DeleteOld(p) \/ DeleteNew(p) \/ DeleteFails(p)
  <2> DEFINE g == mig[p].pin
  <2>1. /\ mig'[p].pc = "pins" /\ mig[p].pc \in {"putting", "deleteOld", "deleteNew"}
        /\ g \in Pins /\ g # NoPin
    BY <1>0, <1>8, PinDealtWith, MigFields
  <2>2. CASE mig[p].pc = "deleteOld" /\ old' = old \ {g} /\ UNCHANGED new
    <3>1. \A f \in Pins : Written(f) => WrittenNext(f)
      BY <1>0, <2>1, <2>2 DEF Written, WrittenNext, Moving
    <3>2. Careful => Written(g)
      BY <2>2 DEF PinInv
    <3> QED
      BY <2>1, <2>2, <3>1, <3>2
  <2>3. CASE mig[p].pc # "putting" /\ UNCHANGED <<old, new>>
    BY <1>1, <2>1, <2>3
  <2>4. CASE mig[p].pc \in {"putting", "deleteNew"} /\ old' = old /\ new' = [new EXCEPT ![g] = "absent"]
             /\ (mig[p].pc = "putting" => swallowed' = TRUE)
    <3>1. mig[p].pc = "deleteNew" => mig[p].target = 0
      BY DEF Shape, Phase
    <3>2. overlap = TRUE => ~Careful'
      BY <1>0, <2>4, <3>1, Alone, Monotone DEF Careful
    <3>3. CASE overlap = FALSE
      <4>1. g \in old /\ \A f \in Pins : f # g => new'[f] = new[f]
        BY <2>1, <2>4, <3>3 DEF PinInv
      <4>2. \A f \in Pins : f # g /\ Written(f) => WrittenNext(f)
        BY <1>0, <2>1, <4>1 DEF Written, WrittenNext, Moving
      <4>3. \A q \in Procs : q # p => mig[q].pc # "deleteOld"
        BY <3>3, Alone DEF Migrating
      <4> QED
        BY <2>1, <2>4, <4>1, <4>2, <4>3
    <3>4. CASE overlap = TRUE
      BY <3>2, <3>4, Monotone DEF PinInv
    <3> QED
      BY <1>0, <3>3, <3>4
  <2> QED
    BY <1>8, <2>2, <2>3, <2>4, PinDealtWith
<1>9. CASE DowngradePin(p)
  <2>1. PICK f \in Pins :
           /\ Keeps(p) /\ mig[p].pc = "pins" /\ new' = new
           /\ \/ old' = old /\ mig'[p].pc = "pins"
              \/ old' = old \cup {f} /\ mig'[p].pc = "deleteNew" /\ mig'[p].pin = f
    BY <1>9, DowngradePinFacts
  <2>2. \A g \in Pins : Written(g) => WrittenNext(g)
    BY <1>0, <2>1 DEF Written, WrittenNext, Moving
  <2> QED
    BY <2>1, <2>2
<1> QED
  BY <1>2, <1>3, <1>4, <1>5, <1>6, <1>7, <1>8, <1>9 DEF MigrationStep

-----------------------------------------------------------------------------
(* The version.  An upgrade of the only process that migrates runs on a    *)
(* repository of version 0 and has dealt with every pin it has seen.       *)

Clean == overlap = FALSE /\ swallowed = FALSE /\ partial = FALSE

UpgradeInv == Clean => \A p \in Procs :
  /\ mig[p].pc \in {"pins", "putting", "deleteOld", "version"} /\ mig[p].target = Latest =>
       version # Latest /\ mig[p].seen \cap old = {}
  /\ mig[p].pc = "version" /\ mig[p].target = Latest => old = {}
  /\ mig[p].pc = "compare" => mig[p].current = version

Downgrading == \E p \in Procs : mig[p].pc \in {"pins", "deleteNew", "version"} /\ mig[p].target = 0

VersionInv == Clean /\ version = Latest => Upgraded \/ Downgrading

LEMMA CleanFacts ==
  ASSUME MigrationTypeOK, Shape, NEW p \in Procs, MigrationStep(p), Clean'
  PROVE  /\ Clean /\ Careful
         /\ \A q \in Procs : q # p => ~Migrating(q) /\ mig'[q] = mig[q]
         /\ mig[p] \in MigRecord /\ Moving(p) /\ mig[p].target \in {0, Latest}
<1>1. /\ overlap \in BOOLEAN /\ swallowed \in BOOLEAN /\ partial \in BOOLEAN
      /\ overlap' = overlap /\ mig[p] \in MigRecord /\ Moving(p) /\ mig[p].target \in {0, Latest}
  BY Monotone, MigrationStepType, TypeFacts, MigFields DEF MigrationTypeOK
<1> QED
  BY <1>1, Monotone, Alone DEF Clean, Careful, Moving

LEMMA StepUpgrade ==
  ASSUME MigrationTypeOK, Shape, UpgradeInv, NEW p \in Procs, MigrationStep(p)
  PROVE  UpgradeInv'
<1> SUFFICES ASSUME Clean' PROVE \A q \in Procs :
      /\ mig'[q].pc \in {"pins", "putting", "deleteOld", "version"} /\ mig'[q].target = Latest =>
           version' # Latest /\ mig'[q].seen \cap old' = {}
      /\ mig'[q].pc = "version" /\ mig'[q].target = Latest => old' = {}
      /\ mig'[q].pc = "compare" => mig'[q].current = version'
  BY DEF UpgradeInv
<1>0. /\ Clean /\ Moving(p) /\ mig[p].target \in {0, Latest} /\ 0 # Latest
      /\ \A q \in Procs : q # p => ~Migrating(q) /\ mig'[q] = mig[q]
  BY CleanFacts, TypeFacts
<1>1. SUFFICES
      /\ mig'[p].pc \in {"pins", "putting", "deleteOld", "version"} /\ mig'[p].target = Latest =>
           version' # Latest /\ mig'[p].seen \cap old' = {}
      /\ mig'[p].pc = "version" /\ mig'[p].target = Latest => old' = {}
      /\ mig'[p].pc = "compare" => mig'[p].current = version'
  BY <1>0 DEF Migrating
<1> USE <1>0, TypeFacts DEF Moving, Clean, repository
<1>2. CASE ReadVersion(p)
  BY <1>2, ReadVersionFacts
<1>3. CASE Compare(p)
  BY <1>3, CompareFacts DEF Shape, Phase
<1>4. CASE UpgradePin(p)
  BY <1>4, UpgradePinFacts, Alone DEF UpgradeInv, BeingPut, MigAt, Migrating
<1>5. CASE PutPin(p)
  BY <1>5, PutPinFacts DEF UpgradeInv, Shape, Phase
<1>6. CASE PutFails(p) \/ DeleteOld(p) \/ DeleteNew(p) \/ DeleteFails(p)
  BY <1>6, PinDealtWith DEF UpgradeInv, Shape, Phase
<1>7. CASE DowngradePin(p)
  BY <1>7, DowngradePinFacts
<1>8. CASE PinsDone(p)
  BY <1>8, PinsDoneFacts DEF UpgradeInv
<1>9. CASE WriteVersion(p)
  BY <1>9, WriteVersionFacts
<1> QED
  BY <1>2, <1>3, <1>4, <1>5, <1>6, <1>7, <1>8, <1>9 DEF MigrationStep

LEMMA StepVersion ==
  ASSUME MigrationTypeOK, Shape, PinInv, UpgradeInv, VersionInv, NEW p \in Procs, MigrationStep(p)
  PROVE  VersionInv'
<1> SUFFICES ASSUME Clean', version' = Latest PROVE Upgraded' \/ Downgrading'
  BY DEF VersionInv
<1>0. /\ Clean /\ Careful /\ Moving(p) /\ mig[p].target \in {0, Latest} /\ 0 # Latest
      /\ \A q \in Procs : q # p => ~Migrating(q) /\ mig'[q] = mig[q]
  BY CleanFacts, TypeFacts
<1> USE <1>0, TypeFacts DEF Moving, repository
<1>1. ASSUME UNCHANGED repository, mig[p].pc \in {"read", "compare"} PROVE Upgraded' \/ Downgrading'
  <2>1. Upgraded
    BY <1>1 DEF VersionInv, Downgrading, Migrating
  <2> QED
    BY <1>1, <2>1 DEF Upgraded
<1>2. CASE ReadVersion(p)
  BY <1>1, <1>2, ReadVersionFacts
<1>3. CASE Compare(p)
  BY <1>1, <1>3, CompareFacts
<1>4. ASSUME version' = version, mig[p].target = Latest,
             mig[p].pc \in {"pins", "putting", "deleteOld"}
      PROVE  FALSE
  BY <1>4 DEF UpgradeInv
<1>5. ASSUME mig'[p].pc \in {"pins", "deleteNew", "version"}, mig[p].target = 0 PROVE Downgrading'
  BY <1>5 DEF Downgrading
<1>6. CASE UpgradePin(p)
  BY <1>4, <1>6, UpgradePinFacts
<1>7. CASE PutPin(p)
  BY <1>4, <1>7, PutPinFacts DEF Shape, Phase
<1>8. CASE PutFails(p) \/ DeleteOld(p) \/ DeleteNew(p) \/ DeleteFails(p)
  BY <1>4, <1>5, <1>8, PinDealtWith DEF Shape, Phase
<1>9. CASE DowngradePin(p)
  BY <1>5, <1>9, DowngradePinFacts
<1>10. CASE PinsDone(p)
  BY <1>4, <1>5, <1>10, PinsDoneFacts
<1>11. CASE WriteVersion(p)
  <2>1. mig[p].pc = "version" /\ mig[p].target = Latest /\ old = {} /\ UNCHANGED <<old, new>>
    BY <1>11, WriteVersionFacts DEF UpgradeInv
  <2>2. \A f \in Pins : new[f] = "whole"
    BY <2>1 DEF PinInv, Written, Migrating
  <2> QED
    BY <2>1, <2>2 DEF Upgraded
<1> QED
  BY <1>2, <1>3, <1>6, <1>7, <1>8, <1>9, <1>10, <1>11 DEF MigrationStep

-----------------------------------------------------------------------------
(* A migration is started, noted to have ended, or dies.                   *)

MigInv == Shape /\ PinInv /\ UpgradeInv /\ VersionInv

LEMMA StepInv ==
  ASSUME MigrationTypeOK, MigInv, NEW p \in Procs, MigrationStep(p)
  PROVE  MigInv'
BY StepShape, StepPins, StepUpgrade, StepVersion DEF MigInv

LEMMA MigrateToInv ==
  ASSUME MigrationTypeOK, MigInv, NEW p \in Procs, NEW target \in {0, Latest}, MigrateTo(p, target)
  PROVE  MigInv'
<1>0. /\ \A q \in Procs : q # p => mig'[q] = mig[q]
      /\ mig[p].pc = "idle" /\ mig'[p].pc = "read" /\ mig'[p].target = target /\ mig'[p].seen = {}
      /\ UNCHANGED <<repository, swallowed, died, partial>>
      /\ overlap' = (overlap \/ \E q \in Procs : Migrating(q))
      /\ downgraded' = (downgraded \/ target = 0)
      /\ overlap \in BOOLEAN /\ downgraded \in BOOLEAN
  BY MigrateToFacts, TypeFacts DEF MigrateTo, MigrationTypeOK
<1>1. /\ overlap' = FALSE => overlap = FALSE /\ \A q \in Procs : ~Migrating(q)
      /\ (downgraded = TRUE => downgraded' = TRUE) /\ (target = 0 => downgraded' = TRUE)
  BY <1>0
<1>2. Shape'
  <2>1. OnlyOne'
    BY <1>0, <1>1 DEF OnlyOne, Migrating
  <2>2. Down'
    BY <1>0, <1>1 DEF MigInv, Shape, Down
  <2>3. Phase'
    BY <1>0 DEF MigInv, Shape, Phase
  <2> QED
    BY <2>1, <2>2, <2>3 DEF Shape
<1>3. PinInv'
  <2>1. Careful' => Careful
    BY <1>0 DEF Careful
  <2>2. \A f \in Pins : Written(f) => WrittenNext(f)
    BY <1>0 DEF Written, WrittenNext, repository
  <2>3. ASSUME NEW q \in Procs, mig'[q].pc = "deleteOld", Careful'
        PROVE  WrittenNext(mig'[q].pin)
    <3>1. q # p /\ mig'[q] = mig[q]
      BY <1>0, <2>3
    <3>2. mig[q].pin \in Pins
      BY <2>3, <3>1, TypeFacts, MigFields
    <3> QED
      BY <2>1, <2>2, <2>3, <3>1, <3>2 DEF MigInv, PinInv
  <2>4. ASSUME NEW q \in Procs, mig'[q].pc \in {"putting", "deleteNew"}, overlap' = FALSE
        PROVE  mig'[q].pin \in old'
    BY <1>0, <1>1, <2>4 DEF Migrating
  <2>5. Careful' => \A f \in Pins : f \in old' \/ WrittenNext(f)
    BY <1>0, <2>1, <2>2 DEF MigInv, PinInv, repository
  <2> QED
    BY <2>3, <2>4, <2>5 DEF PinInv, Written, WrittenNext
<1>4. UpgradeInv'
  BY <1>0, <1>1 DEF UpgradeInv, Clean, Migrating
<1>5. VersionInv'
  BY <1>0, <1>1 DEF MigInv, VersionInv, Clean, Upgraded, Downgrading, Migrating, repository
<1> QED
  BY <1>2, <1>3, <1>4, <1>5 DEF MigInv

LEMMA MigrationNotedInv ==
  ASSUME MigrationTypeOK, MigInv, NEW p \in Procs, MigrationNoted(p)
  PROVE  MigInv'
<1>0. /\ mig'[p] = NoMigration /\ mig'[p].pc = "idle"
      /\ \A q \in Procs : q # p => mig'[q] = mig[q]
      /\ ~Migrating(p) /\ UNCHANGED <<repository, history>>
  BY TypeFacts, NoMigrationFacts DEF MigTypes, MigrationNoted
<1>2. Shape'
  BY <1>0 DEF MigInv, Shape, OnlyOne, Down, Phase, history, Migrating
<1>3. PinInv'
  <2>1. \A f \in Pins : Written(f) => WrittenNext(f)
    BY <1>0 DEF Written, WrittenNext, repository, Migrating
  <2>2. ASSUME NEW q \in Procs, mig'[q].pc = "deleteOld", Careful
        PROVE  WrittenNext(mig'[q].pin)
    <3>1. q # p /\ mig'[q] = mig[q]
      BY <1>0, <2>2
    <3>2. mig[q].pin \in Pins
      BY <2>2, <3>1, TypeFacts, MigFields
    <3> QED
      BY <2>1, <2>2, <3>1, <3>2 DEF MigInv, PinInv
  <2>3. ASSUME NEW q \in Procs, mig'[q].pc \in {"putting", "deleteNew"}, overlap = FALSE
        PROVE  mig'[q].pin \in old'
    BY <1>0, <2>3 DEF MigInv, PinInv, repository
  <2>4. Careful => \A f \in Pins : f \in old' \/ WrittenNext(f)
    BY <1>0, <2>1 DEF MigInv, PinInv, repository
  <2> QED
    BY <1>0, <2>2, <2>3, <2>4 DEF PinInv, Written, WrittenNext, history, Careful
<1>4. UpgradeInv'
  BY <1>0 DEF MigInv, UpgradeInv, Clean, history, repository
<1>5. VersionInv'
  BY <1>0 DEF MigInv, VersionInv, Clean, Upgraded, Downgrading, Migrating, repository, history
<1> QED
  BY <1>2, <1>3, <1>4, <1>5 DEF MigInv

LEMMA MigrationCrashInv ==
  ASSUME MigrationTypeOK, MigInv, MigrationCrash
  PROVE  MigInv'
<1>0. /\ \A q \in Procs : mig'[q] = NoMigration
      /\ version' \in {version, Torn}
      /\ UNCHANGED <<old, new, overlap, swallowed, downgraded>>
      /\ died' = (died \/ \E p \in Procs : Migrating(p))
      /\ partial' = (partial \/ \E p \in Procs : Migrating(p) /\ mig[p].target = 0)
  BY DEF MigrationCrash
<1>1. \A q \in Procs : mig'[q].pc = "idle" /\ ~(Migrating(q)')
  BY <1>0, NoMigrationFacts DEF Migrating
<1>2. Shape'
  BY <1>1 DEF Shape, OnlyOne, Down, Phase
<1>3. PinInv'
  <2>1. ASSUME Careful', NEW f \in Pins PROVE f \in old \/ new[f] = "whole"
    <3>1. overlap \in BOOLEAN /\ died \in BOOLEAN
      BY DEF MigrationTypeOK
    <3>2. CASE overlap = FALSE
      BY <3>2 DEF MigInv, PinInv, Careful, Written
    <3>3. CASE overlap = TRUE
      BY <1>0, <2>1, <3>1, <3>3 DEF MigInv, PinInv, Careful, Written, Migrating
    <3> QED
      BY <3>1, <3>2, <3>3
  <2> QED
    BY <1>0, <1>1, <2>1 DEF PinInv, Written
<1>4. UpgradeInv'
  BY <1>1 DEF UpgradeInv
<1>5. VersionInv'
  BY <1>0, TypeFacts DEF MigrationTypeOK, MigInv, VersionInv, Clean, Upgraded, Downgrading, Migrating
<1> QED
  BY <1>2, <1>3, <1>4, <1>5 DEF MigInv

LEMMA MigrationInitInv == MigrationInit => MigrationTypeOK /\ MigInv
<1> SUFFICES ASSUME MigrationInit PROVE MigrationTypeOK /\ MigInv
  OBVIOUS
<1>1. \A p \in Procs : mig[p] = NoMigration /\ mig[p].pc = "idle"
  BY NoMigrationFacts DEF MigrationInit
<1>2. MigrationTypeOK
  BY NoMigrationFacts DEF MigrationInit, MigrationTypeOK, Latest, Torn
<1>3. MigInv
  BY <1>1 DEF MigrationInit, MigInv, Shape, OnlyOne, Down, Phase, PinInv, UpgradeInv, VersionInv,
     Migrating, Latest
<1> QED
  BY <1>2, <1>3

-----------------------------------------------------------------------------
(* The calls of the engine                                                 *)

LEMMA PlanFacts ==
  ASSUME NEW i \in DOMAIN Plan
  PROVE  /\ Plan[i].services \subseteq Services
         /\ Plan[i].order \in {"addStart", "startAdd", "config", "add", "start"}
         /\ Plan[i].order = "startAdd" => Plan[i].services \subseteq AddedLate
         /\ Plan[i].order = "config" => Plan[i].services = {}
         /\ Plan[i].order = "start" <=> i = 9
         /\ Plan[i].order = "add" <=> i = 6
         /\ i \in 1..9 /\ DOMAIN Plan = 1..9 /\ Len(Plan) = 9
         /\ Plan[9].services = Multicast /\ Plan[6].services = Multicast
<1>1. DOMAIN Plan = 1..9 /\ Len(Plan) = 9
  BY DEF Plan
<1> QED
  BY <1>1 DEF Plan, Stage, Services, AddedLate

LEMMA WithPc ==
  ASSUME NEW r \in EngineRecord, NEW x \in EnginePcs
  PROVE  LET e == [r EXCEPT !.pc = x] IN
         /\ e \in EngineRecord /\ e.pc = x
         /\ e.id = r.id /\ e.stage = r.stage /\ e.add = r.add /\ e.go = r.go
         /\ e.failed = r.failed /\ e.sync = r.sync /\ e.hand = r.hand
BY DEF EngineRecord

LEMMA WithStage ==
  ASSUME NEW r \in EngineRecord, NEW x \in DOMAIN Plan
  PROVE  LET e == [r EXCEPT !.stage = x] IN
         /\ e \in EngineRecord /\ e.stage = x
         /\ e.pc = r.pc /\ e.id = r.id /\ e.add = r.add /\ e.go = r.go
         /\ e.failed = r.failed /\ e.sync = r.sync /\ e.hand = r.hand
BY DEF EngineRecord

LEMMA WithAdd ==
  ASSUME NEW r \in EngineRecord, NEW x \in SUBSET Services
  PROVE  LET e == [r EXCEPT !.add = x] IN
         /\ e \in EngineRecord /\ e.add = x
         /\ e.pc = r.pc /\ e.id = r.id /\ e.stage = r.stage /\ e.go = r.go
         /\ e.failed = r.failed /\ e.sync = r.sync /\ e.hand = r.hand
BY DEF EngineRecord

LEMMA WithGo ==
  ASSUME NEW r \in EngineRecord, NEW x \in SUBSET Services
  PROVE  LET e == [r EXCEPT !.go = x] IN
         /\ e \in EngineRecord /\ e.go = x
         /\ e.pc = r.pc /\ e.id = r.id /\ e.stage = r.stage /\ e.add = r.add
         /\ e.failed = r.failed /\ e.sync = r.sync /\ e.hand = r.hand
BY DEF EngineRecord

LEMMA WithFailed ==
  ASSUME NEW r \in EngineRecord, NEW x \in BOOLEAN
  PROVE  LET e == [r EXCEPT !.failed = x] IN
         /\ e \in EngineRecord /\ e.failed = x
         /\ e.pc = r.pc /\ e.id = r.id /\ e.stage = r.stage /\ e.add = r.add
         /\ e.go = r.go /\ e.sync = r.sync /\ e.hand = r.hand
BY DEF EngineRecord

LEMMA WithHand ==
  ASSUME NEW r \in EngineRecord, NEW x \in SUBSET Instances
  PROVE  LET e == [r EXCEPT !.hand = x] IN
         /\ e \in EngineRecord /\ e.hand = x
         /\ e.pc = r.pc /\ e.id = r.id /\ e.stage = r.stage /\ e.add = r.add
         /\ e.go = r.go /\ e.failed = r.failed /\ e.sync = r.sync
BY DEF EngineRecord

LEMMA EngSet ==
  ASSUME eng \in [Procs -> EngineRecord], NEW p \in Procs, NEW r \in EngineRecord,
         eng' = [eng EXCEPT ![p] = r]
  PROVE  /\ eng' \in [Procs -> EngineRecord] /\ eng'[p] = r
         /\ \A q \in Procs : q # p => eng'[q] = eng[q]
OBVIOUS

LEMMA StageFacts ==
  ASSUME eng \in [Procs -> EngineRecord], NEW p \in Procs, NEW i \in DOMAIN Plan, Enter(p,i)
  PROVE  /\ eng' \in [Procs -> EngineRecord]
         /\ eng'[p].pc = "stage" /\ eng'[p].stage = i /\ eng'[p].id = eng[p].id
         /\ eng'[p].failed = eng[p].failed /\ eng'[p].hand = eng[p].hand
         /\ eng'[p].add = (IF Order(i) = "start" THEN {} ELSE Plan[i].services)
         /\ eng'[p].go = (IF Order(i) = "add" THEN {} ELSE Plan[i].services)
         /\ \A q \in Procs : q # p => eng'[q] = eng[q]
<1> DEFINE A == IF Order(i) = "start" THEN {} ELSE Plan[i].services
           G == IF Order(i) = "add" THEN {} ELSE Plan[i].services
           r0 == eng[p]
           r1 == [r0 EXCEPT !.pc = "stage"]
           r2 == [r1 EXCEPT !.stage = i]
           r3 == [r2 EXCEPT !.add = A]
           r4 == [r3 EXCEPT !.go = G]
<1>1. eng' = [eng EXCEPT ![p] = r4]
  BY DEF Enter
<1>2. A \in SUBSET Services /\ G \in SUBSET Services /\ "stage" \in EnginePcs /\ r0 \in EngineRecord
  BY PlanFacts DEF EnginePcs
<1> HIDE DEF A, G, r0
<1>3. /\ r1 \in EngineRecord /\ r1.pc = "stage" /\ r1.id = r0.id
      /\ r1.failed = r0.failed /\ r1.hand = r0.hand
  BY <1>2, WithPc
<1> HIDE DEF r1
<1>4. /\ r2 \in EngineRecord /\ r2.pc = "stage" /\ r2.id = r0.id /\ r2.stage = i
      /\ r2.failed = r0.failed /\ r2.hand = r0.hand
  BY <1>3, WithStage
<1> HIDE DEF r2
<1>5. /\ r3 \in EngineRecord /\ r3.pc = "stage" /\ r3.id = r0.id /\ r3.stage = i /\ r3.add = A
      /\ r3.failed = r0.failed /\ r3.hand = r0.hand
  BY <1>2, <1>4, WithAdd
<1> HIDE DEF r3
<1>6. /\ r4 \in EngineRecord /\ r4.pc = "stage" /\ r4.id = r0.id /\ r4.stage = i /\ r4.add = A
      /\ r4.failed = r0.failed /\ r4.hand = r0.hand /\ r4.go = G
  BY <1>2, <1>5, WithGo
<1> HIDE DEF r4
<1> QED
  BY <1>1, <1>6, EngSet DEF A, G, r0

EngTypes == eng \in [Procs -> EngineRecord]

(* Process p goes on with its call, and nobody else does.                  *)
Goes(p) ==
  /\ eng' \in [Procs -> EngineRecord]
  /\ \A q \in Procs : q # p => eng'[q] = eng[q]

LEMMA EngFields ==
  ASSUME EngTypes, NEW p \in Procs
  PROVE  /\ eng[p] \in EngineRecord /\ eng[p].pc \in EnginePcs /\ eng[p].id \in 0 .. MaxCalls
         /\ eng[p].stage \in DOMAIN Plan /\ eng[p].add \subseteq Services
         /\ eng[p].go \subseteq Services /\ eng[p].failed \in BOOLEAN
         /\ eng[p].sync \in BOOLEAN /\ eng[p].hand \subseteq Instances
BY DEF EngTypes, EngineRecord

LEMMA NoCallFacts ==
  /\ NoCall \in EngineRecord /\ NoCall.pc = "idle" /\ NoCall.add = {} /\ NoCall.go = {}
  /\ NoCall.hand = {} /\ NoCall.stage = 1 /\ NoCall.failed = FALSE
BY PlanFacts, EngineAssumption DEF NoCall, EngineRecord, EnginePcs, Plan

LEMMA ReturnFacts ==
  ASSUME EngTypes, NEW p \in Procs, Return(p)
  PROVE  Goes(p) /\ eng'[p] = NoCall
BY NoCallFacts DEF Return, EngTypes, Goes

LEMMA GotoBuildFacts ==
  ASSUME EngTypes, NEW p \in Procs, eng' = [eng EXCEPT ![p].pc = "build"]
  PROVE  /\ Goes(p) /\ eng'[p].pc = "build" /\ eng'[p].add = eng[p].add /\ eng'[p].go = eng[p].go
         /\ eng'[p].hand = eng[p].hand /\ eng'[p].stage = eng[p].stage /\ eng'[p].id = eng[p].id
         /\ eng'[p].failed = eng[p].failed
<1> DEFINE r0 == eng[p]
           r == [r0 EXCEPT !.pc = "build"]
<1>1. r0 \in EngineRecord /\ "build" \in EnginePcs
  BY EngFields DEF EnginePcs
<1> HIDE DEF r0
<1>2. /\ r \in EngineRecord /\ r.pc = "build" /\ r.add = r0.add /\ r.go = r0.go
      /\ r.hand = r0.hand /\ r.stage = r0.stage /\ r.id = r0.id /\ r.failed = r0.failed
  BY <1>1, WithPc
<1>3. eng' = [eng EXCEPT ![p] = r]
  BY DEF r0
<1> HIDE DEF r
<1> QED
  BY <1>2, <1>3, EngSet DEF EngTypes, Goes, r0

LEMMA EnterFacts ==
  ASSUME EngTypes, NEW p \in Procs, NEW i \in DOMAIN Plan, Enter(p, i)
  PROVE  /\ Goes(p)
         /\ eng'[p].pc = "stage" /\ eng'[p].stage = i /\ eng'[p].id = eng[p].id
         /\ eng'[p].failed = eng[p].failed /\ eng'[p].hand = eng[p].hand
         /\ eng'[p].add = (IF Order(i) = "start" THEN {} ELSE Plan[i].services)
         /\ eng'[p].go = (IF Order(i) = "add" THEN {} ELSE Plan[i].services)
BY StageFacts DEF EngTypes, Goes

LEMMA RegisterFacts ==
  ASSUME EngTypes, NEW p \in Procs, NEW s \in Services, eng' = [eng EXCEPT ![p].add = @ \ {s}]
  PROVE  /\ Goes(p) /\ eng'[p].pc = eng[p].pc /\ eng'[p].add = eng[p].add \ {s}
         /\ eng'[p].go = eng[p].go /\ eng'[p].hand = eng[p].hand /\ eng'[p].stage = eng[p].stage
         /\ eng'[p].id = eng[p].id /\ eng'[p].failed = eng[p].failed
<1> DEFINE r0 == eng[p]
           x == r0.add \ {s}
           r == [r0 EXCEPT !.add = x]
<1>1. r0 \in EngineRecord /\ x \in SUBSET Services
  BY EngFields
<1>3. eng' = [eng EXCEPT ![p] = r]
  OBVIOUS
<1> HIDE DEF r0, x
<1>2. /\ r \in EngineRecord /\ r.pc = r0.pc /\ r.add = x /\ r.go = r0.go
      /\ r.hand = r0.hand /\ r.stage = r0.stage /\ r.id = r0.id /\ r.failed = r0.failed
  BY <1>1, WithAdd
<1> HIDE DEF r
<1> QED
  BY <1>2, <1>3, EngSet DEF EngTypes, Goes, r0, x

LEMMA LaunchFacts ==
  ASSUME EngTypes, NEW p \in Procs, NEW s \in Services, eng' = [eng EXCEPT ![p].go = @ \ {s}]
  PROVE  /\ Goes(p) /\ eng'[p].pc = eng[p].pc /\ eng'[p].go = eng[p].go \ {s}
         /\ eng'[p].add = eng[p].add /\ eng'[p].hand = eng[p].hand /\ eng'[p].stage = eng[p].stage
         /\ eng'[p].id = eng[p].id /\ eng'[p].failed = eng[p].failed
<1> DEFINE r0 == eng[p]
           x == r0.go \ {s}
           r == [r0 EXCEPT !.go = x]
<1>1. r0 \in EngineRecord /\ x \in SUBSET Services
  BY EngFields
<1>3. eng' = [eng EXCEPT ![p] = r]
  OBVIOUS
<1> HIDE DEF r0, x
<1>2. /\ r \in EngineRecord /\ r.pc = r0.pc /\ r.go = x /\ r.add = r0.add
      /\ r.hand = r0.hand /\ r.stage = r0.stage /\ r.id = r0.id /\ r.failed = r0.failed
  BY <1>1, WithGo
<1> HIDE DEF r
<1> QED
  BY <1>2, <1>3, EngSet DEF EngTypes, Goes, r0, x

LEMMA LaunchFailsFacts ==
  ASSUME EngTypes, NEW p \in Procs, NEW s \in Services,
         eng' = [eng EXCEPT ![p].add = @ \ {s}, ![p].go = @ \ {s}, ![p].failed = TRUE]
  PROVE  /\ Goes(p) /\ eng'[p].pc = eng[p].pc /\ eng'[p].go = eng[p].go \ {s}
         /\ eng'[p].add = eng[p].add \ {s} /\ eng'[p].hand = eng[p].hand
         /\ eng'[p].stage = eng[p].stage /\ eng'[p].id = eng[p].id
<1> DEFINE r0 == eng[p]
           x == r0.add \ {s}
           y == r0.go \ {s}
           r1 == [r0 EXCEPT !.add = x]
           r2 == [r1 EXCEPT !.go = y]
           r3 == [r2 EXCEPT !.failed = TRUE]
<1>1. r0 \in EngineRecord /\ x \in SUBSET Services /\ y \in SUBSET Services
  BY EngFields
<1>2. /\ r1 \in EngineRecord /\ r1.pc = r0.pc /\ r1.add = x /\ r1.go = r0.go
      /\ r1.hand = r0.hand /\ r1.stage = r0.stage /\ r1.id = r0.id
  <2> HIDE DEF r0, x
  <2> QED
    BY <1>1, WithAdd
<1>3. eng' = [eng EXCEPT ![p] = r3]
  <2>1. eng' = [eng EXCEPT ![p] = [[[eng[p] EXCEPT !.add = eng[p].add \ {s}]
                                      EXCEPT !.go = eng[p].go \ {s}] EXCEPT !.failed = TRUE]]
    BY <1>1 DEF EngineRecord, EngTypes
  <2> QED
    BY <2>1
<1> HIDE DEF r0, x, y, r1
<1>4. /\ r2 \in EngineRecord /\ r2.pc = r0.pc /\ r2.add = x /\ r2.go = y
      /\ r2.hand = r0.hand /\ r2.stage = r0.stage /\ r2.id = r0.id
  BY <1>1, <1>2, WithGo
<1> HIDE DEF r2
<1>5. /\ r3 \in EngineRecord /\ r3.pc = r0.pc /\ r3.add = x /\ r3.go = y
      /\ r3.hand = r0.hand /\ r3.stage = r0.stage /\ r3.id = r0.id
  BY <1>4, WithFailed
<1> HIDE DEF r3
<1> QED
  BY <1>3, <1>5, EngSet DEF EngTypes, Goes, r0, x, y

LEMMA SnapshotFacts ==
  ASSUME EngTypes, bag \subseteq Instances, NEW p \in Procs,
         eng' = [eng EXCEPT ![p].pc = "swap", ![p].hand = bag]
  PROVE  /\ Goes(p) /\ eng'[p].pc = "swap" /\ eng'[p].go = eng[p].go /\ eng'[p].add = eng[p].add
         /\ eng'[p].hand = bag /\ eng'[p].stage = eng[p].stage /\ eng'[p].id = eng[p].id
<1> DEFINE r0 == eng[p]
           r1 == [r0 EXCEPT !.pc = "swap"]
           r2 == [r1 EXCEPT !.hand = bag]
<1>1. r0 \in EngineRecord /\ "swap" \in EnginePcs
  BY EngFields DEF EnginePcs
<1>3. eng' = [eng EXCEPT ![p] = r2]
  OBVIOUS
<1> HIDE DEF r0
<1>2. /\ r1 \in EngineRecord /\ r1.pc = "swap" /\ r1.add = r0.add /\ r1.go = r0.go
      /\ r1.stage = r0.stage /\ r1.id = r0.id
  BY <1>1, WithPc
<1> HIDE DEF r1
<1>4. /\ r2 \in EngineRecord /\ r2.pc = "swap" /\ r2.add = r0.add /\ r2.go = r0.go
      /\ r2.stage = r0.stage /\ r2.id = r0.id /\ r2.hand = bag
  BY <1>2, WithHand
<1> HIDE DEF r2
<1> QED
  BY <1>3, <1>4, EngSet DEF EngTypes, Goes, r0

LEMMA SwapFacts ==
  ASSUME EngTypes, NEW p \in Procs, eng' = [eng EXCEPT ![p].pc = "stop"]
  PROVE  /\ Goes(p) /\ eng'[p].pc = "stop" /\ eng'[p].add = eng[p].add /\ eng'[p].go = eng[p].go
         /\ eng'[p].hand = eng[p].hand /\ eng'[p].stage = eng[p].stage /\ eng'[p].id = eng[p].id
<1> DEFINE r0 == eng[p]
           r == [r0 EXCEPT !.pc = "stop"]
<1>1. r0 \in EngineRecord /\ "stop" \in EnginePcs
  BY EngFields DEF EnginePcs
<1> HIDE DEF r0
<1>2. /\ r \in EngineRecord /\ r.pc = "stop" /\ r.add = r0.add /\ r.go = r0.go
      /\ r.hand = r0.hand /\ r.stage = r0.stage /\ r.id = r0.id
  BY <1>1, WithPc
<1>3. eng' = [eng EXCEPT ![p] = r]
  BY DEF r0
<1> HIDE DEF r
<1> QED
  BY <1>2, <1>3, EngSet DEF EngTypes, Goes, r0

LEMMA HandFacts ==
  ASSUME EngTypes, NEW p \in Procs, NEW H \in SUBSET Instances, eng' = [eng EXCEPT ![p].hand = H]
  PROVE  /\ Goes(p) /\ eng'[p].pc = eng[p].pc /\ eng'[p].add = eng[p].add /\ eng'[p].go = eng[p].go
         /\ eng'[p].hand = H /\ eng'[p].stage = eng[p].stage /\ eng'[p].id = eng[p].id
<1> DEFINE r0 == eng[p]
           r == [r0 EXCEPT !.hand = H]
<1>1. r0 \in EngineRecord
  BY EngFields
<1> HIDE DEF r0
<1>2. /\ r \in EngineRecord /\ r.pc = r0.pc /\ r.add = r0.add /\ r.go = r0.go
      /\ r.hand = H /\ r.stage = r0.stage /\ r.id = r0.id
  BY <1>1, WithHand
<1>3. eng' = [eng EXCEPT ![p] = r]
  BY DEF r0
<1> HIDE DEF r
<1> QED
  BY <1>2, <1>3, EngSet DEF EngTypes, Goes, r0

-----------------------------------------------------------------------------
(* Type correctness                                                        *)

LEMMA EngineTypes ==
  ASSUME TypeOK
  PROVE  /\ MigrationTypeOK /\ EngTypes
         /\ bag \subseteq Instances /\ running \subseteq Instances /\ lost \subseteq Instances
         /\ disposed \in BOOLEAN /\ calls \in 0 .. MaxCalls
         /\ twoStarts \in BOOLEAN /\ undermined \in BOOLEAN
         /\ \A p \in Procs : mig[p].pc # "idle" <=> eng[p].pc \in {"tool", "migrate"}
         /\ \A p \in Procs : eng[p].add \subseteq Plan[eng[p].stage].services
                               /\ eng[p].go \subseteq Plan[eng[p].stage].services
BY DEF TypeOK, EngTypes

LEMMA InstanceFacts ==
  ASSUME EngTypes, NEW p \in Procs, NEW s \in Services
  PROVE  Instance(p, s) \in Instances /\ Instance(p, s)[1] = s
BY EngFields, EngineAssumption DEF Instance, Instances

(* What the engine's own variables are after a step of p.                  *)
EngineNext(p) ==
  /\ Goes(p)
  /\ eng'[p].add \cup eng'[p].go \subseteq Plan[eng'[p].stage].services
  /\ bag' \subseteq Instances /\ running' \subseteq Instances /\ lost' \subseteq Instances
  /\ disposed' \in BOOLEAN /\ calls' \in 0 .. MaxCalls
  /\ twoStarts' \in BOOLEAN /\ undermined' \in BOOLEAN

LEMMA EngineKeepsType ==
  ASSUME TypeOK, NEW p \in Procs, EngineNext(p), MigrationTypeOK',
         \A q \in Procs : q # p => mig'[q] = mig[q],
         mig'[p].pc # "idle" <=> eng'[p].pc \in {"tool", "migrate"}
  PROVE  TypeOK'
<1>1. /\ eng' \in [Procs -> EngineRecord] /\ \A q \in Procs : q # p => eng'[q] = eng[q]
  BY DEF EngineNext, Goes
<1>2. ASSUME NEW q \in Procs
      PROVE  /\ mig'[q].pc # "idle" <=> eng'[q].pc \in {"tool", "migrate"}
             /\ eng'[q].add \cup eng'[q].go \subseteq Plan[eng'[q].stage].services
  BY <1>1, EngineTypes DEF EngineNext
<1> QED
  BY <1>1, <1>2 DEF TypeOK, EngineNext

(* A step that migrates nothing.                                           *)
LEMMA QuietType ==
  ASSUME TypeOK, NEW p \in Procs, EngineNext(p), UNCHANGED migrationVars,
         eng[p].pc \notin {"tool", "migrate"}, eng'[p].pc \notin {"tool", "migrate"}
  PROVE  TypeOK'
<1>1. MigrationTypeOK'
  BY EngineTypes DEF MigrationTypeOK, migrationVars, repository, history
<1>2. mig' = mig
  BY DEF migrationVars
<1> QED
  BY <1>1, <1>2, EngineTypes, EngineKeepsType

LEMMA EmptyPlan ==
  ASSUME NEW r \in EngineRecord, r.add = {}, r.go = {}
  PROVE  r.add \cup r.go \subseteq Plan[r.stage].services
OBVIOUS

LEMMA ReturnType ==
  ASSUME TypeOK, NEW p \in Procs, Return(p)
  PROVE  /\ Goes(p) /\ eng'[p].pc = "idle"
         /\ eng'[p].add \cup eng'[p].go \subseteq Plan[eng'[p].stage].services
BY EngineTypes, ReturnFacts, NoCallFacts, EmptyPlan

LEMMA EnterType ==
  ASSUME TypeOK, NEW p \in Procs, NEW i \in DOMAIN Plan, Enter(p, i)
  PROVE  /\ Goes(p) /\ eng'[p].pc = "stage"
         /\ eng'[p].add \cup eng'[p].go \subseteq Plan[eng'[p].stage].services
BY EngineTypes, EnterFacts

LEMMA CallType ==
  ASSUME TypeOK, NEW p \in Procs, NEW pc \in EnginePcs, NEW sync \in BOOLEAN, Call(p, pc, sync)
  PROVE  /\ Goes(p) /\ eng'[p].pc = pc /\ calls' \in 0 .. MaxCalls /\ eng[p].pc = "idle"
         /\ eng'[p].add = {} /\ eng'[p].go = {} /\ eng'[p].hand = {}
         /\ eng'[p].id = calls + 1 /\ calls' = calls + 1
         /\ eng'[p].add \cup eng'[p].go \subseteq Plan[eng'[p].stage].services
<1> DEFINE r == [NoCall EXCEPT !.pc = pc, !.id = calls + 1, !.sync = sync]
<1>1. /\ r \in EngineRecord /\ r.pc = pc /\ r.add = {} /\ r.go = {} /\ r.hand = {}
      /\ r.id = calls + 1
  <2>1. calls + 1 \in 0 .. MaxCalls /\ 1 \in DOMAIN Plan
    BY EngineTypes, EngineAssumption, PlanFacts DEF Call, Plan
  <2> QED
    BY <2>1 DEF NoCall, EngineRecord
<1>2. /\ eng' = [eng EXCEPT ![p] = r] /\ calls' = calls + 1 /\ calls < MaxCalls
      /\ eng[p].pc = "idle" /\ EngTypes /\ calls \in 0 .. MaxCalls
  BY EngineTypes DEF Call, At
<1>3. r.add \cup r.go \subseteq Plan[r.stage].services
  BY <1>1, EmptyPlan
<1> HIDE DEF r
<1> QED
  BY <1>1, <1>2, <1>3, EngSet, EngineAssumption DEF EngTypes, Goes

LEMMA StopCalledType ==
  ASSUME TypeOK, NEW p \in Procs, NEW sync \in BOOLEAN, StopCalled(p, sync), disposed' \in BOOLEAN
  PROVE  TypeOK'
<1>1. Call(p, "snapshot", sync) /\ "snapshot" \in EnginePcs
  BY DEF StopCalled, EnginePcs
<1>2. UNCHANGED <<migrationVars, bag, running, twoStarts, undermined, lost>>
  BY EngineTypes DEF StopCalled
<1>3. /\ Goes(p) /\ eng'[p].pc = "snapshot" /\ calls' \in 0 .. MaxCalls /\ eng[p].pc = "idle"
      /\ eng'[p].add \cup eng'[p].go \subseteq Plan[eng'[p].stage].services
  BY <1>1, CallType
<1>4. EngineNext(p)
  BY <1>2, <1>3, EngineTypes DEF EngineNext
<1> QED
  BY <1>2, <1>3, <1>4, QuietType

LEMMA CallsType ==
  ASSUME TypeOK, NEW p \in Procs, Calls(p)
  PROVE  TypeOK'
<1> USE EngineTypes
<1>0. {"tool", "migrate"} \subseteq EnginePcs /\ {0, Latest} = {0, Latest} /\ FALSE \in BOOLEAN
  BY DEF EnginePcs
<1>1. ASSUME NEW v \in {0, Latest}, Tool(p, v) PROVE TypeOK'
  <2>1. MigrateTo(p, v) /\ Call(p, "tool", FALSE)
        /\ UNCHANGED <<bag, running, disposed, twoStarts, lost>> /\ undermined' \in BOOLEAN
    BY <1>1 DEF Tool
  <2>2. MigrationTypeOK' /\ mig'[p].pc = "read" /\ \A q \in Procs : q # p => mig'[q] = mig[q]
    BY <2>1, MigrateToType, MigrateToFacts, TypeFacts
  <2>3. /\ Goes(p) /\ eng'[p].pc = "tool" /\ calls' \in 0 .. MaxCalls
        /\ eng'[p].add \cup eng'[p].go \subseteq Plan[eng'[p].stage].services
    BY <1>0, <2>1, CallType
  <2>4. EngineNext(p)
    BY <2>1, <2>3 DEF EngineNext
  <2> QED
    BY <2>2, <2>3, <2>4, EngineKeepsType
<1>2. CASE Start(p)
  <2>1. MigrateTo(p, Latest) /\ Call(p, "migrate", FALSE)
        /\ UNCHANGED <<bag, running, disposed, undermined, lost>>
        /\ twoStarts' \in BOOLEAN
    BY <1>2 DEF Start
  <2>2. MigrationTypeOK' /\ mig'[p].pc = "read" /\ \A q \in Procs : q # p => mig'[q] = mig[q]
    BY <2>1, MigrateToType, MigrateToFacts, TypeFacts
  <2>3. /\ Goes(p) /\ eng'[p].pc = "migrate" /\ calls' \in 0 .. MaxCalls
        /\ eng'[p].add \cup eng'[p].go \subseteq Plan[eng'[p].stage].services
    BY <1>0, <2>1, CallType
  <2>4. EngineNext(p)
    BY <2>1, <2>3 DEF EngineNext
  <2> QED
    BY <2>2, <2>3, <2>4, EngineKeepsType
<1>3. ASSUME NEW sync \in BOOLEAN, Stop(p, sync) PROVE TypeOK'
  BY <1>3, StopCalledType DEF Stop
<1>4. CASE Dispose(p)
  BY <1>4, StopCalledType DEF Dispose
<1> QED
  BY <1>1, <1>2, <1>3, <1>4 DEF Calls

LEMMA MigratesType ==
  ASSUME TypeOK, NEW p \in Procs, Migrate(p) \/ MigrationEnds(p)
  PROVE  TypeOK'
<1> USE EngineTypes
<1>1. CASE Migrate(p)
  <2>1. /\ MigrationTypeOK' /\ mig'[p].pc # "idle" /\ mig[p].pc # "idle"
        /\ \A q \in Procs : q # p => mig'[q] = mig[q]
    BY <1>1, MigrationStepType DEF Migrate, Moving
  <2>2. EngineNext(p) /\ eng' = eng
    BY <1>1 DEF Migrate, engineVars, EngineNext, Goes, EngTypes
  <2> QED
    BY <2>1, <2>2, EngineKeepsType
<1>2. CASE MigrationEnds(p)
  <2>1. MigrationNoted(p) /\ UNCHANGED <<bag, running, disposed, calls, twoStarts, undermined, lost>>
    BY <1>2 DEF MigrationEnds, MigrationNoted
  <2>2. /\ MigrationTypeOK' /\ mig'[p].pc = "idle" /\ \A q \in Procs : q # p => mig'[q] = mig[q]
    BY <2>1, MigrationNotedType, NoMigrationFacts, TypeFacts DEF MigrationNoted, MigTypes
  <2>3. /\ Goes(p) /\ eng'[p].pc \in {"idle", "build"}
        /\ eng'[p].add \cup eng'[p].go \subseteq Plan[eng'[p].stage].services
    <3>1. CASE Return(p)
      BY <3>1, ReturnType
    <3>2. CASE eng' = [eng EXCEPT ![p].pc = "build"]
      BY <3>2, GotoBuildFacts
    <3> QED
      BY <1>2, <3>1, <3>2 DEF MigrationEnds
  <2>4. EngineNext(p)
    BY <2>1, <2>3 DEF EngineNext
  <2> QED
    BY <2>2, <2>3, <2>4, EngineKeepsType
<1> QED
  BY <1>1, <1>2

LEMMA StageEndsFacts ==
  ASSUME EngTypes, NEW p \in Procs, StageEnds(p)
  PROVE  /\ At(p, "stage") /\ eng[p].add = {} /\ eng[p].go = {}
         /\ Return(p) \/ (Enter(p, eng[p].stage + 1) /\ eng[p].stage + 1 \in DOMAIN Plan)
<1>1. eng[p].stage \in 1..9 /\ DOMAIN Plan = 1..9 /\ Len(Plan) = 9
  BY EngFields, PlanFacts
<1>2. Return(p) \/ (Enter(p, eng[p].stage + 1) /\ eng[p].stage # Len(Plan))
  BY Zenon DEF StageEnds
<1>3. eng[p].stage # Len(Plan) => eng[p].stage + 1 \in DOMAIN Plan
  BY <1>1
<1> QED
  BY <1>2, <1>3 DEF StageEnds

(* The steps of a start or stop that has its repository.                   *)
Quiet(p) ==
  \/ StartThrows(p) \/ Built(p) \/ StageEnds(p)
  \/ \E s \in Services : Register(p, s) \/ Launch(p, s) \/ LaunchFails(p, s)
  \/ Snapshot(p) \/ Swap(p) \/ Stopped(p)
  \/ \E i \in eng[p].hand : StopOne(p, i) \/ StopFails(p, i)

LEMMA QuietStep ==
  ASSUME TypeOK, NEW p \in Procs, Quiet(p)
  PROVE  TypeOK' /\ UNCHANGED migrationVars
<1> USE EngineTypes
<1>0. ASSUME UNCHANGED migrationVars, UNCHANGED <<disposed, calls, twoStarts, undermined>>,
             Goes(p), eng'[p].add \cup eng'[p].go \subseteq Plan[eng'[p].stage].services,
             bag' \subseteq Instances, running' \subseteq Instances, lost' \subseteq Instances,
             eng[p].pc \notin {"tool", "migrate"}, eng'[p].pc \notin {"tool", "migrate"}
      PROVE  TypeOK' /\ UNCHANGED migrationVars
  BY <1>0, QuietType DEF EngineNext
<1>1. CASE StartThrows(p)
  BY <1>0, <1>1, ReturnType DEF StartThrows, At
<1>2. CASE Built(p)
  <2>1. 1 \in DOMAIN Plan
    BY DEF Plan
  <2> QED
    BY <1>0, <1>2, <2>1, EnterType DEF Built, At
<1>3. CASE StageEnds(p)
  <2>1. Return(p) \/ (Enter(p, eng[p].stage + 1) /\ eng[p].stage + 1 \in DOMAIN Plan)
    BY <1>3, StageEndsFacts
  <2>2. /\ Goes(p) /\ eng'[p].pc \in {"idle", "stage"}
        /\ eng'[p].add \cup eng'[p].go \subseteq Plan[eng'[p].stage].services
    BY <2>1, EnterType, ReturnType
  <2> QED
    BY <1>0, <1>3, <2>2 DEF StageEnds, At
<1>4. ASSUME NEW s \in Services, Register(p, s) PROVE TypeOK' /\ UNCHANGED migrationVars
  <2>1. /\ Goes(p) /\ eng'[p].pc = eng[p].pc /\ eng'[p].add = eng[p].add \ {s}
        /\ eng'[p].go = eng[p].go /\ eng'[p].stage = eng[p].stage /\ eng[p].pc = "stage"
    BY <1>4, RegisterFacts DEF Register, At
  <2>2. bag' \subseteq Instances /\ lost' \subseteq Instances
    BY <1>4, InstanceFacts DEF Register
  <2> QED
    BY <1>0, <1>4, <2>1, <2>2 DEF Register
<1>5. ASSUME NEW s \in Services, Launch(p, s) PROVE TypeOK' /\ UNCHANGED migrationVars
  <2>1. /\ Goes(p) /\ eng'[p].pc = eng[p].pc /\ eng'[p].add = eng[p].add
        /\ eng'[p].go = eng[p].go \ {s} /\ eng'[p].stage = eng[p].stage /\ eng[p].pc = "stage"
    BY <1>5, LaunchFacts DEF Launch, MayLaunch, At
  <2>2. running' \subseteq Instances
    BY <1>5, InstanceFacts DEF Launch
  <2> QED
    BY <1>0, <1>5, <2>1, <2>2 DEF Launch
<1>6. ASSUME NEW s \in Services, LaunchFails(p, s) PROVE TypeOK' /\ UNCHANGED migrationVars
  <2>1. /\ Goes(p) /\ eng'[p].pc = eng[p].pc /\ eng'[p].add = eng[p].add \ {s}
        /\ eng'[p].go = eng[p].go \ {s} /\ eng'[p].stage = eng[p].stage /\ eng[p].pc = "stage"
    BY <1>6, LaunchFailsFacts DEF LaunchFails, At
  <2>2. running' \subseteq Instances /\ lost' \subseteq Instances
    BY <1>6, InstanceFacts DEF LaunchFails
  <2> QED
    BY <1>0, <1>6, <2>1, <2>2 DEF LaunchFails
<1>7. CASE Snapshot(p)
  <2>1. /\ Goes(p) /\ eng'[p].pc = "swap" /\ eng'[p].go = eng[p].go /\ eng'[p].add = eng[p].add
        /\ eng'[p].stage = eng[p].stage /\ eng[p].pc = "snapshot"
    BY <1>7, SnapshotFacts DEF Snapshot, At
  <2> QED
    BY <1>0, <1>7, <2>1 DEF Snapshot
<1>8. CASE Swap(p)
  <2>1. /\ Goes(p) /\ eng'[p].pc = "stop" /\ eng'[p].go = eng[p].go /\ eng'[p].add = eng[p].add
        /\ eng'[p].stage = eng[p].stage /\ eng[p].pc = "swap"
    BY <1>8, SwapFacts DEF Swap, At
  <2>2. lost' \subseteq Instances
    BY <1>8 DEF Swap
  <2> QED
    BY <1>0, <1>8, <2>1, <2>2 DEF Swap
<1>9. CASE Stopped(p)
  BY <1>0, <1>9, ReturnType DEF Stopped, At
<1>10. ASSUME NEW i \in eng[p].hand, StopOne(p, i) PROVE TypeOK' /\ UNCHANGED migrationVars
  <2>1. eng[p].hand \ {i} \in SUBSET Instances
    BY EngFields
  <2>2. /\ Goes(p) /\ eng'[p].pc = eng[p].pc /\ eng'[p].add = eng[p].add
        /\ eng'[p].go = eng[p].go /\ eng'[p].stage = eng[p].stage /\ eng[p].pc = "stop"
    BY <1>10, <2>1, HandFacts DEF StopOne, At
  <2>3. lost' \subseteq Instances
    BY <1>10, EngFields DEF StopOne
  <2> QED
    BY <1>0, <1>10, <2>2, <2>3 DEF StopOne
<1>11. ASSUME NEW i \in eng[p].hand, StopFails(p, i) PROVE TypeOK' /\ UNCHANGED migrationVars
  <2>1. Remaining(p, i) \in SUBSET Instances /\ eng[p].hand \subseteq Instances
    BY EngFields DEF Remaining
  <2>2. /\ Goes(p) /\ eng'[p].pc = eng[p].pc /\ eng'[p].add = eng[p].add
        /\ eng'[p].go = eng[p].go /\ eng'[p].stage = eng[p].stage /\ eng[p].pc = "stop"
    BY <1>11, <2>1, HandFacts DEF StopFails, At
  <2>3. lost' \subseteq Instances
    BY <1>11, <2>1 DEF StopFails
  <2> QED
    BY <1>0, <1>11, <2>2, <2>3 DEF StopFails
<1> QED
  BY <1>1, <1>2, <1>3, <1>4, <1>5, <1>6, <1>7, <1>8, <1>9, <1>10, <1>11 DEF Quiet

MigrationMoves(p) ==
  \/ \E target \in {0, Latest} : MigrateTo(p, target)
  \/ MigrationStep(p)
  \/ MigrationNoted(p)

(* A step of the engine, seen from its migrations.                         *)
LEMMA NextType ==
  ASSUME TypeOK, [Next]_vars
  PROVE  /\ TypeOK'
         /\ UNCHANGED migrationVars \/ MigrationCrash \/ \E p \in Procs : MigrationMoves(p)
<1>1. ASSUME NEW p \in Procs, Calls(p) \/ Steps(p)
      PROVE  TypeOK' /\ (UNCHANGED migrationVars \/ MigrationMoves(p))
  <2>1. CASE Calls(p)
    <3>1. UNCHANGED migrationVars \/ MigrationMoves(p)
      BY <2>1 DEF Calls, Tool, Start, Stop, Dispose, StopCalled, MigrationMoves
    <3> QED
      BY <2>1, <3>1, CallsType
  <2>2. CASE Migrate(p) \/ MigrationEnds(p)
    <3>1. MigrationMoves(p)
      BY <2>2 DEF Migrate, MigrationEnds, MigrationNoted, MigrationMoves
    <3> QED
      BY <2>2, <3>1, MigratesType
  <2>3. CASE Quiet(p)
    BY <2>3, QuietStep
  <2> QED
    BY <1>1, <2>1, <2>2, <2>3 DEF Steps, Quiet
<1>2. CASE Crash
  <2>1. MigrationTypeOK' /\ mig' = [p \in Procs |-> NoMigration]
    BY <1>2, MigrationCrashType, EngineTypes DEF Crash, MigrationCrash
  <2>2. \A p \in Procs : mig'[p].pc = "idle" /\ eng'[p] = NoCall
    BY <1>2, <2>1, NoMigrationFacts DEF Crash
  <2>3. eng' \in [Procs -> EngineRecord]
    BY <1>2, NoCallFacts DEF Crash
  <2>4. \A p \in Procs : eng'[p].add \cup eng'[p].go \subseteq Plan[eng'[p].stage].services
    BY <2>2, NoCallFacts
  <2>5. calls' \in 0 .. MaxCalls
    BY <1>2, EngineTypes DEF Crash
  <2> QED
    BY <1>2, <2>1, <2>2, <2>3, <2>4, <2>5, NoCallFacts DEF Crash, TypeOK
<1>3. CASE UNCHANGED vars
  BY <1>3, EngineTypes DEF vars, migrationVars, engineVars, repository, history, TypeOK, MigrationTypeOK
<1> QED
  BY <1>1, <1>2, <1>3 DEF Next

LEMMA InitType == Init => TypeOK /\ MigInv
<1> SUFFICES ASSUME Init PROVE TypeOK /\ MigInv
  OBVIOUS
<1>1. MigrationTypeOK /\ MigInv /\ mig = [p \in Procs |-> NoMigration]
  BY MigrationInitInv DEF Init, MigrationInit
<1>2. \A p \in Procs : eng[p] = NoCall /\ mig[p].pc = "idle"
  BY <1>1, NoMigrationFacts DEF Init
<1>3. eng \in [Procs -> EngineRecord]
  BY NoCallFacts DEF Init
<1>4. \A p \in Procs : eng[p].add \cup eng[p].go \subseteq Plan[eng[p].stage].services
  BY <1>2, NoCallFacts
<1> QED
  <2>1. \A p \in Procs : eng[p].pc = "idle"
    BY <1>2, NoCallFacts
  <2>2. /\ bag \subseteq Instances /\ running \subseteq Instances /\ lost \subseteq Instances
        /\ disposed \in BOOLEAN
        /\ twoStarts \in BOOLEAN /\ undermined \in BOOLEAN
    BY DEF Init
  <2>4. calls \in 0 .. MaxCalls
    BY EngineAssumption DEF Init
  <2>3. TypeOK
    BY <1>1, <1>2, <1>3, <1>4, <2>1, <2>2, <2>4 DEF TypeOK
  <2> QED
    BY <1>1, <2>3

LEMMA NextInv ==
  ASSUME TypeOK, MigInv, [Next]_vars
  PROVE  MigInv'
<1>1. MigrationTypeOK
  BY EngineTypes
<1>2. CASE UNCHANGED migrationVars
  BY <1>2 DEF migrationVars, repository, history, MigInv, Shape, OnlyOne, Down, Phase, PinInv,
     Careful, Written, UpgradeInv, VersionInv, Clean, Upgraded, Downgrading, Migrating
<1>3. ASSUME NEW p \in Procs, MigrationMoves(p) PROVE MigInv'
  BY <1>1, <1>3, StepInv, MigrateToInv, MigrationNotedInv DEF MigrationMoves
<1> QED
  BY <1>1, <1>2, <1>3, NextType, MigrationCrashInv

(* Every state the engine and its migrations reach has its type: that the  *)
(* migration of a process is idle exactly when its call is not migrating,  *)
(* and that a stage holds only services that the plan gives it.            *)
THEOREM EngineType == Spec => []TypeOK
<1>1. Init => TypeOK
  BY InitType
<1>2. TypeOK /\ [Next]_vars => TypeOK'
  BY NextType
<1> QED
  BY <1>1, <1>2, PTL DEF Spec

LEMMA EngineMigInv == Spec => [](TypeOK /\ MigInv)
<1>1. Init => TypeOK /\ MigInv
  BY InitType
<1>2. TypeOK /\ MigInv /\ [Next]_vars => TypeOK' /\ MigInv'
  BY NextType, NextInv
<1> QED
  BY <1>1, <1>2, PTL DEF Spec

(* No pin is lost by one migration after the other, whatever fails and     *)
(* wherever the process dies, nor by upgrades at the same time of which    *)
(* none fails: for every number of pins and of callers (MigrateTo1.cs:     *)
(* first the new file, then the old one).                                  *)
THEOREM EnginePins == Spec => []PinsSurvive
<1>1. ASSUME TypeOK, MigInv PROVE PinsSurvive
  <2>1. PinsSurvive <=> (Careful => \A f \in Pins : f \in old \/ Written(f))
    <3>1. /\ overlap \in BOOLEAN /\ swallowed \in BOOLEAN /\ died \in BOOLEAN
          /\ downgraded \in BOOLEAN
      BY <1>1, EngineTypes DEF MigrationTypeOK
    <3> QED
      BY <3>1 DEF PinsSurvive, Careful, Written, BeingPut, MigAt
  <2> QED
    BY <1>1, <2>1 DEF MigInv, PinInv
<1>2. TypeOK /\ MigInv => PinsSurvive
  BY <1>1
<1> QED
  BY <1>2, EngineMigInv, PTL

(* A repository that says it is of version 1 has all its pins in files of  *)
(* version 1, however often an upgrade died before: the version is written *)
(* last (MigrationManager.cs:104, 111).  Excepted, since the code does     *)
(* write the version all the same: two migrations at the same time         *)
(* (overlap), an error with a pin that a migration swallowed (swallowed,   *)
(* MigrateTo1.cs:81), and a migration to version 0 that died on its way    *)
(* (partial).                                                              *)
THEOREM EngineVersion == Spec => []VersionIsTrue
<1>1. ASSUME TypeOK, MigInv PROVE VersionIsTrue
  <2>1. /\ overlap \in BOOLEAN /\ swallowed \in BOOLEAN /\ partial \in BOOLEAN
    BY <1>1, EngineTypes DEF MigrationTypeOK
  <2> QED
    BY <1>1, <2>1 DEF VersionIsTrue, MigInv, VersionInv, Clean, Downgrading, Migrating
<1>2. TypeOK /\ MigInv => VersionIsTrue
  BY <1>1
<1> QED
  BY <1>2, EngineMigInv, PTL

-----------------------------------------------------------------------------
(* The services and the pins.  As long as there is a service or a start,   *)
(* no migration is on its way to version 0; a start that has migrated, and *)
(* every service, finds the latest version.                                *)

Undisturbed == Clean /\ undermined = FALSE

NoDowngrade ==
  Undisturbed /\ (running # {} \/ \E p \in Procs : Starting(p)) =>
    \A p \in Procs : Migrating(p) => mig[p].target = Latest

StartsUp == \A p \in Procs : eng[p].pc = "migrate" => mig[p].target = Latest

Ready(p) == eng[p].pc \in {"build", "stage"} \/ (eng[p].pc = "migrate" /\ mig[p].pc = "done")

AtLatest == Undisturbed /\ (running # {} \/ \E p \in Procs : Ready(p)) => version = Latest

ServedInv == NoDowngrade /\ StartsUp /\ AtLatest

(* A step of p that starts no migration and no start.                      *)
Calm(p) ==
  /\ Goes(p) /\ UNCHANGED migrationVars /\ undermined' = undermined
  /\ eng'[p].pc # "migrate"
  /\ eng'[p].pc \in {"build", "stage"} => eng[p].pc \in {"build", "stage"}
  /\ running' # {} => running # {} \/ eng[p].pc = "stage"

LEMMA QuietIsCalm ==
  ASSUME TypeOK, NEW p \in Procs, Quiet(p)
  PROVE  Calm(p)
<1> USE EngineTypes DEF Calm
<1>1. CASE StartThrows(p)
  BY <1>1, ReturnType DEF StartThrows
<1>2. CASE Built(p)
  <2>1. 1 \in DOMAIN Plan
    BY DEF Plan
  <2> QED
    BY <1>2, <2>1, EnterType DEF Built, At
<1>3. CASE StageEnds(p)
  <2>1. Return(p) \/ (Enter(p, eng[p].stage + 1) /\ eng[p].stage + 1 \in DOMAIN Plan)
    BY <1>3, StageEndsFacts
  <2>2. Goes(p) /\ eng'[p].pc \in {"idle", "stage"}
    BY <2>1, EnterType, ReturnType
  <2> QED
    BY <1>3, <2>2 DEF StageEnds, At
<1>4. ASSUME NEW s \in Services, Register(p, s) PROVE Calm(p)
  BY <1>4, RegisterFacts DEF Register, At
<1>5. ASSUME NEW s \in Services, Launch(p, s) PROVE Calm(p)
  BY <1>5, LaunchFacts DEF Launch, MayLaunch, At
<1>6. ASSUME NEW s \in Services, LaunchFails(p, s) PROVE Calm(p)
  BY <1>6, LaunchFailsFacts DEF LaunchFails, At
<1>7. CASE Snapshot(p)
  BY <1>7, SnapshotFacts DEF Snapshot
<1>8. CASE Swap(p)
  BY <1>8, SwapFacts DEF Swap
<1>9. CASE Stopped(p)
  BY <1>9, ReturnType DEF Stopped
<1>10. ASSUME NEW i \in eng[p].hand, StopOne(p, i) PROVE Calm(p)
  <2>1. eng[p].hand \ {i} \in SUBSET Instances
    BY EngFields
  <2> QED
    BY <1>10, <2>1, HandFacts DEF StopOne, At
<1>11. ASSUME NEW i \in eng[p].hand, StopFails(p, i) PROVE Calm(p)
  <2>1. Remaining(p, i) \in SUBSET Instances
    BY EngFields DEF Remaining
  <2> QED
    BY <1>11, <2>1, HandFacts DEF StopFails, At
<1> QED
  BY <1>1, <1>2, <1>3, <1>4, <1>5, <1>6, <1>7, <1>8, <1>9, <1>10, <1>11 DEF Quiet

LEMMA StopIsCalm ==
  ASSUME TypeOK, NEW p \in Procs, NEW sync \in BOOLEAN, StopCalled(p, sync)
  PROVE  Calm(p)
<1>1. Call(p, "snapshot", sync) /\ "snapshot" \in EnginePcs
  BY DEF StopCalled, EnginePcs
<1>2. Goes(p) /\ eng'[p].pc = "snapshot"
  BY <1>1, CallType
<1> QED
  BY <1>2 DEF StopCalled, Calm

LEMMA CalmServed ==
  ASSUME TypeOK, ServedInv, NEW p \in Procs, Calm(p)
  PROVE  ServedInv'
<1>1. /\ UNCHANGED migrationVars /\ (Undisturbed' => Undisturbed)
      /\ \A q \in Procs : q # p => eng'[q] = eng[q]
  BY DEF Calm, Goes, Undisturbed, Clean, migrationVars, history
<1>2. /\ (running' # {} \/ \E q \in Procs : Starting(q)') => (running # {} \/ \E q \in Procs : Starting(q))
      /\ (running' # {} \/ \E q \in Procs : Ready(q)') => (running # {} \/ \E q \in Procs : Ready(q))
  BY <1>1 DEF Calm, Starting, Ready, migrationVars
<1>3. NoDowngrade'
  BY <1>1, <1>2 DEF ServedInv, NoDowngrade, migrationVars, Migrating
<1>4. StartsUp'
  BY <1>1 DEF ServedInv, StartsUp, migrationVars, Calm
<1>5. AtLatest'
  BY <1>1, <1>2 DEF ServedInv, AtLatest, migrationVars, repository
<1> QED
  BY <1>3, <1>4, <1>5 DEF ServedInv

LEMMA StepWrites ==
  ASSUME TypeOK, NEW p \in Procs, MigrationStep(p)
  PROVE  /\ version' \in {version, mig[p].target}
         /\ mig'[p].pc = "done" =>
              \/ version' = mig[p].target
              \/ mig[p].pc = "compare" /\ mig[p].current = mig[p].target /\ version' = version
<1> USE EngineTypes, TypeFacts
<1>1. CASE ReadVersion(p)
  BY <1>1, ReadVersionFacts DEF repository
<1>2. CASE Compare(p)
  BY <1>2, CompareFacts DEF repository
<1>3. CASE UpgradePin(p)
  BY <1>3, UpgradePinFacts
<1>4. CASE PutPin(p)
  BY <1>4, PutPinFacts
<1>5. CASE PutFails(p) \/ DeleteOld(p) \/ DeleteNew(p) \/ DeleteFails(p)
  BY <1>5, PinDealtWith
<1>6. CASE DowngradePin(p)
  BY <1>6, DowngradePinFacts
<1>7. CASE PinsDone(p)
  BY <1>7, PinsDoneFacts DEF repository
<1>8. CASE WriteVersion(p)
  BY <1>8, WriteVersionFacts
<1> QED
  BY <1>1, <1>2, <1>3, <1>4, <1>5, <1>6, <1>7, <1>8 DEF MigrationStep

LEMMA CallServed ==
  ASSUME TypeOK, ServedInv, NEW p \in Procs, NEW target \in {0, Latest}, MigrateTo(p, target),
         Goes(p), eng'[p].pc \in {"tool", "migrate"}, eng'[p].pc = "migrate" => target = Latest,
         UNCHANGED running,
         undermined' = FALSE => undermined = FALSE,
         eng'[p].pc = "tool" /\ target = 0 /\ (running # {} \/ \E q \in Procs : Starting(q)) => undermined' # FALSE
  PROVE  ServedInv'
<1>1. /\ \A q \in Procs : q # p => mig'[q] = mig[q] /\ eng'[q] = eng[q]
      /\ mig'[p].pc = "read" /\ mig'[p].target = target
      /\ version' = version /\ 0 # Latest
      /\ (overlap' = FALSE => overlap = FALSE /\ \A q \in Procs : ~Migrating(q))
      /\ UNCHANGED <<swallowed, partial>>
  <2>1. MigrationTypeOK /\ overlap \in BOOLEAN /\ MigTypes /\ 0 # Latest
    BY EngineTypes, TypeFacts DEF MigrationTypeOK
  <2>2. /\ overlap' = (overlap \/ \E q \in Procs : Migrating(q))
        /\ version' = version /\ UNCHANGED <<swallowed, partial>>
    BY DEF MigrateTo, repository
  <2>3. /\ \A q \in Procs : q # p => mig'[q] = mig[q]
        /\ mig'[p].pc = "read" /\ mig'[p].target = target
    BY <2>1, MigrateToFacts
  <2> QED
    BY <2>1, <2>2, <2>3 DEF Goes
<1>2. Undisturbed' => Undisturbed /\ \A q \in Procs : ~Migrating(q)
  BY <1>1 DEF Undisturbed, Clean
<1>3. NoDowngrade'
  <2>1. ASSUME NEW q \in Procs, Undisturbed', Migrating(q)' PROVE q = p
    BY <1>1, <1>2, <2>1 DEF Migrating
  <2>2. CASE eng'[p].pc = "tool"
    <3>1. (\E q \in Procs : Starting(q)') => \E q \in Procs : Starting(q)
      BY <1>1, <2>2 DEF Starting
    <3> QED
      BY <1>1, <2>1, <2>2, <3>1 DEF NoDowngrade, Undisturbed
  <2>3. CASE eng'[p].pc = "migrate"
    BY <1>1, <2>1, <2>3 DEF NoDowngrade
  <2> QED
    BY <2>2, <2>3
<1>4. StartsUp'
  BY <1>1 DEF ServedInv, StartsUp
<1>5. AtLatest'
  BY <1>1, <1>2 DEF ServedInv, AtLatest, Ready
<1> QED
  BY <1>3, <1>4, <1>5 DEF ServedInv

LEMMA MigrateServed ==
  ASSUME TypeOK, MigInv, ServedInv, NEW p \in Procs, Migrate(p)
  PROVE  ServedInv'
<1>1. /\ Moving(p) /\ (Undisturbed' => Undisturbed) /\ UNCHANGED <<running, eng>>
  <2>1. MigrationStep(p) /\ UNCHANGED <<running, eng, undermined>> /\ MigrationTypeOK
    BY EngineTypes DEF Migrate, engineVars
  <2>2. swallowed \in BOOLEAN /\ partial \in BOOLEAN
    BY <2>1 DEF MigrationTypeOK
  <2> QED
    BY <2>1, <2>2, MigrationStepType, Monotone DEF Undisturbed, Clean
<1>2. NoDowngrade'
  BY <1>1 DEF ServedInv, NoDowngrade, Moving, Migrating, Starting
<1>3. StartsUp'
  BY <1>1 DEF ServedInv, StartsUp, Moving
<1>4. AtLatest'
  <2> SUFFICES ASSUME Undisturbed', running # {} \/ \E q \in Procs : Ready(q)'
               PROVE  version' = Latest
    BY <1>1 DEF AtLatest
  <2>1. /\ version' \in {version, mig[p].target}
        /\ mig'[p].pc = "done" =>
             \/ version' = mig[p].target
             \/ mig[p].pc = "compare" /\ mig[p].current = mig[p].target /\ version' = version
    BY StepWrites DEF Migrate
  <2>2. CASE running # {} \/ \E q \in Procs : Ready(q)
    <3>1. running # {} \/ \E q \in Procs : Starting(q)
      BY <2>2 DEF Ready, Starting
    <3>2. version = Latest /\ mig[p].target = Latest
      BY <1>1, <2>2, <3>1 DEF ServedInv, NoDowngrade, AtLatest, Moving
    <3> QED
      BY <2>1, <3>2
  <2>3. CASE ~(running # {} \/ \E q \in Procs : Ready(q))
    <3>1. eng[p].pc = "migrate" /\ mig'[p].pc = "done"
      BY <1>1, <2>3 DEF Ready, Moving
    <3>2. mig[p].target = Latest
      BY <3>1 DEF ServedInv, StartsUp
    <3>3. mig[p].pc = "compare" => mig[p].current = version
      BY <1>1 DEF MigInv, UpgradeInv, Undisturbed
    <3> QED
      BY <2>1, <3>1, <3>2, <3>3
  <2> QED
    BY <2>2, <2>3
<1> QED
  BY <1>2, <1>3, <1>4 DEF ServedInv

LEMMA EndServed ==
  ASSUME TypeOK, ServedInv, NEW p \in Procs, MigrationEnds(p)
  PROVE  ServedInv'
<1>1. /\ MigrationNoted(p) /\ UNCHANGED <<running, undermined>>
      /\ eng[p].pc \in {"tool", "migrate"} /\ ~Migrating(p)
  BY DEF MigrationEnds, MigrationNoted
<1>2. /\ mig'[p].pc = "idle" /\ \A q \in Procs : q # p => mig'[q] = mig[q]
      /\ UNCHANGED <<repository, history>>
  BY <1>1, NoMigrationFacts, TypeFacts, EngineTypes DEF MigrationNoted, MigTypes
<1>3. /\ Goes(p) /\ eng'[p].pc \in {"idle", "build"}
      /\ eng'[p].pc = "build" => eng[p].pc = "migrate" /\ mig[p].pc = "done"
  <2>1. CASE Return(p)
    BY <2>1, EngineTypes, ReturnType
  <2>2. CASE eng' = [eng EXCEPT ![p].pc = "build"] /\ ~At(p, "tool") /\ ~MigrationThrew(p)
    <3>1. Goes(p) /\ eng'[p].pc = "build"
      BY <2>2, EngineTypes, GotoBuildFacts
    <3>2. mig[p].pc \in {"idle", "done", "failed"} /\ mig[p].pc # "idle" /\ mig[p].pc # "failed"
      BY <1>1, <2>2, EngineTypes DEF Migrating, MigrationThrew, MigAt
    <3> QED
      BY <1>1, <2>2, <3>1, <3>2 DEF At
  <2> QED
    BY <2>1, <2>2 DEF MigrationEnds
<1>4. Undisturbed' => Undisturbed
  BY <1>1, <1>2 DEF Undisturbed, Clean, history
<1>5. /\ (\E q \in Procs : Starting(q)') => \E q \in Procs : Starting(q)
      /\ (\E q \in Procs : Ready(q)') => \E q \in Procs : Ready(q)
  BY <1>2, <1>3 DEF Goes, Starting, Ready
<1>6. NoDowngrade'
  BY <1>1, <1>2, <1>4, <1>5 DEF ServedInv, NoDowngrade, Migrating
<1>7. StartsUp'
  BY <1>2, <1>3 DEF ServedInv, StartsUp, Goes
<1>8. AtLatest'
  BY <1>1, <1>2, <1>4, <1>5 DEF ServedInv, AtLatest, repository
<1> QED
  BY <1>6, <1>7, <1>8 DEF ServedInv

LEMMA NextServed ==
  ASSUME TypeOK, MigInv, ServedInv, [Next]_vars
  PROVE  ServedInv'
<1>0. {"tool", "migrate"} \subseteq EnginePcs /\ Latest \in {0, Latest}
  BY DEF EnginePcs
<1>1. ASSUME NEW p \in Procs, NEW v \in {0, Latest}, Tool(p, v) PROVE ServedInv'
  <2>1. /\ Call(p, "tool", FALSE) /\ MigrateTo(p, v) /\ UNCHANGED running
        /\ undermined' = (undermined \/ (v = 0 /\ (running # {} \/ \E q \in Procs : Starting(q))))
        /\ undermined \in BOOLEAN
    BY <1>1, EngineTypes DEF Tool
  <2>2. Goes(p) /\ eng'[p].pc = "tool"
    BY <1>0, <2>1, CallType
  <2>3. /\ undermined' = FALSE => undermined = FALSE
        /\ v = 0 /\ (running # {} \/ \E q \in Procs : Starting(q)) => undermined' # FALSE
    BY <2>1
  <2> QED
    BY <2>1, <2>2, <2>3, CallServed
<1>2. ASSUME NEW p \in Procs, Start(p) PROVE ServedInv'
  <2>1. /\ Call(p, "migrate", FALSE) /\ MigrateTo(p, Latest) /\ UNCHANGED <<running, undermined>>
    BY <1>2 DEF Start
  <2>2. Goes(p) /\ eng'[p].pc = "migrate"
    BY <1>0, <2>1, CallType
  <2> QED
    BY <1>0, <2>1, <2>2, CallServed
<1>3. ASSUME NEW p \in Procs, NEW sync \in BOOLEAN, Stop(p, sync) PROVE ServedInv'
  BY <1>3, StopIsCalm, CalmServed DEF Stop
<1>4. ASSUME NEW p \in Procs, Dispose(p) PROVE ServedInv'
  BY <1>4, StopIsCalm, CalmServed DEF Dispose
<1>5. ASSUME NEW p \in Procs, Quiet(p) PROVE ServedInv'
  BY <1>5, QuietIsCalm, CalmServed
<1>6. CASE Crash
  <2>1. \A p \in Procs : mig'[p] = NoMigration /\ eng'[p] = NoCall /\ eng'[p].pc = "idle" /\ mig'[p].pc = "idle"
    BY <1>6, NoMigrationFacts, NoCallFacts DEF Crash, MigrationCrash
  <2> QED
    BY <1>6, <2>1 DEF Crash, ServedInv, NoDowngrade, StartsUp, AtLatest, Ready, Migrating
<1>7. CASE UNCHANGED vars
  BY <1>7 DEF vars, migrationVars, engineVars, repository, history, ServedInv, NoDowngrade, StartsUp,
     AtLatest, Ready, Migrating, Starting, Undisturbed, Clean
<1> QED
  BY <1>1, <1>2, <1>3, <1>4, <1>5, <1>6, <1>7, MigrateServed, EndServed DEF Next, Calls, Steps, Quiet

(* The services run on a repository of the latest version that has all its *)
(* pins there: StartAsync migrates before it builds any of them            *)
(* (IpfsEngine.cs:390), for every number of callers, pins and services.    *)
(* Excepted are the migrations of EngineVersion's exceptions (overlap,     *)
(* swallowed, partial), and a tool that takes the repository back under    *)
(* the started engine (undermined).                                        *)
THEOREM EngineServed == Spec => []ServicesSeeAllPins
<1>1. Init => TypeOK /\ MigInv /\ ServedInv
  <2> SUFFICES ASSUME Init PROVE TypeOK /\ MigInv /\ ServedInv
    OBVIOUS
  <2>1. \A p \in Procs : eng[p].pc = "idle" /\ mig[p].pc = "idle"
    BY NoMigrationFacts, NoCallFacts DEF Init, MigrationInit
  <2>2. ServedInv
    BY <2>1 DEF Init, ServedInv, NoDowngrade, StartsUp, AtLatest, Ready, Starting
  <2> QED
    BY <2>2, InitType
<1>2. TypeOK /\ MigInv /\ ServedInv /\ [Next]_vars => TypeOK' /\ MigInv' /\ ServedInv'
  BY NextType, NextInv, NextServed
<1>3. ASSUME TypeOK, MigInv, ServedInv PROVE ServicesSeeAllPins
  <2> SUFFICES ASSUME running # {}, Undisturbed PROVE version = Latest /\ Upgraded
    <3>1. /\ overlap \in BOOLEAN /\ swallowed \in BOOLEAN /\ partial \in BOOLEAN
          /\ undermined \in BOOLEAN
      BY <1>3, EngineTypes DEF MigrationTypeOK
    <3> QED
      BY <3>1 DEF ServicesSeeAllPins, Undisturbed, Clean
  <2>1. version = Latest
    BY <1>3 DEF ServedInv, AtLatest
  <2>2. ~Downgrading
    BY <1>3, TypeFacts, EngineTypes DEF ServedInv, NoDowngrade, Downgrading, Migrating
  <2> QED
    BY <1>3, <2>1, <2>2 DEF MigInv, VersionInv, Undisturbed
<1>4. TypeOK /\ MigInv /\ ServedInv => ServicesSeeAllPins
  BY <1>3
<1> QED
  BY <1>1, <1>2, <1>4, PTL DEF Spec

-----------------------------------------------------------------------------
(* What runs can be stopped.  A service of a start is covered when its     *)
(* stop function is in the bag or in the hands of a stop, or nobody is     *)
(* left to call it (lost): what a start is about to launch is covered, or  *)
(* it is about to be put in the bag.                                       *)

Inst(r, s) == <<s, IF s \in Singles THEN 0 ELSE r.id>>

Covered == bag \cup lost \cup InHands

(* What call r puts in the bag, of what it has launched.                   *)
Due(r) == {Inst(r, s) : s \in r.add \ r.go}

Empty(r) ==
  /\ r.pc # "stage" => r.add = {} /\ r.go = {}
  /\ r.pc \notin {"swap", "stop"} => r.hand = {}

Listed(r, b) == r.pc = "stage" =>
  /\ Order(r.stage) = "addStart" => \A s \in r.go : s \in r.add \/ Inst(r, s) \in b
  /\ Order(r.stage) = "startAdd" => r.go \subseteq r.add
  /\ Order(r.stage) = "add" => r.go = {}
  /\ r.stage = 6 => \A s \in Multicast : s \in r.add \/ Inst(r, s) \in b
  /\ r.stage > 6 => \A s \in Multicast : Inst(r, s) \in b

Known == \A i \in running : i \in Covered \/ \E p \in Procs : i \in Due(eng[p])

StopInv ==
  /\ \A p \in Procs : Empty(eng[p])
  /\ \A p \in Procs : Listed(eng[p], Covered)
  /\ Known

LEMMA InHandsFacts ==
  /\ \A i : i \in InHands <=> \E p \in Procs : i \in eng[p].hand
  /\ \A i : i \in InHands' <=> \E p \in Procs : i \in eng'[p].hand
BY DEF InHands

LEMMA InstFacts ==
  ASSUME NEW p \in Procs, NEW s
  PROVE  Instance(p, s) = Inst(eng[p], s)
BY DEF Instance, Inst

LEMMA NothingDue ==
  ASSUME NEW r, r.add = {}
  PROVE  Due(r) = {}
BY DEF Due

LEMMA DueFacts ==
  ASSUME NEW r, NEW i
  PROVE  i \in Due(r) <=> \E s \in r.add \ r.go : i = Inst(r, s)
BY DEF Due

(* No start under way has listed an instance of X.                         *)
Free(r, X) == r.pc = "stage" => \A s : Inst(r, s) \notin X

LEMMA ListedMore ==
  ASSUME NEW r, NEW b, NEW c, NEW X, b \ X \subseteq c, Free(r, X), Listed(r, b)
  PROVE  Listed(r, c)
<1>1. \A s : r.pc = "stage" /\ Inst(r, s) \in b => Inst(r, s) \in c
  BY DEF Free
<1> QED
  BY <1>1 DEF Listed

(* A step of p covers what was covered, but for X.                         *)
LEMMA StillCovered ==
  ASSUME NEW p \in Procs, Goes(p), NEW X,
         eng[p].hand \ X \subseteq bag' \cup lost' \cup eng'[p].hand,
         bag \cup lost \subseteq bag' \cup lost' \cup InHands
  PROVE  Covered \ X \subseteq Covered'
<1> SUFFICES ASSUME NEW i \in Covered, i \notin X PROVE i \in Covered'
  OBVIOUS
<1>1. \A q \in Procs : q # p => eng'[q] = eng[q]
  BY DEF Goes
<1>2. CASE i \in InHands
  <2>1. PICK q \in Procs : i \in eng[q].hand
    BY <1>2, InHandsFacts
  <2>2. CASE q = p
    <3>1. i \in bag' \cup lost' \cup eng'[p].hand
      BY <2>1, <2>2
    <3> QED
      BY <3>1, InHandsFacts DEF Covered
  <2>3. CASE q # p
    BY <1>1, <2>1, <2>3, InHandsFacts DEF Covered
  <2> QED
    BY <2>2, <2>3
<1>3. CASE i \in bag \cup lost
  BY <1>2, <1>3 DEF Covered
<1> QED
  BY <1>2, <1>3 DEF Covered

(* What a step of p has to show for StopInv.                               *)
LEMMA StopStep ==
  ASSUME TypeOK, StopInv, NEW p \in Procs, Goes(p), Empty(eng'[p]), NEW X,
         eng[p].hand \ X \subseteq bag' \cup lost' \cup eng'[p].hand,
         bag \cup lost \subseteq bag' \cup lost' \cup InHands,
         X \cap running' = {}, \A q \in Procs : q # p => Free(eng[q], X),
         Listed(eng[p], Covered) /\ Covered \ X \subseteq Covered' => Listed(eng'[p], Covered'),
         Covered \ X \subseteq Covered' => \A i \in running' : i \in running \cup Covered' \cup Due(eng'[p]),
         \A i \in Due(eng[p]) : i \in bag' \cup Due(eng'[p])
  PROVE  StopInv'
<1>1. \A q \in Procs : q # p => eng'[q] = eng[q]
  BY DEF Goes
<1>2. Covered \ X \subseteq Covered'
  BY StillCovered
<1>3. \A q \in Procs : Empty(eng'[q])
  BY <1>1 DEF StopInv
<1>4. ASSUME NEW q \in Procs PROVE Listed(eng'[q], Covered')
  <2>1. CASE q = p
    BY <1>2, <2>1 DEF StopInv
  <2>2. CASE q # p
    BY <1>1, <1>2, <2>2, ListedMore DEF StopInv
  <2> QED
    BY <2>1, <2>2
<1>5. ASSUME NEW i \in running' PROVE i \in Covered' \/ \E q \in Procs : i \in Due(eng'[q])
  <2>1. CASE i \notin running
    BY <1>2, <2>1
  <2>2. CASE i \in Covered
    BY <1>2, <2>2
  <2>3. CASE \E q \in Procs : i \in Due(eng[q])
    <3>1. PICK q \in Procs : i \in Due(eng[q])
      BY <2>3
    <3>2. CASE q = p
      BY <3>1, <3>2 DEF Covered
    <3>3. CASE q # p
      BY <1>1, <3>1, <3>3
    <3> QED
      BY <3>2, <3>3
  <2> QED
    BY <2>1, <2>2, <2>3 DEF StopInv, Known
<1> QED
  BY <1>3, <1>4, <1>5 DEF StopInv, Known

(* A step that leaves no call of a start, and the bag as it is.            *)
LEMMA PlainStop ==
  ASSUME TypeOK, StopInv, NEW p \in Procs, Goes(p), UNCHANGED <<bag, running, lost>>,
         eng[p].add = {}, eng[p].hand \subseteq eng'[p].hand, Empty(eng'[p]),
         Listed(eng[p], Covered) /\ Covered \subseteq Covered' => Listed(eng'[p], Covered')
  PROVE  StopInv'
<1>1. \A q \in Procs : Free(eng[q], {})
  BY DEF Free
<1>2. \A i \in Due(eng[p]) : i \in bag' \cup Due(eng'[p])
  BY NothingDue
<1>3. /\ eng[p].hand \ {} \subseteq bag' \cup lost' \cup eng'[p].hand
      /\ bag \cup lost \subseteq bag' \cup lost' \cup InHands
      /\ {} \cap running' = {}
  OBVIOUS
<1>4. Listed(eng[p], Covered) /\ Covered \ {} \subseteq Covered' => Listed(eng'[p], Covered')
  OBVIOUS
<1>5. Covered \ {} \subseteq Covered' => \A i \in running' : i \in running \cup Covered' \cup Due(eng'[p])
  OBVIOUS
<1> QED
  BY <1>1, <1>2, <1>3, <1>4, <1>5, StopStep

LEMMA ReturnStop ==
  ASSUME TypeOK, StopInv, NEW p \in Procs, Return(p), UNCHANGED <<bag, running, lost>>,
         eng[p].add = {}, eng[p].hand = {}
  PROVE  StopInv'
<1>1. Goes(p) /\ eng'[p] = NoCall
  BY EngineTypes, ReturnFacts
<1>2. eng'[p].pc = "idle" /\ Empty(eng'[p]) /\ Listed(eng'[p], Covered')
  BY <1>1, NoCallFacts DEF Empty, Listed
<1> QED
  BY <1>1, <1>2, PlainStop

LEMMA CallStop ==
  ASSUME TypeOK, StopInv, NEW p \in Procs, NEW pc \in {"tool", "migrate", "snapshot"},
         NEW sync \in BOOLEAN, Call(p, pc, sync), UNCHANGED <<bag, running, lost>>
  PROVE  StopInv'
<1>1. pc \in EnginePcs
  BY DEF EnginePcs
<1>2. /\ Goes(p) /\ eng'[p].pc = pc /\ eng[p].pc = "idle"
      /\ eng'[p].add = {} /\ eng'[p].go = {} /\ eng'[p].hand = {}
  BY <1>1, CallType
<1>3. eng[p].add = {} /\ eng[p].hand = {} /\ Empty(eng'[p]) /\ Listed(eng'[p], Covered')
  BY <1>2 DEF StopInv, Empty, Listed
<1> QED
  BY <1>2, <1>3, PlainStop

LEMMA EnterStop ==
  ASSUME TypeOK, StopInv, NEW p \in Procs, NEW i \in DOMAIN Plan, Enter(p, i),
         UNCHANGED <<bag, running, lost>>,
         \/ eng[p].pc = "build" /\ i = 1
         \/ eng[p].pc = "stage" /\ i = eng[p].stage + 1 /\ eng[p].add = {} /\ eng[p].go = {}
  PROVE  StopInv'
<1>1. /\ Goes(p) /\ eng'[p].pc = "stage" /\ eng'[p].stage = i /\ eng'[p].id = eng[p].id
      /\ eng'[p].hand = eng[p].hand
      /\ eng'[p].add = (IF Order(i) = "start" THEN {} ELSE Plan[i].services)
      /\ eng'[p].go = (IF Order(i) = "add" THEN {} ELSE Plan[i].services)
  BY EngineTypes, EnterFacts
<1>2. eng[p].add = {} /\ eng[p].hand = {} /\ Empty(eng'[p])
  BY <1>1 DEF StopInv, Empty
<1>3. ASSUME Listed(eng[p], Covered), Covered \subseteq Covered' PROVE Listed(eng'[p], Covered')
  <2>1. /\ i \in 1..9 /\ (Order(i) = "add" <=> i = 6) /\ (Order(i) = "start" <=> i = 9)
        /\ Plan[6].services = Multicast
    BY PlanFacts DEF Order
  <2>2. /\ Order(i) = "addStart" => eng'[p].go \subseteq eng'[p].add
        /\ Order(i) = "startAdd" => eng'[p].go \subseteq eng'[p].add
        /\ Order(i) = "add" => eng'[p].go = {}
        /\ i = 6 => eng'[p].add = Multicast
    BY <1>1, <2>1
  <2>3. i > 6 => \A s \in Multicast : Inst(eng'[p], s) \in Covered'
    <3>1. CASE eng[p].pc = "build"
      BY <2>1, <3>1
    <3>2. CASE eng[p].pc = "stage" /\ i = eng[p].stage + 1 /\ eng[p].add = {}
      <4>1. eng[p].stage \in 1..9
        BY EngineTypes, EngFields, PlanFacts
      <4>2. i > 6 => \A s \in Multicast : Inst(eng[p], s) \in Covered
        BY <1>3, <3>2, <4>1 DEF Listed
      <4>3. \A s : Inst(eng'[p], s) = Inst(eng[p], s)
        BY <1>1 DEF Inst
      <4> QED
        BY <1>3, <4>2, <4>3
    <3> QED
      BY <3>1, <3>2
  <2> QED
    BY <1>1, <2>2, <2>3 DEF Listed
<1> QED
  BY <1>1, <1>2, <1>3, PlainStop

(* A step of a start in one of its stages.                                 *)
LEMMA StageStop ==
  ASSUME TypeOK, StopInv, NEW p \in Procs, Goes(p), eng[p].pc = "stage", eng'[p].pc = "stage",
         eng'[p].hand = eng[p].hand, bag \cup lost \subseteq bag' \cup lost',
         Listed(eng[p], Covered) /\ Covered \subseteq Covered' => Listed(eng'[p], Covered'),
         Covered \subseteq Covered' => \A i \in running' : i \in running \cup Covered' \cup Due(eng'[p]),
         \A i \in Due(eng[p]) : i \in bag' \cup Due(eng'[p])
  PROVE  StopInv'
<1>1. \A q \in Procs : Free(eng[q], {})
  BY DEF Free
<1>2. Empty(eng'[p])
  BY DEF StopInv, Empty
<1>3. /\ eng[p].hand \ {} \subseteq bag' \cup lost' \cup eng'[p].hand
      /\ bag \cup lost \subseteq bag' \cup lost' \cup InHands
      /\ {} \cap running' = {}
  OBVIOUS
<1>4. Listed(eng[p], Covered) /\ Covered \ {} \subseteq Covered' => Listed(eng'[p], Covered')
  OBVIOUS
<1>5. Covered \ {} \subseteq Covered' => \A i \in running' : i \in running \cup Covered' \cup Due(eng'[p])
  OBVIOUS
<1> QED
  BY <1>1, <1>2, <1>3, <1>4, <1>5, StopStep

LEMMA RegisterStop ==
  ASSUME TypeOK, StopInv, NEW p \in Procs, NEW s \in Services, Register(p, s)
  PROVE  StopInv'
<1>1. /\ Goes(p) /\ eng'[p].pc = "stage" /\ eng[p].pc = "stage" /\ eng'[p].add = eng[p].add \ {s}
      /\ eng'[p].go = eng[p].go /\ eng'[p].hand = eng[p].hand
      /\ eng'[p].stage = eng[p].stage /\ eng'[p].id = eng[p].id
      /\ Order(eng[p].stage) = "startAdd" => s \notin eng[p].go
  BY EngineTypes, RegisterFacts DEF Register, At
<1>2. /\ bag' = bag \cup {Inst(eng[p], s)} /\ lost' = lost \ {Inst(eng[p], s)}
      /\ running' = running
  BY InstFacts DEF Register
<1>3. \A x : Inst(eng'[p], x) = Inst(eng[p], x)
  BY <1>1 DEF Inst
<1>4. bag \cup lost \subseteq bag' \cup lost' /\ bag' \subseteq Covered'
  BY <1>2 DEF Covered
<1>5. \A i \in Due(eng[p]) : i \in bag' \cup Due(eng'[p])
  BY <1>1, <1>2, <1>3, DueFacts
<1>6. Listed(eng[p], Covered) /\ Covered \subseteq Covered' => Listed(eng'[p], Covered')
  <2>1. Inst(eng[p], s) \in Covered'
    BY <1>2, <1>4
  <2> QED
    BY <1>1, <1>3, <2>1 DEF Listed
<1>7. \A i \in running' : i \in running \cup Covered' \cup Due(eng'[p])
  BY <1>2
<1> QED
  BY <1>1, <1>4, <1>5, <1>6, <1>7, StageStop

LEMMA LaunchStop ==
  ASSUME TypeOK, StopInv, NEW p \in Procs, NEW s \in Services, Launch(p, s)
  PROVE  StopInv'
<1>1. /\ Goes(p) /\ eng'[p].pc = "stage" /\ eng[p].pc = "stage" /\ eng'[p].add = eng[p].add
      /\ eng'[p].go = eng[p].go \ {s} /\ eng'[p].hand = eng[p].hand
      /\ eng'[p].stage = eng[p].stage /\ eng'[p].id = eng[p].id /\ s \in eng[p].go
      /\ Order(eng[p].stage) = "addStart" => s \notin eng[p].add
  BY EngineTypes, LaunchFacts DEF Launch, MayLaunch, At
<1>2. running' = running \cup {Inst(eng[p], s)} /\ UNCHANGED <<bag, lost>>
  BY InstFacts DEF Launch
<1>3. \A x : Inst(eng'[p], x) = Inst(eng[p], x)
  BY <1>1 DEF Inst
<1>4. bag \cup lost \subseteq bag' \cup lost'
  BY <1>2
<1>5. \A i \in Due(eng[p]) : i \in bag' \cup Due(eng'[p])
  BY <1>1, <1>3, DueFacts
<1>6. Listed(eng[p], Covered) /\ Covered \subseteq Covered' => Listed(eng'[p], Covered')
  BY <1>1, <1>3 DEF Listed
<1>7. Inst(eng[p], s) \in Covered \cup Due(eng'[p])
  <2>1. /\ eng[p].stage \in DOMAIN Plan /\ s \in Plan[eng[p].stage].services
    BY <1>1, EngineTypes, EngFields
  <2>2. /\ eng[p].stage \in 1..9 /\ (Order(eng[p].stage) = "start" <=> eng[p].stage = 9)
        /\ Plan[9].services = Multicast /\ (Order(eng[p].stage) = "config" => FALSE)
        /\ Order(eng[p].stage) \in {"addStart", "startAdd", "add", "start"}
    BY <2>1, PlanFacts DEF Order
  <2>3. CASE s \in eng[p].add
    BY <1>1, <1>3, <2>3, DueFacts
  <2>4. CASE s \notin eng[p].add
    <3>1. Listed(eng[p], Covered)
      BY DEF StopInv
    <3> QED
      BY <1>1, <2>1, <2>2, <2>4, <3>1 DEF Listed
  <2> QED
    BY <2>3, <2>4
<1>8. Covered \subseteq Covered' => \A i \in running' : i \in running \cup Covered' \cup Due(eng'[p])
  BY <1>2, <1>7
<1> QED
  BY <1>1, <1>4, <1>5, <1>6, <1>8, StageStop

LEMMA LaunchFailsStop ==
  ASSUME TypeOK, StopInv, NEW p \in Procs, NEW s \in Services, LaunchFails(p, s)
  PROVE  StopInv'
<1>1. /\ Goes(p) /\ eng'[p].pc = "stage" /\ eng[p].pc = "stage" /\ eng'[p].add = eng[p].add \ {s}
      /\ eng'[p].go = eng[p].go \ {s} /\ eng'[p].hand = eng[p].hand
      /\ eng'[p].stage = eng[p].stage /\ eng'[p].id = eng[p].id /\ s \in eng[p].go
  BY EngineTypes, LaunchFailsFacts DEF LaunchFails, At
<1>2. /\ \/ running' = running /\ lost' = lost
         \/ /\ running' = running \cup {Inst(eng[p], s)}
            /\ Order(eng[p].stage) = "addStart" => s \notin eng[p].add
            /\ lost' = IF s \in AddedLate THEN lost \cup {Inst(eng[p], s)} ELSE lost
      /\ bag' = bag
  BY InstFacts DEF LaunchFails, MayLaunch
<1>3. \A x : Inst(eng'[p], x) = Inst(eng[p], x)
  BY <1>1 DEF Inst
<1>4. bag \cup lost \subseteq bag' \cup lost'
  BY <1>2
<1>5. \A i \in Due(eng[p]) : i \in bag' \cup Due(eng'[p])
  BY <1>1, <1>3, DueFacts
<1>6. /\ eng[p].stage \in 1..9 /\ (Order(eng[p].stage) = "start" <=> eng[p].stage = 9)
      /\ (Order(eng[p].stage) = "add" <=> eng[p].stage = 6)
      /\ s \in Plan[eng[p].stage].services /\ Plan[9].services = Multicast
      /\ Order(eng[p].stage) \in {"addStart", "startAdd", "add", "start"}
      /\ Order(eng[p].stage) = "startAdd" => s \in AddedLate
  <2>1. /\ eng[p].stage \in DOMAIN Plan /\ s \in Plan[eng[p].stage].services
    BY <1>1, EngineTypes, EngFields
  <2> QED
    BY <1>1, <2>1, PlanFacts DEF Order
<1>7. Listed(eng[p], Covered)
  BY DEF StopInv
<1>8. Covered \subseteq Covered' => Listed(eng'[p], Covered')
  BY <1>1, <1>3, <1>6, <1>7 DEF Listed
<1>9. running' # running => Inst(eng[p], s) \in Covered \cup lost'
  BY <1>1, <1>2, <1>6, <1>7 DEF Listed
<1>10. Covered \subseteq Covered' => \A i \in running' : i \in running \cup Covered' \cup Due(eng'[p])
  <2>1. lost' \subseteq Covered'
    BY DEF Covered
  <2> QED
    BY <1>2, <1>9, <2>1
<1> QED
  BY <1>1, <1>4, <1>5, <1>8, <1>10, StageStop

(* A step of a stop; it puts nothing in the bag and launches nothing.      *)
LEMMA StoppingStop ==
  ASSUME TypeOK, StopInv, NEW p \in Procs, Goes(p), NEW X,
         eng[p].pc \in {"swap", "stop"}, eng'[p].pc = "stop",
         eng'[p].add = eng[p].add, eng'[p].go = eng[p].go,
         eng[p].hand \ X \subseteq bag' \cup lost' \cup eng'[p].hand,
         bag \cup lost \subseteq bag' \cup lost' \cup InHands,
         running' \subseteq running, X \cap running' = {}, \A q \in Procs : Free(eng[q], X)
  PROVE  StopInv'
<1>1. eng[p].add = {} /\ Empty(eng'[p]) /\ Listed(eng'[p], Covered')
  BY DEF StopInv, Empty, Listed
<1>2. \A i \in Due(eng[p]) : i \in bag' \cup Due(eng'[p])
  BY <1>1, NothingDue
<1>3. \A i \in running' : i \in running \cup Covered' \cup Due(eng'[p])
  OBVIOUS
<1> QED
  BY <1>1, <1>2, <1>3, StopStep

LEMMA TakeStop ==
  ASSUME TypeOK, StopInv, NEW p \in Procs, Snapshot(p) \/ Swap(p)
  PROVE  StopInv'
<1>1. CASE Snapshot(p)
  <2>1. /\ Goes(p) /\ eng'[p].pc = "swap" /\ eng[p].pc = "snapshot"
        /\ eng'[p].add = eng[p].add /\ eng'[p].go = eng[p].go
        /\ UNCHANGED <<bag, running, lost>>
    BY <1>1, EngineTypes, SnapshotFacts DEF Snapshot, At
  <2>2. /\ eng[p].add = {} /\ eng[p].hand = {}
        /\ Empty(eng'[p]) /\ Listed(eng'[p], Covered')
    BY <2>1 DEF StopInv, Empty, Listed
  <2> QED
    BY <2>1, <2>2, PlainStop
<1>2. CASE Swap(p)
  <2>1. /\ Goes(p) /\ eng'[p].pc = "stop" /\ eng[p].pc = "swap" /\ eng'[p].hand = eng[p].hand
        /\ eng'[p].add = eng[p].add /\ eng'[p].go = eng[p].go
        /\ lost' = lost \cup (bag \ InHands) /\ running' = running
    BY <1>2, EngineTypes, SwapFacts DEF Swap, At
  <2>2. \A q \in Procs : Free(eng[q], {})
    BY DEF Free
  <2>3. /\ eng[p].hand \ {} \subseteq bag' \cup lost' \cup eng'[p].hand
        /\ bag \cup lost \subseteq bag' \cup lost' \cup InHands
        /\ running' \subseteq running /\ {} \cap running' = {}
    BY <2>1
  <2> QED
    BY <2>1, <2>2, <2>3, StoppingStop
<1> QED
  BY <1>1, <1>2

LEMMA StopsStop ==
  ASSUME TypeOK, StopInv, NEW p \in Procs, NEW i \in eng[p].hand, StopOne(p, i) \/ StopFails(p, i)
  PROVE  StopInv'
<1>1. CASE StopOne(p, i)
  <2>1. eng[p].hand \ {i} \in SUBSET Instances
    BY EngineTypes, EngFields
  <2>2. /\ Goes(p) /\ eng'[p].pc = "stop" /\ eng[p].pc = "stop" /\ eng'[p].hand = eng[p].hand \ {i}
        /\ eng'[p].add = eng[p].add /\ eng'[p].go = eng[p].go
        /\ running' = running \ {i} /\ bag' = bag
        /\ lost' = IF OfAStart(i) THEN lost \cup {i} ELSE lost
    BY <1>1, <2>1, EngineTypes, HandFacts DEF StopOne, At
  <2> DEFINE X == IF OfAStart(i) THEN {} ELSE {i}
  <2>3. ASSUME NEW q \in Procs PROVE Free(eng[q], X)
    <3>1. CASE OfAStart(i)
      BY <3>1 DEF Free
    <3>2. CASE ~OfAStart(i)
      <4> SUFFICES ASSUME eng[q].pc = "stage", NEW s, Inst(eng[q], s) = i PROVE FALSE
        BY <3>2 DEF Free
      <4>1. i[1] = s
        BY DEF Inst
      <4>2. i = Instance(q, i[1])
        BY <4>1, InstFacts
      <4> QED
        BY <3>2, <4>2 DEF OfAStart, At
    <3> QED
      BY <3>1, <3>2
  <2>4. /\ eng[p].hand \ X \subseteq bag' \cup lost' \cup eng'[p].hand
        /\ bag \cup lost \subseteq bag' \cup lost' \cup InHands
        /\ running' \subseteq running /\ X \cap running' = {}
    BY <2>2
  <2> HIDE DEF X
  <2> QED
    BY <2>2, <2>3, <2>4, StoppingStop
<1>2. CASE StopFails(p, i)
  <2>1. Remaining(p, i) \in SUBSET Instances
    BY EngineTypes, EngFields DEF Remaining
  <2>2. /\ Goes(p) /\ eng'[p].pc = "stop" /\ eng[p].pc = "stop" /\ eng'[p].hand = Remaining(p, i)
        /\ eng'[p].add = eng[p].add /\ eng'[p].go = eng[p].go
        /\ running' = running /\ bag' = bag
    BY <1>2, <2>1, EngineTypes, HandFacts DEF StopFails, At
  <2>3. lost \subseteq lost' /\ eng[p].hand \subseteq lost' \cup Remaining(p, i)
    BY <1>2 DEF StopFails, Remaining
  <2>4. \A q \in Procs : Free(eng[q], {})
    BY DEF Free
  <2>5. /\ eng[p].hand \ {} \subseteq bag' \cup lost' \cup eng'[p].hand
        /\ bag \cup lost \subseteq bag' \cup lost' \cup InHands
        /\ running' \subseteq running /\ {} \cap running' = {}
    BY <2>2, <2>3
  <2> QED
    BY <2>2, <2>4, <2>5, StoppingStop
<1> QED
  BY <1>1, <1>2

LEMMA EndStop ==
  ASSUME TypeOK, StopInv, NEW p \in Procs, MigrationEnds(p)
  PROVE  StopInv'
<1>1. /\ eng[p].pc \in {"tool", "migrate"} /\ UNCHANGED <<bag, running, lost>>
      /\ eng[p].pc = "tool" => Return(p)
  BY DEF MigrationEnds, At
<1>2. eng[p].add = {} /\ eng[p].go = {} /\ eng[p].hand = {}
  BY <1>1 DEF StopInv, Empty
<1>3. CASE Return(p)
  BY <1>1, <1>2, <1>3, ReturnStop
<1>4. CASE eng[p].pc = "migrate" /\ eng' = [eng EXCEPT ![p].pc = "build"]
  <2>1. /\ Goes(p) /\ eng'[p].pc = "build" /\ eng'[p].add = {} /\ eng'[p].go = {}
        /\ eng'[p].hand = {}
    BY <1>2, <1>4, EngineTypes, GotoBuildFacts
  <2>2. Empty(eng'[p]) /\ Listed(eng'[p], Covered')
    BY <2>1 DEF Empty, Listed
  <2> QED
    BY <1>1, <1>2, <2>1, <2>2, PlainStop
<1> QED
  BY <1>1, <1>3, <1>4 DEF MigrationEnds

LEMMA NextStop ==
  ASSUME TypeOK, StopInv, [Next]_vars
  PROVE  StopInv'
<1>1. ASSUME NEW p \in Procs, NEW v \in {0, Latest}, Tool(p, v) PROVE StopInv'
  <2>1. Call(p, "tool", FALSE) /\ UNCHANGED <<bag, running, lost>>
    BY <1>1 DEF Tool
  <2> QED
    BY <2>1, CallStop
<1>2. ASSUME NEW p \in Procs, Start(p) PROVE StopInv'
  <2>1. Call(p, "migrate", FALSE) /\ UNCHANGED <<bag, running, lost>>
    BY <1>2 DEF Start
  <2> QED
    BY <2>1, CallStop
<1>3. ASSUME NEW p \in Procs, NEW sync \in BOOLEAN, StopCalled(p, sync) PROVE StopInv'
  <2>1. Call(p, "snapshot", sync) /\ UNCHANGED <<bag, running, lost>>
    BY <1>3 DEF StopCalled
  <2> QED
    BY <2>1, CallStop
<1>4. ASSUME UNCHANGED engineVars PROVE StopInv'
  BY <1>4 DEF engineVars, StopInv, Known, Covered, InHands
<1>5. ASSUME NEW p \in Procs, StartThrows(p) PROVE StopInv'
  <2>1. Return(p) /\ UNCHANGED <<bag, running, lost>>
    BY <1>5 DEF StartThrows
  <2>2. eng[p].pc \in {"build", "stage"} /\ eng[p].add = {} /\ eng[p].hand = {}
    <3>1. CASE eng[p].pc = "build"
      BY <3>1 DEF StopInv, Empty
    <3>2. CASE eng[p].pc = "stage" /\ Order(eng[p].stage) = "config"
      <4>1. eng[p].stage \in DOMAIN Plan /\ eng[p].add \subseteq Plan[eng[p].stage].services
        BY EngineTypes, EngFields
      <4> QED
        BY <3>2, <4>1, PlanFacts DEF Order, StopInv, Empty
    <3> QED
      BY <1>5, <3>1, <3>2 DEF StartThrows, At
  <2> QED
    BY <2>1, <2>2, ReturnStop
<1>6. ASSUME NEW p \in Procs, Built(p) PROVE StopInv'
  <2>1. 1 \in DOMAIN Plan
    BY DEF Plan
  <2> QED
    BY <1>6, <2>1, EnterStop DEF Built, At
<1>7. ASSUME NEW p \in Procs, StageEnds(p) PROVE StopInv'
  <2>1. /\ eng[p].pc = "stage" /\ eng[p].add = {} /\ eng[p].go = {}
        /\ Return(p) \/ (Enter(p, eng[p].stage + 1) /\ eng[p].stage + 1 \in DOMAIN Plan)
        /\ UNCHANGED <<bag, running, lost>>
    BY <1>7, EngineTypes, StageEndsFacts DEF StageEnds, At
  <2>2. eng[p].hand = {}
    BY <2>1 DEF StopInv, Empty
  <2> QED
    BY <2>1, <2>2, ReturnStop, EnterStop
<1>8. ASSUME NEW p \in Procs, Stopped(p) PROVE StopInv'
  <2>1. Return(p) /\ UNCHANGED <<bag, running, lost>> /\ eng[p].pc = "stop" /\ eng[p].hand = {}
    BY <1>8 DEF Stopped, At
  <2>2. eng[p].add = {}
    BY <2>1 DEF StopInv, Empty
  <2> QED
    BY <2>1, <2>2, ReturnStop
<1>9. CASE Crash
  <2>1. /\ \A p \in Procs : eng'[p] = NoCall
        /\ running' = {}
    BY <1>9 DEF Crash
  <2>2. Empty(NoCall) /\ Listed(NoCall, Covered')
    BY NoCallFacts DEF Empty, Listed
  <2> QED
    BY <2>1, <2>2 DEF StopInv, Known
<1>10. CASE UNCHANGED vars
  BY <1>4, <1>10 DEF vars
<1>11. ASSUME NEW p \in Procs, Calls(p) \/ Steps(p) PROVE StopInv'
  <2>1. CASE Calls(p)
    BY <2>1, <1>1, <1>2, <1>3 DEF Calls, Stop, Dispose
  <2>2. CASE Steps(p)
    BY <2>2, <1>4, <1>5, <1>6, <1>7, <1>8, EndStop, RegisterStop, LaunchStop, LaunchFailsStop,
       TakeStop, StopsStop DEF Steps, Migrate
  <2> QED
    BY <1>11, <2>1, <2>2
<1> QED
  BY <1>9, <1>10, <1>11 DEF Next

LEMMA InitStop == Init => StopInv
<1> SUFFICES ASSUME Init PROVE StopInv
  OBVIOUS
<1>1. \A p \in Procs : eng[p] = NoCall
  BY DEF Init
<1>2. Empty(NoCall) /\ Listed(NoCall, Covered)
  BY NoCallFacts DEF Empty, Listed
<1> QED
  BY <1>1, <1>2 DEF Init, StopInv, Known

(* Whatever runs can be stopped: its stop function is in the bag, in the   *)
(* hands of a stop or about to be put in the bag, for every number of      *)
(* callers and any overlap of starts and stops (IpfsEngine.cs:383-558,     *)
(* 572-627).  Excepted is what nobody is left to stop (lost): a service    *)
(* whose stop function threw, with Stop all that came after it; a peer     *)
(* manager or auto dialer whose start threw, since its function is added   *)
(* when it runs; what a start added between the two lines with which a     *)
(* stop takes the bag; and what a stop called before its start launched    *)
(* it.                                                                     *)
THEOREM EngineStoppable == Spec => []RunningIsStoppable
<1>1. Init => TypeOK /\ StopInv
  BY InitType, InitStop
<1>2. TypeOK /\ StopInv /\ [Next]_vars => TypeOK' /\ StopInv'
  BY NextType, NextStop
<1>3. ASSUME StopInv PROVE RunningIsStoppable
  <2> SUFFICES ASSUME NEW i \in running PROVE i \in bag \cup InHand \cup lost
    BY DEF RunningIsStoppable
  <2>1. ASSUME NEW p \in Procs, i \in Due(eng[p]) PROVE i \in InHand
    <3>1. PICK s \in eng[p].add \ eng[p].go : i = Instance(p, s)
      BY <2>1, DueFacts, InstFacts
    <3> QED
      BY <3>1 DEF InHand
  <2>2. InHands \subseteq InHand
    BY DEF InHand
  <2> QED
    BY <1>3, <2>1, <2>2 DEF StopInv, Known, Covered
<1>4. StopInv => RunningIsStoppable
  BY <1>3
<1> QED
  BY <1>1, <1>2, <1>4, PTL DEF Spec

-----------------------------------------------------------------------------
(* One set of services.  As long as starts do not overlap, what runs and   *)
(* is neither being stopped nor lost, and what is in the bag, is of one    *)
(* start; when the bag is empty and no start is under way, nothing such is *)
(* left of the last one.                                                   *)

Fits(i, n) == i[2] = IF i[1] \in Singles THEN 0 ELSE n

Left == lost \cup InHands

Serving(i) == (i \in running /\ i \notin Left) \/ i \in bag

StartPcs == {"migrate", "build", "stage"}

OneStart == \A p, q \in Procs : eng[p].pc \in StartPcs /\ eng[q].pc \in StartPcs => p = q

OneId == \E n \in 0 .. MaxCalls :
  /\ \A i \in Instances : Serving(i) => Fits(i, n)
  /\ \A p \in Procs : eng[p].pc \in StartPcs => eng[p].id = n

OneInv == twoStarts = FALSE => OneStart /\ OneId

(* A step of p that is no start.  N is what it adds.                       *)
Adds(p, N) ==
  /\ Goes(p) /\ UNCHANGED twoStarts
  /\ eng'[p].pc \in StartPcs => eng[p].pc \in StartPcs /\ eng'[p].id = eng[p].id
  /\ bag' \subseteq bag \cup N
  /\ running' \subseteq running \cup N
  /\ lost \subseteq lost' \cup N
  /\ eng[p].hand \cap running' \subseteq lost' \cup eng'[p].hand
  /\ \A i \in N : eng[p].pc \in StartPcs /\ \E s \in Services : i = Inst(eng[p], s)

LEMMA StillLeft ==
  ASSUME NEW p \in Procs, NEW N, Adds(p, N), NEW i \in running', i \in Left
  PROVE  i \in N \/ i \in Left'
<1>1. \A q \in Procs : q # p => eng'[q] = eng[q]
  BY DEF Adds, Goes
<1>2. CASE i \in lost
  BY <1>2 DEF Adds, Left
<1>3. CASE i \in InHands
  <2>1. PICK q \in Procs : i \in eng[q].hand
    BY <1>3, InHandsFacts
  <2>2. i \in lost' \/ i \in eng'[q].hand
    BY <1>1, <2>1 DEF Adds
  <2> QED
    BY <2>2, InHandsFacts DEF Left
<1> QED
  BY <1>2, <1>3 DEF Left

LEMMA OneStep ==
  ASSUME TypeOK, OneInv, NEW p \in Procs, NEW N, Adds(p, N)
  PROVE  OneInv'
<1>1. \A q \in Procs : q # p => eng'[q] = eng[q]
  BY DEF Adds, Goes
<1>2. twoStarts' = FALSE => OneStart'
  BY <1>1 DEF OneInv, OneStart, Adds
<1>3. ASSUME twoStarts' = FALSE PROVE OneId'
  <2>1. PICK n \in 0 .. MaxCalls :
          /\ \A i \in Instances : Serving(i) => Fits(i, n)
          /\ \A q \in Procs : eng[q].pc \in StartPcs => eng[q].id = n
    BY <1>3 DEF OneInv, OneId, Adds
  <2>2. \A q \in Procs : eng'[q].pc \in StartPcs => eng'[q].id = n
    BY <1>1, <2>1 DEF Adds
  <2>3. ASSUME NEW i \in Instances, i \in N PROVE Fits(i, n)
    <3>1. PICK s \in Services : i = Inst(eng[p], s)
      BY <2>3 DEF Adds
    <3>2. eng[p].id = n
      BY <2>1, <2>3 DEF Adds
    <3> QED
      BY <3>1, <3>2 DEF Inst, Fits
  <2>4. ASSUME NEW i \in Instances, (i \in running' /\ i \notin Left') \/ i \in bag'
        PROVE  i \in N \/ Serving(i)
    <3>1. CASE i \in running' /\ i \notin Left'
      <4>1. i \in N \/ i \notin Left
        BY <3>1, StillLeft
      <4> QED
        BY <3>1, <4>1 DEF Adds, Serving
    <3>2. CASE i \in bag'
      BY <3>2 DEF Adds, Serving
    <3> QED
      BY <2>4, <3>1, <3>2
  <2>5. \A i \in Instances : (i \in running' /\ i \notin Left') \/ i \in bag' => Fits(i, n)
    BY <2>1, <2>3, <2>4
  <2> QED
    BY <2>2, <2>5 DEF OneId, Serving
<1> QED
  BY <1>2, <1>3 DEF OneInv

LEMMA StartOne ==
  ASSUME TypeOK, StopInv, OneInv, NEW p \in Procs, Start(p)
  PROVE  OneInv'
<1>1. /\ Call(p, "migrate", FALSE) /\ UNCHANGED <<bag, running, lost>> /\ bag = {}
      /\ twoStarts' = (twoStarts \/ \E q \in Procs : Starting(q))
      /\ twoStarts \in BOOLEAN
  BY EngineTypes DEF Start, NotStarted
<1>2. twoStarts' = FALSE => \A q \in Procs : eng[q].pc \notin StartPcs
  BY <1>1 DEF Starting, StartPcs
<1>3. /\ Goes(p) /\ eng'[p].pc = "migrate" /\ eng'[p].hand = {} /\ eng'[p].id = calls + 1
      /\ calls' = calls + 1 /\ calls' \in 0 .. MaxCalls /\ eng[p].pc = "idle"
  <2>1. "migrate" \in EnginePcs
    BY DEF EnginePcs
  <2> QED
    BY <1>1, <2>1, CallType
<1>4. \A q \in Procs : q # p => eng'[q] = eng[q]
  BY <1>3 DEF Goes
<1>5. twoStarts' = FALSE => OneStart'
  BY <1>2, <1>4 DEF OneStart
<1>6. ASSUME twoStarts' = FALSE PROVE OneId'
  <2>1. \A q \in Procs : Due(eng[q]) = {}
    BY <1>2, <1>6, NothingDue DEF StopInv, Empty, StartPcs
  <2>2. running \subseteq Left
    BY <1>1, <2>1 DEF StopInv, Known, Covered, Left
  <2>3. eng[p].hand = {}
    BY <1>3 DEF StopInv, Empty
  <2>4. Left \subseteq Left'
    BY <1>1, <1>4, <2>3, InHandsFacts DEF Left
  <2>5. \A i \in Instances : ~((i \in running' /\ i \notin Left') \/ i \in bag')
    BY <1>1, <2>2, <2>4
  <2>6. \A q \in Procs : eng'[q].pc \in StartPcs => eng'[q].id = calls + 1
    BY <1>2, <1>3, <1>4, <1>6
  <2> QED
    BY <1>3, <2>5, <2>6 DEF OneId, Serving
<1> QED
  BY <1>5, <1>6 DEF OneInv

LEMMA QuietOne ==
  ASSUME TypeOK, StopInv, OneInv, NEW p \in Procs, Quiet(p)
  PROVE  OneInv'
<1> USE EngineTypes
<1>0. ASSUME Adds(p, {}) PROVE OneInv'
  BY <1>0, OneStep
<1>00. eng[p].pc \notin {"swap", "stop"} => eng[p].hand = {}
  BY DEF StopInv, Empty
<1> USE DEF StartPcs, Adds
<1>1. CASE StartThrows(p) \/ Stopped(p)
  <2>1. Return(p) /\ UNCHANGED <<bag, running, lost, twoStarts>> /\ eng[p].hand = {}
    BY <1>1, <1>00 DEF StartThrows, Stopped, At
  <2>2. Goes(p) /\ eng'[p].pc = "idle"
    BY <2>1, ReturnFacts, NoCallFacts
  <2> QED
    BY <1>0, <2>1, <2>2
<1>2. CASE Built(p) \/ StageEnds(p)
  <2>1. /\ UNCHANGED <<bag, running, lost, twoStarts>> /\ eng[p].pc \in {"build", "stage"}
        /\ eng[p].hand = {}
    BY <1>2, <1>00 DEF Built, StageEnds, At
  <2>2. Return(p) \/ \E i \in DOMAIN Plan : Enter(p, i)
    <3>1. 1 \in DOMAIN Plan
      BY DEF Plan
    <3> QED
      BY <1>2, <3>1, StageEndsFacts DEF Built
  <2>3. /\ Goes(p)
        /\ eng'[p].pc = "idle" \/ (eng'[p].pc = "stage" /\ eng'[p].id = eng[p].id)
    BY <2>2, ReturnFacts, NoCallFacts, EnterFacts
  <2> QED
    BY <1>0, <2>1, <2>3
<1>3. ASSUME NEW s \in Services, Register(p, s) PROVE OneInv'
  <2>1. /\ Goes(p) /\ eng'[p].pc = "stage" /\ eng[p].pc = "stage" /\ eng'[p].hand = eng[p].hand
        /\ eng'[p].id = eng[p].id
    BY <1>3, RegisterFacts DEF Register, At
  <2>2. /\ bag' = bag \cup {Inst(eng[p], s)} /\ lost' = lost \ {Inst(eng[p], s)}
        /\ UNCHANGED <<running, twoStarts>>
    BY <1>3, InstFacts DEF Register
  <2>3. Adds(p, {Inst(eng[p], s)})
    BY <2>1, <2>2
  <2> QED
    BY <2>3, OneStep
<1>4. ASSUME NEW s \in Services, Launch(p, s) \/ LaunchFails(p, s) PROVE OneInv'
  <2>1. /\ Goes(p) /\ eng'[p].pc = "stage" /\ eng[p].pc = "stage" /\ eng'[p].hand = eng[p].hand
        /\ eng'[p].id = eng[p].id
    <3>1. CASE Launch(p, s)
      BY <3>1, LaunchFacts DEF Launch, MayLaunch, At
    <3>2. CASE LaunchFails(p, s)
      BY <3>2, LaunchFailsFacts DEF LaunchFails, At
    <3> QED
      BY <1>4, <3>1, <3>2
  <2>2. /\ running' \subseteq running \cup {Inst(eng[p], s)} /\ lost \subseteq lost'
        /\ UNCHANGED <<bag, twoStarts>>
    BY <1>4, InstFacts DEF Launch, LaunchFails
  <2>3. Adds(p, {Inst(eng[p], s)})
    BY <2>1, <2>2
  <2> QED
    BY <2>3, OneStep
<1>5. CASE Snapshot(p)
  <2>1. Goes(p) /\ eng'[p].pc = "swap" /\ UNCHANGED <<bag, running, lost, twoStarts>> /\ eng[p].hand = {}
    BY <1>5, <1>00, SnapshotFacts DEF Snapshot, At
  <2> QED
    BY <1>0, <2>1
<1>6. CASE Swap(p)
  <2>1. /\ Goes(p) /\ eng'[p].pc = "stop" /\ eng'[p].hand = eng[p].hand
        /\ bag' = {} /\ lost \subseteq lost' /\ UNCHANGED <<running, twoStarts>>
    BY <1>6, SwapFacts DEF Swap
  <2> QED
    BY <1>0, <2>1
<1>7. ASSUME NEW i \in eng[p].hand, StopOne(p, i) PROVE OneInv'
  <2>1. eng[p].hand \ {i} \in SUBSET Instances
    BY EngFields
  <2>2. /\ Goes(p) /\ eng'[p].hand = eng[p].hand \ {i} /\ eng'[p].pc = "stop"
        /\ running' = running \ {i} /\ lost \subseteq lost' /\ UNCHANGED <<bag, twoStarts>>
    BY <1>7, <2>1, HandFacts DEF StopOne, At
  <2> QED
    BY <1>0, <2>2
<1>8. ASSUME NEW i \in eng[p].hand, StopFails(p, i) PROVE OneInv'
  <2>1. Remaining(p, i) \in SUBSET Instances
    BY EngFields DEF Remaining
  <2>2. /\ Goes(p) /\ eng'[p].hand = Remaining(p, i) /\ eng'[p].pc = "stop"
        /\ lost \subseteq lost' /\ UNCHANGED <<bag, running, twoStarts>>
    BY <1>8, <2>1, HandFacts DEF StopFails, At
  <2>3. eng[p].hand \subseteq lost' \cup Remaining(p, i)
    BY <1>8 DEF StopFails, Remaining
  <2> QED
    BY <1>0, <2>2, <2>3
<1> QED
  BY <1>1, <1>2, <1>3, <1>4, <1>5, <1>6, <1>7, <1>8 DEF Quiet

LEMMA NextOne ==
  ASSUME TypeOK, StopInv, OneInv, [Next]_vars
  PROVE  OneInv'
<1>0. {"tool", "snapshot"} \subseteq EnginePcs
  BY DEF EnginePcs
<1>1. ASSUME NEW p \in Procs, NEW pc \in {"tool", "snapshot"}, NEW sync \in BOOLEAN, Call(p, pc, sync),
             UNCHANGED <<bag, running, lost, twoStarts>>
      PROVE  OneInv'
  <2>1. Goes(p) /\ eng'[p].pc = pc /\ eng[p].pc = "idle"
    BY <1>0, <1>1, CallType
  <2>2. eng[p].hand = {}
    BY <2>1 DEF StopInv, Empty
  <2>3. Adds(p, {})
    BY <1>1, <2>1, <2>2 DEF Adds, StartPcs
  <2> QED
    BY <2>3, OneStep
<1>2. ASSUME NEW p \in Procs, NEW v \in {0, Latest}, Tool(p, v) PROVE OneInv'
  BY <1>1, <1>2 DEF Tool
<1>3. ASSUME NEW p \in Procs, NEW sync \in BOOLEAN, StopCalled(p, sync) PROVE OneInv'
  BY <1>1, <1>3 DEF StopCalled
<1>4. ASSUME UNCHANGED engineVars PROVE OneInv'
  BY <1>4 DEF engineVars, OneInv, OneStart, OneId, Serving, Left, InHands
<1>5. ASSUME NEW p \in Procs, MigrationEnds(p) PROVE OneInv'
  <2>1. /\ UNCHANGED <<bag, running, lost, twoStarts>> /\ eng[p].pc \in {"tool", "migrate"}
        /\ Return(p) \/ (eng[p].pc = "migrate" /\ eng' = [eng EXCEPT ![p].pc = "build"])
    BY <1>5 DEF MigrationEnds, At
  <2>2. /\ Goes(p)
        /\ eng'[p].pc = "idle" \/ (eng[p].pc = "migrate" /\ eng'[p].pc = "build" /\ eng'[p].id = eng[p].id)
    <3>1. CASE Return(p)
      BY <3>1, EngineTypes, ReturnFacts, NoCallFacts
    <3>2. CASE eng[p].pc = "migrate" /\ eng' = [eng EXCEPT ![p].pc = "build"]
      BY <3>2, EngineTypes, GotoBuildFacts
    <3> QED
      BY <2>1, <3>1, <3>2
  <2>3. eng[p].hand = {}
    BY <2>1 DEF StopInv, Empty
  <2>4. Adds(p, {})
    BY <2>1, <2>2, <2>3 DEF Adds, StartPcs
  <2> QED
    BY <2>4, OneStep
<1>6. CASE Crash
  <2>1. \A p \in Procs : eng'[p].pc = "idle"
    BY <1>6, NoCallFacts DEF Crash
  <2>2. running' = {} /\ bag' = {} /\ 0 \in 0 .. MaxCalls
    BY <1>6, EngineAssumption DEF Crash
  <2> QED
    BY <2>1, <2>2 DEF OneInv, OneStart, OneId, Serving, StartPcs
<1>7. CASE UNCHANGED vars
  BY <1>4, <1>7 DEF vars
<1> QED
  BY <1>2, <1>3, <1>4, <1>5, <1>6, <1>7, StartOne, QuietOne
     DEF Next, Calls, Steps, Stop, Dispose, Quiet, Migrate

(* One set of services: no service runs twice, after any sequence of       *)
(* starts, failed starts, stops and failed stops, also if a start meets a  *)
(* stop (IpfsEngine.cs:385-388).  Excepted are two starts at the same time *)
(* (twoStarts), what a stop has yet to call, and what nobody is left to    *)
(* stop (lost): after a stop in which a function threw, or a start whose   *)
(* peer manager threw, the next start makes a second one.                  *)
THEOREM EngineOneSet == Spec => []OneSetOfServices
<1>1. Init => TypeOK /\ StopInv /\ OneInv
  <2> SUFFICES ASSUME Init PROVE OneInv
    BY InitType, InitStop
  <2>1. \A p \in Procs : eng[p].pc = "idle"
    BY NoCallFacts DEF Init
  <2>2. running = {} /\ bag = {} /\ 0 \in 0 .. MaxCalls
    BY EngineAssumption DEF Init
  <2> QED
    BY <2>1, <2>2 DEF OneInv, OneStart, OneId, Serving, StartPcs
<1>2. TypeOK /\ StopInv /\ OneInv /\ [Next]_vars => TypeOK' /\ StopInv' /\ OneInv'
  BY NextType, NextStop, NextOne
<1>3. ASSUME TypeOK, OneInv PROVE OneSetOfServices
  <2> SUFFICES ASSUME twoStarts = FALSE,
                      NEW i \in running \ Left, NEW j \in running \ Left, i[1] = j[1]
               PROVE  i = j
    BY <1>3, EngineTypes DEF OneSetOfServices, Left
  <2>1. i \in Instances /\ j \in Instances
    BY <1>3, EngineTypes
  <2>2. PICK n \in 0 .. MaxCalls : \A k \in Instances : Serving(k) => Fits(k, n)
    BY <1>3 DEF OneInv, OneId
  <2>3. Fits(i, n) /\ Fits(j, n)
    BY <2>1, <2>2 DEF Serving
  <2> QED
    BY <2>1, <2>3 DEF Fits, Instances
<1>4. TypeOK /\ OneInv => OneSetOfServices
  BY <1>3
<1> QED
  BY <1>1, <1>2, <1>4, PTL DEF Spec
=============================================================================
