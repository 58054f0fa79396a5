------------------------------- MODULE Engine -------------------------------
(***************************************************************************)
(* The life of IpfsEngine: StartAsync brings the repository to the latest  *)
(* version and starts the network services, a few at a time; each puts a   *)
(* function that stops it in the bag stopTasks, and the engine counts as   *)
(* started while the bag is not empty.  StopAsync, Stop and Dispose take   *)
(* the bag and call what is in it.  There is no lock: calls of several     *)
(* threads interleave.  The services themselves (package PeerTalk) are     *)
(* external: they run or they do not.                                      *)
(***************************************************************************)
EXTENDS Migration, Sequences, FiniteSets

CONSTANTS
  Swarm, PeerManager, Primary, Multicast, AutoDialer, Discovery,
                 \* the services of each stage, as sets
  FailsToStart,  \* the services that may throw when built or started
  FailsToStop,   \* the services that may throw when stopped
  Disposing,     \* TRUE: a caller may dispose the engine
  MaxCalls       \* bound: calls in a behaviour

(* The stages of StartAsync: which services, and whether they are put in   *)
(* the bag before they are started, after, or only one of the two.  Stage  *)
(* "config" reads the addresses to listen at.                              *)
Stage(services, order) == [services |-> services, order |-> order]
Plan == << Stage(Swarm, "addStart"), Stage(Swarm, "addStart"),
           Stage(PeerManager, "startAdd"), Stage(Primary, "addStart"),
           Stage({}, "config"), Stage(Multicast, "add"),
           Stage(AutoDialer, "startAdd"), Stage(Discovery, "addStart"),
           Stage(Multicast, "start") >>

Services == UNION {Plan[i].services : i \in DOMAIN Plan}

(* Their stop functions are put in the bag when they run.                  *)
AddedLate == PeerManager \cup AutoDialer

(* A lazily built service exists once; of the others each start makes new  *)
(* ones, named after the call.                                             *)
Singles == Swarm \cup Primary
Instances == Services \X (0 .. MaxCalls)

ASSUME EngineAssumption ==
  /\ MaxCalls \in Nat
  /\ FailsToStart \cup FailsToStop \subseteq Services
  /\ Disposing \in BOOLEAN

VARIABLES
  bag,        \* stopTasks: the instances that have a function in it
  running,    \* the instances that run
  disposed,   \* disposedValue
  eng,        \* the call of each process
  calls,      \* the calls so far
  twoStarts,  \* history: two starts ran at the same time
  undermined, \* history: the repository was taken back under a started engine
  lost        \* history: what has nobody left to stop it, should it run

engineVars == <<bag, running, disposed, eng, calls, twoStarts, undermined, lost>>
vars == <<migrationVars, engineVars>>

EnginePcs == {"idle", "tool", "migrate", "build", "stage", "snapshot", "swap", "stop"}

EngineRecord ==
  [ pc     : EnginePcs,
    id     : 0 .. MaxCalls,           \* the number of the call
    stage  : DOMAIN Plan,
    add    : SUBSET Services,         \* to be put in the bag in this stage
    go     : SUBSET Services,         \* to be started in this stage
    failed : BOOLEAN,                 \* a task of this stage has thrown
    sync   : BOOLEAN,                 \* Stop, not StopAsync
    hand   : SUBSET Instances ]       \* what a stop has still to call

NoCall == [ pc |-> "idle", id |-> 0, stage |-> 1, add |-> {}, go |-> {},
            failed |-> FALSE, sync |-> FALSE, hand |-> {} ]

TypeOK ==
  /\ MigrationTypeOK
  /\ bag \subseteq Instances /\ running \subseteq Instances /\ lost \subseteq Instances
  /\ disposed \in BOOLEAN
  /\ eng \in [Procs -> EngineRecord]
  /\ \A p \in Procs :
       /\ mig[p].pc # "idle" <=> eng[p].pc \in {"tool", "migrate"}
       /\ eng[p].add \cup eng[p].go \subseteq Plan[eng[p].stage].services
  /\ calls \in 0 .. MaxCalls
  /\ twoStarts \in BOOLEAN /\ undermined \in BOOLEAN

Init ==
  /\ MigrationInit
  /\ bag = {} /\ running = {} /\ lost = {}
  /\ disposed = FALSE
  /\ eng = [p \in Procs |-> NoCall]
  /\ calls = 0
  /\ twoStarts = FALSE /\ undermined = FALSE

At(p, pc) == eng[p].pc = pc
Starting(p) == eng[p].pc \in {"migrate", "build", "stage"}

Instance(p, s) == <<s, IF s \in Singles THEN 0 ELSE eng[p].id>>

(* The instances whose stop functions a stop has in hand.                  *)
InHands == UNION {eng[p].hand : p \in Procs}

Call(p, pc, sync) ==
  /\ At(p, "idle") /\ calls < MaxCalls
  /\ calls' = calls + 1
  /\ eng' = [eng EXCEPT ![p] = [NoCall EXCEPT !.pc = pc, !.id = calls + 1, !.sync = sync]]

Return(p) == eng' = [eng EXCEPT ![p] = NoCall]

-----------------------------------------------------------------------------
(* The tools call MirgrateToVersionAsync themselves.                       *)

Tool(p, version_) ==
  /\ Call(p, "tool", FALSE)
  /\ MigrateTo(p, version_)
  /\ undermined' = (undermined \/ (version_ = 0 /\ (running # {} \/ \E q \in Procs : Starting(q))))
  /\ UNCHANGED <<bag, running, disposed, twoStarts, lost>>

Migrate(p) == MigrationStep(p) /\ UNCHANGED engineVars

(* Mutant: StartAsync goes on with a repository it could not migrate.      *)
Ignored(p) == FALSE
MigrationThrew(p) == MigAt(p, "failed")

MigrationEnds(p) ==
  /\ eng[p].pc \in {"tool", "migrate"} /\ ~Migrating(p)
  /\ IF At(p, "tool") \/ MigrationThrew(p) THEN Return(p)
     ELSE eng' = [eng EXCEPT ![p].pc = "build"]
  /\ mig' = [mig EXCEPT ![p] = NoMigration]
  /\ UNCHANGED <<repository, history, bag, running, disposed, calls, twoStarts, undermined, lost>>

-----------------------------------------------------------------------------
(* StartAsync                                                              *)

(* Mutant: the check for a started engine is dropped.                      *)
Always == TRUE
NotStarted == bag = {}

Start(p) ==
  /\ NotStarted
  /\ Call(p, "migrate", FALSE)
  /\ MigrateTo(p, Latest)
  /\ twoStarts' = (twoStarts \/ \E q \in Procs : Starting(q))
  /\ UNCHANGED <<bag, running, disposed, undermined, lost>>

(* Mutant: a stop function is registered when its service runs.            *)
StartedFirst(i) == IF Plan[i].order = "addStart" THEN "startAdd" ELSE Plan[i].order
Order(i) == Plan[i].order

Enter(p, i) ==
  eng' = [eng EXCEPT
    ![p].pc = "stage", ![p].stage = i,
    ![p].add = IF Order(i) = "start" THEN {} ELSE Plan[i].services,
    ![p].go = IF Order(i) = "add" THEN {} ELSE Plan[i].services]

(* LocalPeer and SwarmService may throw, and so may Config.GetAsync.       *)
StartThrows(p) ==
  /\ At(p, "build") \/ (At(p, "stage") /\ Order(eng[p].stage) = "config")
  /\ Return(p)
  /\ UNCHANGED <<migrationVars, bag, running, disposed, calls, twoStarts, undermined, lost>>

Built(p) ==
  /\ At(p, "build")
  /\ Enter(p, 1)
  /\ UNCHANGED <<migrationVars, bag, running, disposed, calls, twoStarts, undermined, lost>>

(* The tasks of a stage run side by side, each in its order.               *)
Register(p, s) ==
  /\ At(p, "stage") /\ s \in eng[p].add
  /\ Order(eng[p].stage) = "startAdd" => s \notin eng[p].go
  /\ bag' = bag \cup {Instance(p, s)}
  /\ lost' = lost \ {Instance(p, s)}
  /\ eng' = [eng EXCEPT ![p].add = @ \ {s}]
  /\ UNCHANGED <<migrationVars, running, disposed, calls, twoStarts, undermined>>

MayLaunch(p, s) ==
  /\ At(p, "stage") /\ s \in eng[p].go
  /\ Order(eng[p].stage) = "addStart" => s \notin eng[p].add

Launch(p, s) ==
  /\ MayLaunch(p, s)
  /\ running' = running \cup {Instance(p, s)}
  /\ eng' = [eng EXCEPT ![p].go = @ \ {s}]
  /\ UNCHANGED <<migrationVars, bag, disposed, calls, twoStarts, undermined, lost>>

(* A service cannot be built, or throws when it may already run: then it   *)
(* is lost if it was to be put in the bag afterwards, as the peer manager  *)
(* is.  The other tasks of the stage go on.                                *)
LaunchFails(p, s) ==
  /\ At(p, "stage") /\ s \in eng[p].go \cap FailsToStart
  /\ \/ UNCHANGED <<running, lost>>
     \/ /\ MayLaunch(p, s)
        /\ running' = running \cup {Instance(p, s)}
        /\ lost' = IF s \in AddedLate THEN lost \cup {Instance(p, s)} ELSE lost
  /\ eng' = [eng EXCEPT ![p].add = @ \ {s}, ![p].go = @ \ {s}, ![p].failed = TRUE]
  /\ UNCHANGED <<migrationVars, bag, disposed, calls, twoStarts, undermined>>

StageEnds(p) ==
  /\ At(p, "stage") /\ eng[p].add = {} /\ eng[p].go = {}
  /\ IF eng[p].failed \/ eng[p].stage = Len(Plan) THEN Return(p)
     ELSE Enter(p, eng[p].stage + 1)
  /\ UNCHANGED <<migrationVars, bag, running, disposed, calls, twoStarts, undermined, lost>>

-----------------------------------------------------------------------------
(* StopAsync, Stop and Dispose                                             *)

StopCalled(p, sync) ==
  /\ Call(p, "snapshot", sync)
  /\ UNCHANGED <<migrationVars, bag, running, twoStarts, undermined, lost>>

Stop(p, sync) == StopCalled(p, sync) /\ UNCHANGED disposed

Dispose(p) ==
  /\ Disposing /\ ~disposed
  /\ StopCalled(p, TRUE)
  /\ disposed' = TRUE

Snapshot(p) ==
  /\ At(p, "snapshot")
  /\ eng' = [eng EXCEPT ![p].pc = "swap", ![p].hand = bag]
  /\ UNCHANGED <<migrationVars, bag, running, disposed, calls, twoStarts, undermined, lost>>

(* What was put in the bag since the snapshot is dropped with it.          *)
Swap(p) ==
  /\ At(p, "swap")
  /\ bag' = {}
  /\ lost' = lost \cup (bag \ InHands)
  /\ eng' = [eng EXCEPT ![p].pc = "stop"]
  /\ UNCHANGED <<migrationVars, running, disposed, calls, twoStarts, undermined>>

(* A start that is under way may yet launch what is stopped here.          *)
OfAStart(i) == \E q \in Procs : At(q, "stage") /\ i = Instance(q, i[1])

StopOne(p, i) ==
  /\ At(p, "stop") /\ i \in eng[p].hand
  /\ running' = running \ {i}
  /\ lost' = IF OfAStart(i) THEN lost \cup {i} ELSE lost
  /\ eng' = [eng EXCEPT ![p].hand = @ \ {i}]
  /\ UNCHANGED <<migrationVars, bag, disposed, calls, twoStarts, undermined>>

(* Mutant: the first failure ends StopAsync like Stop.                     *)
GivesUp(p, i) == {}
Remaining(p, i) == IF eng[p].sync THEN {} ELSE eng[p].hand \ {i}

(* A stop function throws: Stop leaves out the rest, StopAsync, which      *)
(* called them all at once, goes on.                                       *)
StopFails(p, i) ==
  /\ At(p, "stop") /\ i \in eng[p].hand /\ i[1] \in FailsToStop
  /\ eng' = [eng EXCEPT ![p].hand = Remaining(p, i)]
  /\ lost' = lost \cup (IF eng[p].sync THEN eng[p].hand ELSE {i})
  /\ UNCHANGED <<migrationVars, bag, running, disposed, calls, twoStarts,
                 undermined>>

Stopped(p) ==
  /\ At(p, "stop") /\ eng[p].hand = {}
  /\ Return(p)
  /\ UNCHANGED <<migrationVars, bag, running, disposed, calls, twoStarts, undermined, lost>>

(* The process dies and the next one makes a new engine.                   *)
Crash ==
  /\ MigrationCrash
  /\ eng # [p \in Procs |-> NoCall] \/ running # {}
  /\ bag' = {} /\ running' = {} /\ lost' = {}
  /\ disposed' = FALSE
  /\ eng' = [p \in Procs |-> NoCall]
  /\ twoStarts' = FALSE /\ undermined' = FALSE
  /\ UNCHANGED calls

Calls(p) ==
  \/ \E v \in {0, Latest} : Tool(p, v)
  \/ Start(p)
  \/ \E sync \in BOOLEAN : Stop(p, sync)
  \/ Dispose(p)

Steps(p) ==
  \/ Migrate(p) \/ MigrationEnds(p)
  \/ StartThrows(p) \/ Built(p) \/ StageEnds(p)
  \/ \E s \in Services : Register(p, s) \/ Launch(p, s) \/ LaunchFails(p, s)
  \/ Snapshot(p) \/ Swap(p) \/ Stopped(p)
  \/ \E i \in eng[p].hand : StopOne(p, i) \/ StopFails(p, i)

Next == (\E p \in Procs : Calls(p) \/ Steps(p)) \/ Crash

Spec == Init /\ [][Next]_vars

-----------------------------------------------------------------------------
(* Properties                                                              *)

(* What a call is about to put in the bag, or a stop is about to stop.     *)
InHand ==
  InHands \cup UNION {{Instance(p, s) : s \in eng[p].add \ eng[p].go} : p \in Procs}

(* Whatever runs can still be stopped: also after a start that failed half *)
(* way (IpfsEngine.cs:397: the function that stops a service is in the bag *)
(* before the service starts), a stop that failed for another service, or  *)
(* two stops or a stop and a start at the same time.  Excepted (lost): a   *)
(* service whose stop function throws, and with Stop all that come after   *)
(* it; the peer manager when its start throws (IpfsEngine.cs:408-410: its  *)
(* function is added when it runs); what a start adds between the two      *)
(* lines of a stop that take the bag; and what a stop calls before the     *)
(* start that has added it launches it.                                    *)
RunningIsStoppable == running \subseteq bag \cup InHand \cup lost

(* One set of services: starting an engine that is started, or whose start *)
(* failed half way, or that is being stopped, does not start a second      *)
(* swarm's worth of services next to the first, besides what a stop has    *)
(* yet to call (IpfsEngine.cs:385: the engine is not started twice).       *)
(* Excepted: two starts at the same time, which both find the bag empty    *)
(* (twoStarts), and what has nobody left to stop it (lost), as above.      *)
OneSetOfServices ==
  ~twoStarts =>
    \A i \in running \ (lost \cup InHands), j \in running \ (lost \cup InHands) :
      i[1] = j[1] => i = j

(* The services run on a repository that has all its pins in the files of  *)
(* the latest version (IpfsEngine.cs:390: "Repository must be at the       *)
(* correct version").  Excepted: two migrations at the same time (overlap),*)
(* an error with a pin that a migration swallowed (swallowed), one to      *)
(* version 0 that died on its way (partial), and a tool that takes the     *)
(* repository back under the started engine (undermined).                  *)
ServicesSeeAllPins ==
  running # {} /\ ~overlap /\ ~swallowed /\ ~partial /\ ~undermined =>
    version = Latest /\ Upgraded

=============================================================================
