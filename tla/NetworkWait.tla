------------------------------ MODULE NetworkWait ------------------------------
(***************************************************************************)
(* The network wait (ADR 0045; networkwait.go, network_wait.go): a pod     *)
(* that asks for it gets an init container at admission, which holds the   *)
(* app until every node's beacon has accepted a connection, or until the   *)
(* time the pod gave has run out.  A pod that asked and got none is told.  *)
(*                                                                         *)
(* A beacon is an address: the beacon of a node that comes back has a new  *)
(* one.  Time is counted in ticks from the start of the wait; within a     *)
(* tick the program's own steps take no time.                              *)
(***************************************************************************)
EXTENDS Naturals

CONSTANTS
    Beacons,
    MaxWait, Interval, DialTimeout,   \* in ticks
    MaxChanges                        \* bound on the changes to the pod and its namespace

ASSUME TicksAssumption ==
    /\ MaxWait \in Nat \ {0} /\ Interval \in Nat \ {0} /\ DialTimeout \in Nat \ {0}
    /\ MaxChanges \in Nat

VARIABLES
    enabled,     \* the wait is configured (cmd/main.go)
    managed,     \* kube-vnet manages the pod's namespace
    pod,         \* asks: its annotation; hostNetwork; container: the wait's is there
    stage,       \* of the pod: absent, init, or its app is running
    due,         \* the resolution controller will reconcile the pod
    reported,    \* the pod has the NetworkWaitSkipped Event
    changes,
    beacon,      \* each address: not used yet, up, or gone
    programmed,  \* the beacons whose node has the pod's rules
    wait,        \* the init container's state
    elapsed,     \* ticks since it started
    listed       \* history: what the last successful lookup returned

podVars  == <<enabled, managed, pod, stage, due, reported, changes>>
nodeVars == <<beacon, programmed>>
waitVars == <<wait, elapsed, listed>>
wvars    == <<podVars, nodeVars, waitVars>>

Asks == {"nothing", "a positive duration", "something else"}

WaitPod == [asks : Asks, hostNetwork : BOOLEAN, container : BOOLEAN]

(* started: of the round's dials, or of the sleep.                         *)
WaitState == [pc : {"resolve", "dial", "sleep", "released", "expired"},
              current : SUBSET Beacons, accepted : SUBSET Beacons,
              dialing : SUBSET Beacons, started : 0 .. MaxWait]

Up == {b \in Beacons : beacon[b] = "up"}

WInit ==
    /\ enabled \in BOOLEAN /\ managed \in BOOLEAN
    /\ pod \in [asks : Asks, hostNetwork : BOOLEAN, container : {FALSE}]
    /\ stage = "absent" /\ due = FALSE /\ reported = FALSE /\ changes = 0
    /\ beacon \in [Beacons -> {"new", "up"}] /\ programmed = {}
    /\ wait = [pc |-> "resolve", current |-> {}, accepted |-> {}, dialing |-> {}, started |-> 0]
    /\ elapsed = 0 /\ listed = {}

-----------------------------------------------------------------------------
(* The nodes.                                                              *)

Join(b) ==
    /\ beacon[b] = "new" /\ beacon' = [beacon EXCEPT ![b] = "up"]
    /\ UNCHANGED <<programmed, podVars, waitVars>>

Leave(b) ==
    /\ beacon[b] = "up" /\ beacon' = [beacon EXCEPT ![b] = "gone"]
    /\ UNCHANGED <<programmed, podVars, waitVars>>

(* The node's CNI has applied the rules of the pod, which has its address  *)
(* as soon as an init container runs.                                      *)
Program(b) ==
    /\ stage # "absent" /\ b \in Up \ programmed
    /\ programmed' = programmed \cup {b}
    /\ UNCHANGED <<beacon, podVars, waitVars>>

Nodes == \E b \in Beacons : Join(b) \/ Leave(b) \/ Program(b)

-----------------------------------------------------------------------------
(* Who gets the wait, and who is told.                                     *)

asked(o) == o.asks # "nothing" /\ ~o.hostNetwork

(* There is a reason why o, which asks, cannot have the wait.              *)
NetworkWaitWarning(o, isManaged, isEnabled) ==
    asked(o) /\ (~isManaged \/ ~isEnabled \/ o.asks = "something else")

(* Mutant: the created pod is not looked at.                               *)
networkWaitUnseen(o) == FALSE

(* The webhook was not reached, or the annotation came later.              *)
networkWaitMissing(o) == asked(o) /\ ~o.container

(* The mutator's part, in a managed namespace.                             *)
networkWait(o) ==
    [o EXCEPT !.container = asked(o) /\ ~NetworkWaitWarning(o, TRUE, enabled)]

(* The webhook may be out of reach (failurePolicy Ignore).                 *)
Admit ==
    /\ stage = "absent" /\ stage' = "init" /\ due' = TRUE
    /\ \/ pod' = IF managed THEN networkWait(pod) ELSE pod
       \/ UNCHANGED pod
    /\ UNCHANGED <<enabled, managed, reported, changes, nodeVars, waitVars>>

Change ==
    /\ stage # "absent" /\ due' = TRUE
    /\ changes < MaxChanges /\ changes' = changes + 1
    /\ UNCHANGED <<enabled, stage, reported, nodeVars, waitVars>>

(* The annotation can change, the containers cannot.                       *)
Annotate ==
    /\ \E a \in Asks \ {pod.asks} : pod' = [pod EXCEPT !.asks = a]
    /\ UNCHANGED managed /\ Change

ManageNamespace == managed' = ~managed /\ UNCHANGED pod /\ Change

(* The resolution controller's part (the rest is in Resolution).           *)
ReportSkipped ==
    /\ due /\ due' = FALSE
    /\ reported' = \/ reported
                   \/ NetworkWaitWarning(pod, managed, enabled)
                   \/ managed /\ enabled /\ networkWaitMissing(pod)
    /\ UNCHANGED <<enabled, managed, pod, stage, changes, nodeVars, waitVars>>

-----------------------------------------------------------------------------
(* Wait.                                                                   *)

Waiting == stage = "init" /\ pod.container /\ wait.pc \notin {"released", "expired"}

Expired == elapsed >= MaxWait

Goes(w) == wait' = w /\ UNCHANGED <<elapsed, podVars, nodeVars>>

notIn(addrs, accepted) == addrs \ accepted

Dialling(addrs) ==
    [wait EXCEPT !.pc = "dial", !.current = addrs, !.dialing = notIn(addrs, wait.accepted),
                 !.started = elapsed]

(* Mutant: a lookup that fails leaves no addresses.                        *)
ResolveFailsEmptying == Waiting /\ wait.pc = "resolve" /\ Goes(Dialling({})) /\ UNCHANGED listed

(* A lookup that fails, or finds nothing, leaves the addresses as they are.*)
ResolveFails ==
    /\ Waiting /\ wait.pc = "resolve"
    /\ Goes(Dialling(wait.current)) /\ UNCHANGED listed

Resolve ==
    /\ Waiting /\ wait.pc = "resolve" /\ ~Expired /\ Up # {}
    /\ Goes(Dialling(Up)) /\ listed' = Up

(* One goroutine per beacon.  A node rejects a pod it has no rules for.    *)
Accept(b) ==
    /\ Waiting /\ wait.pc = "dial" /\ b \in wait.dialing
    /\ b \in Up \cap programmed /\ ~Expired
    /\ Goes([wait EXCEPT !.accepted = @ \cup {b}, !.dialing = @ \ {b}])
    /\ UNCHANGED listed

(* Rejected, lost, or out of time.                                         *)
DialFails(b) ==
    /\ Waiting /\ wait.pc = "dial" /\ b \in wait.dialing
    /\ Goes([wait EXCEPT !.dialing = @ \ {b}])
    /\ UNCHANGED listed

(* Mutant: no beacon is taken for no beacon left.                          *)
NonePending(w) == notIn(w.current, w.accepted) = {}

AllAccepted(w) == w.current # {} /\ notIn(w.current, w.accepted) = {}

(* All dials are back.                                                     *)
Check ==
    /\ Waiting /\ wait.pc = "dial" /\ wait.dialing = {}
    /\ Goes([wait EXCEPT !.pc = IF AllAccepted(wait) THEN "released" ELSE "sleep",
                         !.started = elapsed])
    /\ UNCHANGED listed

Expire ==
    /\ Waiting /\ wait.pc = "sleep" /\ Expired
    /\ Goes([wait EXCEPT !.pc = "expired"]) /\ UNCHANGED listed

(* Mutant: the interval is waited for out of time, too.                    *)
AgainRegardless ==
    /\ Waiting /\ wait.pc = "sleep"
    /\ elapsed >= wait.started + Interval \/ Expired
    /\ Goes([wait EXCEPT !.pc = "resolve"]) /\ UNCHANGED listed

(* A select takes either of two channels that are ready.                   *)
Again ==
    /\ Waiting /\ wait.pc = "sleep" /\ elapsed >= wait.started + Interval
    /\ Goes([wait EXCEPT !.pc = "resolve"]) /\ UNCHANGED listed

Passes(phases) ==
    /\ Waiting /\ wait.pc \in phases
    /\ wait.pc = "dial"  => wait.dialing # {} /\ elapsed < wait.started + DialTimeout
    /\ wait.pc = "sleep" => elapsed < wait.started + Interval
    /\ elapsed' = elapsed + 1
    /\ UNCHANGED <<wait, listed, podVars, nodeVars>>

(* Mutant: the dials do not have the wait's deadline.                      *)
TickUnderDials ==
    \/ Passes({"resolve", "sleep"}) /\ ~Expired
    \/ Passes({"dial"})

(* Time passes while a lookup, a dial or the sleep lasts; the deadline of  *)
(* the wait's context ends each of them.                                   *)
Tick == Passes({"resolve", "dial", "sleep"}) /\ ~Expired

(* The wait exits 0 in any case, and the pod's containers start.           *)
StartApp ==
    /\ stage = "init" /\ ~Waiting /\ stage' = "running"
    /\ UNCHANGED <<enabled, managed, pod, due, reported, changes, nodeVars, waitVars>>

Dials == \E b \in Beacons : Accept(b) \/ DialFails(b)

Wait == ResolveFails \/ Resolve \/ Dials \/ Check \/ Expire \/ Again \/ Tick

WNext == Nodes \/ Admit \/ Annotate \/ ManageNamespace \/ ReportSkipped \/ Wait \/ StartApp

WSpec == WInit /\ [][WNext]_wvars

(* The container and the clock run, the kubelet starts the app.  Nothing   *)
(* is assumed of the nodes, the lookups and the dials: they may all fail.  *)
WFairSpec == WSpec /\ WF_wvars(Wait) /\ WF_wvars(StartApp)

-----------------------------------------------------------------------------
(* Properties.                                                             *)

(* Every variable has its type; the wait's time is within its maximum.     *)
WTypeOK ==
    /\ enabled \in BOOLEAN /\ managed \in BOOLEAN /\ pod \in WaitPod
    /\ stage \in {"absent", "init", "running"} /\ due \in BOOLEAN /\ reported \in BOOLEAN
    /\ changes \in 0 .. MaxChanges
    /\ beacon \in [Beacons -> {"new", "up", "gone"}] /\ programmed \subseteq Beacons
    /\ wait \in WaitState /\ elapsed \in 0 .. MaxWait /\ listed \subseteq Beacons

(* networkwait.go: "once every beacon accepts, every node has" programmed  *)
(* the pod.  An app released before its time finds every node programmed   *)
(* that the last lookup knew and that is still there; it is never released *)
(* because no beacon was found.                                            *)
ReleasedMeansProgrammed ==
    wait.pc = "released" => listed # {} /\ listed \cap Up \subseteq programmed

(* cmd/networkwait.go: a wait that runs out and names no beacon says that  *)
(* the Service never resolved to any.  So it was.                          *)
NeverResolvedIsTrue ==
    wait.pc = "expired" /\ notIn(wait.current, wait.accepted) = {} => listed = {}

(* "The opt-in never fails silently": a pod that asks, and has no wait     *)
(* container, has the Event once it has been reconciled.                   *)
SkippedWaitsAreReported ==
    stage # "absent" /\ ~due /\ asked(pod) /\ ~pod.container => reported

(* "It never blocks a pod longer than the maximum it was given, and it     *)
(* always lets the pod start", whatever nodes, lookups and dials do.       *)
EveryPodStarts == (stage = "init") ~> (stage = "running")

=============================================================================
