-------------------------- MODULE ServiceLifecycle --------------------------
(***************************************************************************)
(* The four lifecycle machines (service, source, provider, store), the     *)
(* start of the runtime and its shutdown.                                  *)
(*                                                                         *)
(* A transition is one step, taken under the machine's own mutex, so that  *)
(* requests that are still being drained move the machines between any two *)
(* of them.  Whoever extends this module adds those requests, and says     *)
(* when the workers can be joined.                                         *)
(***************************************************************************)
EXTENDS Naturals, Sequences

CONSTANTS
  StoreConfigured,     \* whether a store file is configured
  ProviderConfigured   \* whether a provider URL is configured

ASSUME LifecycleAssumption ==
  /\ StoreConfigured \in BOOLEAN
  /\ ProviderConfigured \in BOOLEAN

VARIABLES
  machine,  \* the state of each lifecycle machine
  phase,    \* where start() or shutdown() is
  step      \* the statement of shutdown() that is next, 0 before it

lifecycle_vars == <<machine, phase, step>>

States == {"disabled", "starting", "ready", "paused", "degraded", "stopping",
           "stopped", "failed"}
Order == <<"service", "source", "provider", "store">>
Machines == {"service", "source", "provider", "store"}
Phases == {"created", "loaded", "opened", "serving", "failed", "stopping",
           "aborted", "stopped"}
Joining == 5

Successors ==
  [disabled |-> {"starting", "stopping", "stopped"},
   starting |-> {"ready", "degraded", "failed", "stopping"},
   ready    |-> {"paused", "degraded", "failed", "stopping"},
   paused   |-> {"ready", "degraded", "failed", "stopping"},
   degraded |-> {"ready", "paused", "failed", "stopping"},
   failed   |-> {"starting", "stopping"},
   stopping |-> {"stopped", "failed"},
   stopped  |-> {}]

(* Faulty variant: a degraded machine does not recover.                    *)
DegradedStays(current, next) ==
  \/ current = next
  \/ next \in Successors[current] /\ <<current, next>> # <<"degraded", "ready">>

(* Faulty variant: a machine that is stopping may come up again.           *)
StoppingReturns(current, next) ==
  \/ current = next
  \/ next \in Successors[current]
  \/ current = "stopping" /\ next \in {"ready", "degraded"}

Allowed(current, next) == current = next \/ next \in Successors[current]

CanMove(m, next) == Allowed(machine[m], next)

LifecycleInit ==
  /\ machine = [m \in Machines |-> IF m = "store" THEN "disabled" ELSE "starting"]
  /\ phase = "created"
  /\ step = 0
-----------------------------------------------------------------------------
(* start(): whichever statement throws, main leaves it to the destructor   *)
(* to shut down what there is.                                             *)
StartModel ==
  /\ phase = "created"
  /\ \/ phase' = "failed" /\ UNCHANGED machine
     \/ /\ phase' = "loaded"
        /\ machine' = IF StoreConfigured
                      THEN [machine EXCEPT !["store"] = "starting"] ELSE machine
  /\ UNCHANGED step

StartStore ==
  /\ phase = "loaded"
  /\ IF StoreConfigured
     THEN \/ phase' = "opened" /\ machine' = [machine EXCEPT !["store"] = "ready"]
          \/ phase' = "failed" /\ machine' = [machine EXCEPT !["store"] = "failed"]
     ELSE phase' = "opened" /\ UNCHANGED machine
  /\ UNCHANGED step

(* The service_start record is the last thing that may throw, with the     *)
(* service already announced as ready.                                     *)
StartServing ==
  /\ phase = "opened"
  /\ machine' = [machine EXCEPT !["source"] = "degraded",
                                !["provider"] = IF ProviderConfigured THEN @ ELSE "ready",
                                !["service"] = "ready"]
  /\ phase' \in {"serving"} \cup (IF StoreConfigured THEN {"failed"} ELSE {})
  /\ UNCHANGED step
-----------------------------------------------------------------------------
BeginShutdown ==
  /\ phase \in {"serving", "failed"}
  /\ phase' = "stopping"
  /\ step' = 1
  /\ UNCHANGED machine

(* A transition that the table forbids throws out of shutdown().           *)
ShutdownMoves(m, next) ==
  IF CanMove(m, next)
  THEN machine' = [machine EXCEPT ![m] = next] /\ step' = step + 1 /\ UNCHANGED phase
  ELSE phase' = "aborted" /\ UNCHANGED <<machine, step>>

ShutdownSkips == step' = step + 1 /\ UNCHANGED <<machine, phase>>

AnnounceStopping ==
  /\ phase = "stopping"
  /\ step < Joining
  /\ LET m == Order[step]
     IN IF m = "store" /\ machine[m] \in {"disabled", "failed"}
        THEN ShutdownSkips
        ELSE ShutdownMoves(m, "stopping")

(* The watcher and the two pools are joined, the logger drained.           *)
JoinWorkers ==
  /\ phase = "stopping"
  /\ step = Joining
  /\ step' = step + 1
  /\ UNCHANGED <<machine, phase>>

AnnounceStopped ==
  /\ phase = "stopping"
  /\ step \in Joining + 1 .. Joining + 4
  /\ LET m == Order[step - Joining]
     IN IF m = "store" /\ machine[m] # "stopping"
        THEN ShutdownSkips
        ELSE ShutdownMoves(m, "stopped")

ShutdownReturns ==
  /\ phase = "stopping"
  /\ step = Joining + 5
  /\ phase' = "stopped"
  /\ UNCHANGED <<machine, step>>

LifecycleStep ==
  \/ StartModel \/ StartStore \/ StartServing
  \/ BeginShutdown \/ AnnounceStopping \/ AnnounceStopped \/ ShutdownReturns

(* Jobs run until the pools are joined, those admitted before a shutdown   *)
(* while it is under way; the event loop has stopped by then.              *)
Serving == phase = "serving"
JobsRun == phase = "serving" \/ (phase = "stopping" /\ step <= Joining)
-----------------------------------------------------------------------------
LifecycleTypeOK ==
  /\ machine \in [Machines -> States]
  /\ phase \in Phases
  /\ step \in 0 .. Joining + 5

StoreSkipped(m) == IF m = "store" THEN {"disabled", "failed"} ELSE {}

(* Whatever start() had reached, and whatever the drained requests do in   *)
(* between, no transition of shutdown() is illegal: it runs in a           *)
(* destructor, which must not throw.  It leaves every machine stopped,     *)
(* except a store that was never configured or did not open.               *)
ShutdownIsOrderly ==
  /\ phase # "aborted"
  /\ phase = "stopped" =>
       \A m \in Machines : machine[m] \in {"stopped"} \cup StoreSkipped(m)

(* What makes this inductive: statement i of shutdown() finds machine i    *)
(* not stopped, leaves it stopping until statement i after the joins, and  *)
(* stopped from then on; nobody else can move it on.                       *)
ShutdownInOrder ==
  /\ phase \notin {"stopping", "stopped"} => \A m \in Machines : machine[m] # "stopped"
  /\ phase = "stopping" =>
       /\ step >= 1
       /\ \A i \in 1..4 :
            /\ step <= i => machine[Order[i]] # "stopped"
            /\ (i < step /\ step <= Joining + i) =>
                 machine[Order[i]] \in {"stopping"} \cup StoreSkipped(Order[i])
            /\ step > Joining + i =>
                 machine[Order[i]] \in {"stopped"} \cup StoreSkipped(Order[i])
=============================================================================
