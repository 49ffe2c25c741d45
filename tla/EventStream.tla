----------------------------- MODULE EventStream -----------------------------
(***************************************************************************)
(* The event streams of stream_routes.cpp and the places they lease from   *)
(* the runtime (service_runtime.cpp).                                      *)
(*                                                                         *)
(* A place is a count, taken and given back by compare-and-exchange loops  *)
(* on several event-loop threads; whoever holds it changes several times:  *)
(* the handler, then nobody while the framework has the response, then a   *)
(* StreamPump owned by a queued call and later by its own timer.  What one *)
(* connection does is sequential, on its loop; connections interleave.     *)
(* A request that asks for the connection to be closed gets one snapshot   *)
(* and no place, and is left out.                                          *)
(***************************************************************************)
EXTENDS Naturals, FiniteSets

CONSTANTS
  Clients,     \* the connections that ask for events
  MaxClients   \* kMaximumSseClients

ASSUME StreamAssumption ==
  /\ IsFiniteSet(Clients)
  /\ MaxClients \in Nat \ {0}

VARIABLES
  sse_clients,  \* sse_clients_
  stage,        \* how far the stream of each connection is
  seen,         \* the count its compare-and-exchange expects
  released,     \* released_ of its pump
  gone          \* whether the client has disconnected

stream_vars == <<sse_clients, stage, seen, released, gone>>

(* "away"        no request, or one that has been answered without stream  *)
(* "acquiring"   in the loop of acquire_sse_client                         *)
(* "admitted"    the handler holds a place and builds the response         *)
(* "responded"   the framework has the response, with its stream callback  *)
(* "lost"        the framework has dropped the response                    *)
(* "queued"      start() of the pump is queued in its loop                 *)
(* "streaming"   the timer of the pump runs                                *)
(* "stopping"    stop() has closed the stream and is to release            *)
(* "destroying"  the destructor is to release                              *)
(* "giving_up"   a catch block without a pump is to release                *)
(* "releasing_then_destroy", "releasing_then_away"                         *)
(*               in the loop of release_sse_client                         *)
Releasing == {"releasing_then_destroy", "releasing_then_away"}

Goto(c, s) == stage' = [stage EXCEPT ![c] = s]

StreamInit ==
  /\ sse_clients = 0
  /\ stage = [c \in Clients |-> "away"]
  /\ seen = [c \in Clients |-> 0]
  /\ released = [c \in Clients |-> FALSE]
  /\ gone = [c \in Clients |-> FALSE]
-----------------------------------------------------------------------------
(* acquire_sse_client: the load, and one turn of its loop.  A weak exchange*)
(* that fails without reason changes nothing.                              *)
Load(c) == seen' = [seen EXCEPT ![c] = sse_clients]
Forget(c) == seen' = [seen EXCEPT ![c] = 0]

Request(c) ==
  /\ stage[c] = "away"
  /\ Goto(c, "acquiring")
  /\ Load(c)
  /\ gone' = [gone EXCEPT ![c] = FALSE]
  /\ UNCHANGED <<sse_clients, released>>

(* 429.                                                                    *)
Refuse(c) ==
  /\ stage[c] = "acquiring"
  /\ seen[c] >= MaxClients
  /\ Goto(c, "away")
  /\ Forget(c)
  /\ UNCHANGED <<sse_clients, released, gone>>

(* Faulty variant: the count is stored, not exchanged.                     *)
AcquireByStore(c) ==
  /\ stage[c] = "acquiring"
  /\ seen[c] < MaxClients
  /\ sse_clients' = seen[c] + 1
  /\ Goto(c, "admitted")
  /\ Forget(c)
  /\ UNCHANGED <<released, gone>>

Acquire(c) ==
  /\ stage[c] = "acquiring"
  /\ seen[c] < MaxClients
  /\ sse_clients = seen[c]
  /\ sse_clients' = seen[c] + 1
  /\ Goto(c, "admitted")
  /\ Forget(c)
  /\ UNCHANGED <<released, gone>>

AcquireRetries(c) ==
  /\ stage[c] = "acquiring"
  /\ seen[c] < MaxClients
  /\ sse_clients # seen[c]
  /\ Load(c)
  /\ UNCHANGED <<sse_clients, stage, released, gone>>
-----------------------------------------------------------------------------
(* The handler and the stream callback.                                    *)
Respond(c) ==
  /\ stage[c] = "admitted"
  /\ Goto(c, "responded")
  /\ UNCHANGED <<sse_clients, seen, released, gone>>

(* The response cannot be made: 500.                                       *)
RespondFails(c) ==
  /\ stage[c] = "admitted"
  /\ Goto(c, "giving_up")
  /\ UNCHANGED <<sse_clients, seen, released, gone>>

(* The framework finds the connection closed and never calls the callback. *)
ResponseDropped(c) ==
  /\ stage[c] = "responded"
  /\ gone[c]
  /\ Goto(c, "lost")
  /\ UNCHANGED <<sse_clients, seen, released, gone>>

PumpCannotBeMade(c) ==
  /\ stage[c] = "responded"
  /\ Goto(c, "giving_up")
  /\ UNCHANGED <<sse_clients, seen, released, gone>>

(* The pump is made, and its start is queued; without a loop, or when the  *)
(* call cannot be queued, its owner destroys it.                           *)
PumpIsMade(c) ==
  /\ stage[c] = "responded"
  /\ released' = [released EXCEPT ![c] = FALSE]
  /\ Goto(c, "queued") \/ Goto(c, "destroying")
  /\ UNCHANGED <<sse_clients, seen, gone>>
-----------------------------------------------------------------------------
(* StreamPump.  A snapshot that is sent changes nothing more; one is not   *)
(* sent when the client is gone or telemetry() throws.                     *)
StartPump(c) ==
  /\ stage[c] = "queued"
  /\ ~gone[c]
  /\ Goto(c, "streaming")
  /\ UNCHANGED <<sse_clients, seen, released, gone>>

(* Faulty variant: what send_snapshot returns is looked at in start only.  *)
SendFailsAtStart(c) ==
  /\ stage[c] = "queued"
  /\ Goto(c, "stopping")
  /\ UNCHANGED <<sse_clients, seen, released, gone>>

(* start() or the timer stops the pump.                                    *)
SendFails(c) ==
  /\ stage[c] \in {"queued", "streaming"}
  /\ Goto(c, "stopping")
  /\ UNCHANGED <<sse_clients, seen, released, gone>>

(* release(), called by stop() and by the destructor: whoever exchanges    *)
(* released_ first goes on.                                                *)
BeginRelease(c) ==
  /\ stage[c] \in {"stopping", "destroying"}
  /\ ~released[c]
  /\ released' = [released EXCEPT ![c] = TRUE]
  /\ Goto(c, IF stage[c] = "stopping" THEN "releasing_then_destroy" ELSE "releasing_then_away")
  /\ Load(c)
  /\ UNCHANGED <<sse_clients, gone>>

(* The destructor of a pump that was stopped.                              *)
SkipRelease(c) ==
  /\ stage[c] = "destroying"
  /\ released[c]
  /\ Goto(c, "away")
  /\ UNCHANGED <<sse_clients, seen, released, gone>>

GiveUp(c) ==
  /\ stage[c] = "giving_up"
  /\ Goto(c, "releasing_then_away")
  /\ Load(c)
  /\ UNCHANGED <<sse_clients, released, gone>>

AfterRelease(c) == IF stage[c] = "releasing_then_destroy" THEN "destroying" ELSE "away"

(* release_sse_client: one turn of its loop; a count of zero stays zero.   *)
Release(c) ==
  /\ stage[c] \in Releasing
  /\ sse_clients = seen[c]
  /\ sse_clients' = IF seen[c] = 0 THEN 0 ELSE seen[c] - 1
  /\ Goto(c, AfterRelease(c))
  /\ Forget(c)
  /\ UNCHANGED <<released, gone>>

ReleaseRetries(c) ==
  /\ stage[c] \in Releasing
  /\ sse_clients # seen[c]
  /\ Load(c)
  /\ UNCHANGED <<sse_clients, stage, released, gone>>

(* The client disconnects.                                                 *)
Disconnect(c) ==
  /\ stage[c] # "away"
  /\ ~gone[c]
  /\ gone' = [gone EXCEPT ![c] = TRUE]
  /\ UNCHANGED <<sse_clients, stage, seen, released>>

(* What the loop does for a connection that has reached its pump or a      *)
(* catch block: it gives the place back, or finds out that it must.        *)
Wind(c) ==
  \/ BeginRelease(c) \/ SkipRelease(c) \/ GiveUp(c) \/ Release(c) \/ ReleaseRetries(c)

StreamNext ==
  \E c \in Clients :
    \/ Request(c) \/ Refuse(c) \/ Acquire(c) \/ AcquireRetries(c)
    \/ Respond(c) \/ RespondFails(c) \/ ResponseDropped(c)
    \/ PumpCannotBeMade(c) \/ PumpIsMade(c) \/ StartPump(c) \/ SendFails(c)
    \/ Wind(c) \/ Disconnect(c)

StreamSpec == StreamInit /\ [][StreamNext]_stream_vars

(* The loops run what is queued and the timer that is due: they try to     *)
(* send to a client that is gone.  The exchange loop is lock-free, not     *)
(* wait-free: that it ends takes strong fairness, for an exchange that is  *)
(* possible again and again.                                               *)
FairStreamSpec ==
  /\ StreamSpec
  /\ \A c \in Clients : /\ WF_stream_vars(gone[c] /\ SendFails(c))
                        /\ WF_stream_vars(Wind(c))
                        /\ SF_stream_vars(Release(c))
-----------------------------------------------------------------------------
(* The connections that have taken a place and not given it back.          *)
Holders ==
  {c \in Clients :
     \/ stage[c] \in {"admitted", "responded", "lost", "queued", "streaming", "giving_up"}
     \/ stage[c] \in {"stopping", "destroying"} /\ ~released[c]
     \/ stage[c] \in Releasing}

(* The places add up: however the threads interleave and whichever path a  *)
(* stream ends by, no place is given back twice, the count is that of the  *)
(* places taken, and the limit is kept.  A dropped response keeps its      *)
(* place for good (stage "lost").                                          *)
LeasesBalanced == sse_clients = Cardinality(Holders) /\ sse_clients <= MaxClients

(* A client that goes away while its pump exists gives its place back.     *)
LeaseComesBack ==
  \A c \in Clients : stage[c] \in {"queued", "streaming"} /\ gone[c] ~> c \notin Holders
=============================================================================
