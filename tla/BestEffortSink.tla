--------------------------- MODULE BestEffortSink ---------------------------
(***************************************************************************)
(* What an output of the forwarder promises to the workers that feed it.   *)
(* An accepted event waits in a bounded queue, is taken in order, held     *)
(* with the others of its batch, and settled once: received downstream or  *)
(* lost, never retried.  The sink leaves when a shutdown is requested or   *)
(* when its queue is empty and no worker is left to fill it; it settles    *)
(* what it holds on the way out, and what is queued then is stranded.      *)
(*                                                                         *)
(* The sender modules implement this one; the run modules use its actions  *)
(* in place of a sender.                                                   *)
(***************************************************************************)
EXTENDS Naturals, Sequences, SequencesExt

CONSTANTS
    Events,         \* what workers put in the queue
    QueueCap        \* capacity of the channel

VARIABLES
    connected,      \* input: some worker can still fill the queue
    shutdown,       \* input: a shutdown has been requested
    queue,          \* the channel, oldest first
    held,           \* taken from the queue and not settled
    received,       \* received downstream, in order
    lost,           \* taken and then lost
    stranded,       \* still queued when the sink stopped
    phase           \* "running", "leaving" or "stopped"

inputs == <<connected, shutdown>>
sinkVars == <<queue, held, received, lost, stranded, phase>>

SinkInit ==
    /\ queue = <<>>
    /\ held = <<>>
    /\ received = <<>>
    /\ lost = {}
    /\ stranded = {}
    /\ phase = "running"

\* try_send fails on a full queue and on one whose sink has stopped.
Accepts == phase # "stopped" /\ Len(queue) < QueueCap

Accept(e) ==
    /\ Accepts
    /\ queue' = Append(queue, e)
    /\ UNCHANGED <<held, received, lost, stranded, phase>>

Take ==
    /\ phase = "running"
    /\ queue # <<>>
    /\ held' = Append(held, Head(queue))
    /\ queue' = Tail(queue)
    /\ UNCHANGED <<received, lost, stranded, phase>>

\* A batch arrives whole, not at all, or up to the point where it was cut.
Settle ==
    /\ held # <<>>
    /\ \E k \in 0..Len(held) :
          /\ received' = received \o SubSeq(held, 1, k)
          /\ lost' = lost \cup {held[i] : i \in (k + 1)..Len(held)}
    /\ held' = <<>>
    /\ UNCHANGED <<queue, stranded, phase>>

Leave ==
    /\ phase = "running"
    /\ shutdown \/ (~connected /\ queue = <<>>)
    /\ phase' = "leaving"
    /\ UNCHANGED <<queue, held, received, lost, stranded>>

Stop ==
    /\ phase = "leaving"
    /\ held = <<>>
    /\ phase' = "stopped"
    /\ stranded' = Range(queue)
    /\ queue' = <<>>
    /\ UNCHANGED <<held, received, lost>>

Sink == Take \/ Settle \/ Leave \/ Stop

-----------------------------------------------------------------------------
(* The promise as a specification of its own: workers come and go and a    *)
(* shutdown may be requested at any time.                                  *)

Init == SinkInit /\ connected = TRUE /\ shutdown = FALSE

Worker == connected /\ (\E e \in Events : Accept(e)) /\ UNCHANGED inputs

\* Workers leave and a shutdown is requested for good.
Outside ==
    /\ connected' => connected
    /\ shutdown => shutdown'
    /\ UNCHANGED sinkVars

Next == Worker \/ (Sink /\ UNCHANGED inputs) \/ Outside

\* The promise without what must happen in the end.
Safety == Init /\ [][Next]_<<inputs, sinkVars>>

\* An event neither stays queued nor is held forever, and the sink goes away
\* once there is nothing left to do.
Fairness ==
    LET step(A) == A /\ UNCHANGED inputs
        all == <<inputs, sinkVars>>
    IN  /\ WF_all(step(Take))
        /\ WF_all(step(Settle))
        /\ WF_all(step(~connected /\ Leave))
        /\ WF_all(step(Stop))

Spec == Safety /\ Fairness
=============================================================================
