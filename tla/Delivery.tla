------------------------------- MODULE Delivery -------------------------------
(***************************************************************************)
(* What the consuming side of the service promises, without readers,       *)
(* offsets, rebalances, transactions and processes: in each partition a    *)
(* message is met when the fate of every earlier one is known; it is       *)
(* handled or has failed, perhaps both, perhaps again and again; and the   *)
(* work on its event is committed once, before it counts as handled.       *)
(* TopicConsumer implements this; Pipeline uses it in its place.           *)
(***************************************************************************)
EXTENDS Naturals, Sequences

CONSTANTS
    Groups,     \* consumer groups, each with a topic of its own
    Partitions,
    EventIds,
    NoEventId,  \* the empty event_id of a message from before the migration
    Garbage     \* the "schema" of a message no decoder accepts

VARIABLES
    log,     \* log[g][p]: messages, records with an event and a schema
    handled, \* <<g, p, o>>: the handler has returned nil for the message at offset o
    failed,  \* <<g, p, o>>: the message has failed to decode or to be handled
    applied  \* applied[<<g, e>>]: how often the work on e is committed

vars == <<log, handled, failed, applied>>

Init ==
    /\ log = [g \in Groups |-> [p \in Partitions |-> <<>>]]
    /\ handled = {} /\ failed = {}
    /\ applied = [k \in Groups \X EventIds |-> 0]

Message(g, p, o) == log[g][p][o + 1]

\* It is the turn of the message at offset o, or its turn has come before.
Met(g, p, o) ==
    /\ o < Len(log[g][p])
    /\ \A below \in 0 .. o - 1 : <<g, p, below>> \in handled \union failed

\* Messages are only appended.
Grow ==
    /\ \A g \in Groups, p \in Partitions :
          /\ Len(log'[g][p]) >= Len(log[g][p])
          /\ SubSeq(log'[g][p], 1, Len(log[g][p])) = log[g][p]
    /\ UNCHANGED <<handled, failed, applied>>

\* The message fails. An earlier delivery may have been handled, a later one may be.
Fail(g, p, o) ==
    /\ Met(g, p, o)
    /\ failed' = failed \union {<<g, p, o>>}
    /\ UNCHANGED <<log, handled, applied>>

\* The work on the message's event is committed, though the handler may yet fail.
Apply(g, p, o) ==
    LET k == <<g, Message(g, p, o).event>> IN
    /\ Met(g, p, o)
    /\ Message(g, p, o).schema # Garbage
    /\ Message(g, p, o).event # NoEventId
    /\ applied[k] = 0
    /\ applied' = [applied EXCEPT ![k] = 1]
    /\ UNCHANGED <<log, handled, failed>>

\* The handler returns nil; without an id, nothing is known of the work.
Handle(g, p, o) ==
    /\ Met(g, p, o)
    /\ Message(g, p, o).schema # Garbage
    /\ Message(g, p, o).event # NoEventId => applied[<<g, Message(g, p, o).event>>] = 1
    /\ handled' = handled \union {<<g, p, o>>}
    /\ UNCHANGED <<log, failed, applied>>

Offsets(g, p) == 0 .. Len(log[g][p]) - 1

Next ==
    \/ Grow
    \/ \E g \in Groups, p \in Partitions : \E o \in Offsets(g, p) :
          Fail(g, p, o) \/ Apply(g, p, o) \/ Handle(g, p, o)

Spec == Init /\ [][Next]_vars
===============================================================================
