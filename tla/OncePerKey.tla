------------------------------ MODULE OncePerKey ------------------------------
(***************************************************************************)
(* What the dedup wrapper of internal/kafka/idempotent_handler.go promises *)
(* to the consume loop, without the database: callers ask for an event to  *)
(* be handled, the work on an event becomes durable at most once and only  *)
(* after a run of the work has succeeded, and a caller is told "nil" only  *)
(* when the work on its event is durable.                                  *)
(***************************************************************************)
EXTENDS Naturals

CONSTANTS
    Workers,   \* the callers; each has at most one call open
    Keys,      \* the dedup keys (consumer group, topic, event id)
    NoKey      \* the key of an event without an event id, which is not deduplicated

VARIABLES
    succeeded, \* keys on which some run of the work has succeeded
    effects,   \* effects[k]: how many times the work on k became durable
    status,    \* status[w]: "idle", "busy", or the answer "nil" or "error"
    asked      \* asked[w]: the key of w's open call

vars == <<succeeded, effects, status, asked>>

Init ==
    /\ succeeded = {}
    /\ effects = [k \in Keys |-> 0]
    /\ status = [w \in Workers |-> "idle"]
    /\ asked = [w \in Workers |-> NoKey]

Ask(w, k) ==
    /\ status[w] = "idle"
    /\ status' = [status EXCEPT ![w] = "busy"]
    /\ asked' = [asked EXCEPT ![w] = k]
    /\ UNCHANGED <<succeeded, effects>>

\* A run of the work succeeds; nothing is durable yet.
Succeed(k) ==
    /\ succeeded' = succeeded \union {k}
    /\ UNCHANGED <<effects, status, asked>>

\* The work on k becomes durable, the only time it ever does. The caller that
\* asked for it may be told in the same step, or may be long gone.
Apply(k) ==
    /\ k \in succeeded
    /\ effects[k] = 0
    /\ effects' = [effects EXCEPT ![k] = 1]
    /\ UNCHANGED <<succeeded, asked>>
    /\ \/ UNCHANGED status
       \/ \E w \in Workers :
             /\ status[w] = "busy" /\ asked[w] = k
             /\ status' = [status EXCEPT ![w] = "nil"]

AnswerNil(w) ==
    /\ status[w] = "busy"
    /\ asked[w] \in Keys => effects[asked[w]] = 1
    /\ status' = [status EXCEPT ![w] = "nil"]
    /\ UNCHANGED <<succeeded, effects, asked>>

AnswerError(w) ==
    /\ status[w] = "busy"
    /\ status' = [status EXCEPT ![w] = "error"]
    /\ UNCHANGED <<succeeded, effects, asked>>

\* Callers take their answers, or die with their calls open: one of them, or
\* all those of a process at once.
Leave(ws) ==
    /\ status' = [w \in Workers |-> IF w \in ws THEN "idle" ELSE status[w]]
    /\ asked' = [w \in Workers |-> IF w \in ws THEN NoKey ELSE asked[w]]
    /\ UNCHANGED <<succeeded, effects>>

Next ==
    \/ \E w \in Workers : \/ \E k \in Keys \union {NoKey} : Ask(w, k)
                          \/ AnswerNil(w)
                          \/ AnswerError(w)
    \/ \E ws \in SUBSET Workers : Leave(ws)
    \/ \E k \in Keys : Succeed(k) \/ Apply(k)

Spec == Init /\ [][Next]_vars
===============================================================================
