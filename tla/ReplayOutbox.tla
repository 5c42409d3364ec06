---------------------------- MODULE ReplayOutbox ----------------------------
(***************************************************************************)
(* What the managed worker's replay store and settlement promise together: *)
(* a message id gets at most one outcome, only that outcome is published,  *)
(* and an input is acknowledged only once its outcome has been published.  *)
(***************************************************************************)
CONSTANTS Msg, Key, KeyOf, Body, BodyOf, Outcome, None

VARIABLES
    decided, \* the durable outcome of each key, with the body it belongs to
    seen,    \* results on the result subject
    acked    \* inputs the broker has forgotten

outbox == <<decided, seen, acked>>

Undecided == [body |-> None, outcome |-> None]

Init ==
    /\ decided = [k \in Key |-> Undecided]
    /\ seen = {}
    /\ acked = {}

Decide(k) ==
    /\ decided[k] = Undecided
    /\ \E b \in Body, o \in Outcome :
         decided' = [decided EXCEPT ![k] = [body |-> b, outcome |-> o]]
    /\ UNCHANGED <<seen, acked>>

Publish(k) ==
    /\ decided[k] # Undecided
    /\ seen' = seen \cup {[key |-> k, body |-> decided[k].body, outcome |-> decided[k].outcome]}
    /\ UNCHANGED <<decided, acked>>

Acknowledge(m) ==
    /\ \E p \in seen : p.key = KeyOf[m] /\ p.body = BodyOf[m]
    /\ acked' = acked \cup {m}
    /\ UNCHANGED <<decided, seen>>

Next ==
    \/ \E k \in Key : Decide(k) \/ Publish(k)
    \/ \E m \in Msg : Acknowledge(m)

Spec == Init /\ [][Next]_outbox
=============================================================================
