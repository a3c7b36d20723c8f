---------------------------- MODULE IncidentBook ----------------------------
(***************************************************************************)
(* What alert-event.py promises to whoever reads the notifications,        *)
(* whatever its callers, its outbox and its channels do: an outage has one *)
(* incident with one reference; its end is announced for that reference    *)
(* and for no other; a reference is never given twice; and what arrives on *)
(* a channel was announced.                                                *)
(***************************************************************************)
CONSTANTS
    Events,         \* alert categories
    Refs,           \* references
    Channels,       \* channels
    None

VARIABLES
    open,           \* per event, the reference of its open incident
    given,          \* per reference, the event it was given for
    announced,      \* notifications decided
    arrived         \* <<notification, channel>> that reached somebody

book == <<open, given, announced, arrived>>

Init ==
    /\ open = [e \in Events |-> None]
    /\ given = [r \in Refs |-> None]
    /\ announced = {} /\ arrived = {}

Give(r, e) ==
    /\ given[r] = None
    /\ given' = [given EXCEPT ![r] = e]

Opened(e, r) ==
    /\ open[e] = None
    /\ Give(r, e)
    /\ open' = [open EXCEPT ![e] = r]
    /\ announced' = announced \cup {<<r, "open">>}
    /\ UNCHANGED arrived

Recovered(e, r) ==
    /\ open[e] = r /\ r # None
    /\ open' = [open EXCEPT ![e] = None]
    /\ announced' = announced \cup {<<r, "recovered">>}
    /\ UNCHANGED <<given, arrived>>

Notified(e, r) ==
    /\ Give(r, e)
    /\ announced' = announced \cup {<<r, "notification">>}
    /\ UNCHANGED <<open, arrived>>

Arrives(n, channel) ==
    /\ n \in announced
    /\ arrived' = arrived \cup {<<n, channel>>}
    /\ UNCHANGED <<open, given, announced>>

Next ==
    \/ \E e \in Events, r \in Refs : Opened(e, r) \/ Recovered(e, r) \/ Notified(e, r)
    \/ \E n \in announced, channel \in Channels : Arrives(n, channel)

Spec == Init /\ [][Next]_book
=============================================================================
