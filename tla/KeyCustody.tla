----------------------------- MODULE KeyCustody -----------------------------
(***************************************************************************)
(* What the certificate programs promise about the app registration and    *)
(* the certificate in service, whichever of them runs, whatever files they *)
(* move and whenever they die.  The relay adds one key at a time; it takes *)
(* off only keys that never served or whose grace is over, and never the   *)
(* one that serves; a certificate takes over once, when Entra has it, or   *)
(* fills a place that is empty; people are asked to upload one that serves *)
(* or has yet to.  The rest is done by people.                             *)
(***************************************************************************)
CONSTANTS
    Certs,          \* this instance's certificates, each with its key
    Foreign,        \* keys of other instances
    None

VARIABLES
    registered,     \* keys on the app registration and not going
    serving,        \* the certificate of the live pair, None while it has none
    asked,          \* the certificate people are asked to upload, or None
    past,           \* certificates that serve or have served
    over,           \* those of them whose grace days are over
    lost,           \* keys that were added and that nobody has on record
    deleted         \* keys an administrator took away

custody == <<registered, serving, asked, past, over, lost, deleted>>

\* Keys that were added to serve and have not served yet.
Unused == (registered \cap Certs) \ (past \cup lost)

Init ==
    \E c \in Certs :
        /\ registered = {c} \cup Foreign
        /\ serving = c /\ past = {c}
        /\ asked = None
        /\ over = {} /\ lost = {} /\ deleted = {}

\* The relay adds a key, and may die before it has noted it, at once or later;
\* or it may drop its note of a key that only seems to be gone.
Add(c) ==
    /\ c \notin registered \cup past /\ Unused = {}
    /\ registered' = registered \cup {c}
    /\ lost' \in {lost, lost \cup {c}}
    /\ UNCHANGED <<serving, asked, past, over, deleted>>

Lose(c) ==
    /\ c \in (registered \cup deleted) \ past
    /\ lost' = lost \cup {c}
    /\ UNCHANGED <<registered, serving, asked, past, over, deleted>>

\* A key that will not serve is taken off.
GiveUp(c) ==
    /\ c \notin past
    /\ registered' = registered \ {c}
    /\ UNCHANGED <<serving, asked, past, over, lost, deleted>>

\* A key that has served and been replaced is taken off.
Retire(c) ==
    /\ c \in over /\ c # serving
    /\ registered' = registered \ {c}
    /\ UNCHANGED <<serving, asked, past, over, lost, deleted>>

\* A certificate takes over.
Adopt(c) ==
    /\ c \in (registered \cup deleted) \ past
    /\ serving' = c
    /\ past' = past \cup {c}
    /\ UNCHANGED <<registered, asked, over, lost, deleted>>

\* A reset sets the live pair aside, and a swap that is cut short loses it.
Vacate ==
    /\ serving # None
    /\ serving' = None
    /\ UNCHANGED <<registered, asked, past, over, lost, deleted>>

\* A new certificate, not uploaded yet, fills the empty place.
Fill(c) ==
    /\ serving = None
    /\ c \notin registered \cup past
    /\ serving' = c
    /\ past' = past \cup {c}
    /\ asked' \in {asked, c}
    /\ UNCHANGED <<registered, over, lost, deleted>>

\* The request to the operator, and its end.
Ask(c) ==
    /\ c = serving \/ c \notin registered \cup past
    /\ asked' = c
    /\ UNCHANGED <<registered, serving, past, over, lost, deleted>>

Withdraw ==
    /\ asked' = None
    /\ UNCHANGED <<registered, serving, past, over, lost, deleted>>

\* People and time.
Upload(c) ==
    /\ c \notin registered
    /\ c = asked \/ c \in deleted
    /\ registered' = registered \cup {c}
    /\ deleted' = deleted \ {c}
    /\ UNCHANGED <<serving, asked, past, over, lost>>

Delete(c) ==
    /\ c \in registered
    /\ registered' = registered \ {c}
    /\ deleted' = deleted \cup {c}
    /\ UNCHANGED <<serving, asked, past, over, lost>>

GraceEnds(c) ==
    /\ c \in past \ {serving}
    /\ over' = over \cup {c}
    /\ UNCHANGED <<registered, serving, asked, past, lost, deleted>>

Next ==
    \/ \E c \in Certs :
        \/ Add(c) \/ Lose(c) \/ GiveUp(c) \/ Retire(c)
        \/ Adopt(c) \/ Fill(c) \/ Ask(c)
        \/ Upload(c) \/ Delete(c) \/ GraceEnds(c)
    \/ Vacate \/ Withdraw

Spec == Init /\ [][Next]_custody
=============================================================================
