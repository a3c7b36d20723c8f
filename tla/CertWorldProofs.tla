-------------------------- MODULE CertWorldProofs --------------------------
(***************************************************************************)
(* What the programs do to pairs, state records and the registration stays *)
(* of its type, and changes nothing else.                                  *)
(***************************************************************************)
EXTENDS CertWorld, TLAPS

LEMMA SlotValues ==
    /\ None \in Slot
    /\ \A c \in Certs : c \in Slot /\ c # None
    /\ \A k \in Foreign : k \notin Slot
    /\ \A c \in Slot : c # None => c \in Certs
BY NoneIsNoCert, InstancesAreSeparate DEF Slot

LEMMA PairValues ==
    /\ NoPair \in Pair /\ NoPair.key = None /\ NoPair.cert = None
    /\ \A c \in Slot : PairOf(c) \in Pair /\ PairOf(c).key = c /\ PairOf(c).cert = c
    /\ \A p \in Pair : p.key \in Slot /\ p.cert \in Slot
    /\ \A p, q \in Pair : p.key = q.key /\ p.cert = q.cert => p = q
<1>1. NoPair \in Pair /\ NoPair.key = None /\ NoPair.cert = None
  BY SlotValues DEF NoPair, Pair
<1>2. \A c \in Slot : PairOf(c) \in Pair /\ PairOf(c).key = c /\ PairOf(c).cert = c
  BY DEF Pair, PairOf
<1>3. \A p \in Pair : p.key \in Slot /\ p.cert \in Slot
  BY DEF Pair
<1>4. \A p, q \in Pair : p.key = q.key /\ p.cert = q.cert => p = q
  BY DEF Pair
<1> QED BY <1>1, <1>2, <1>3, <1>4

LEMMA PairUpdates ==
    ASSUME NEW p \in Pair, NEW c \in Slot
    PROVE  /\ [p EXCEPT !.key = c] \in Pair
           /\ [p EXCEPT !.key = c].key = c /\ [p EXCEPT !.key = c].cert = p.cert
           /\ [p EXCEPT !.cert = c] \in Pair
           /\ [p EXCEPT !.cert = c].cert = c /\ [p EXCEPT !.cert = c].key = p.key
BY DEF Pair

LEMMA StateValues ==
    /\ NoState \in StateRecord /\ NoState.add = None /\ NoState.rem = None
    /\ NoState.rec = None
    /\ \A s \in StateRecord : s.add \in Slot /\ s.rem \in Slot /\ s.rec \in Slot
<1>1. /\ NoState \in StateRecord /\ NoState.add = None /\ NoState.rem = None
      /\ NoState.rec = None
  BY ThresholdsPositive, SlotValues DEF NoState, StateRecord, NoStamp
<1>2. \A s \in StateRecord : s.add \in Slot /\ s.rem \in Slot /\ s.rec \in Slot
  BY DEF StateRecord
<1> QED BY <1>1, <1>2

LEMMA StateUpdates ==
    ASSUME NEW s \in StateRecord, NEW c \in Slot
    PROVE  /\ [s EXCEPT !.add = c] \in StateRecord
           /\ [s EXCEPT !.add = c].add = c
           /\ [s EXCEPT !.add = c].rem = s.rem
           /\ [s EXCEPT !.rem = c] \in StateRecord
           /\ [s EXCEPT !.rem = c].rem = c
           /\ [s EXCEPT !.rem = c].add = s.add
BY DEF StateRecord

LEMMA TokenValues ==
    \A c \in Slot : /\ [by |-> c, life |-> "full"] \in Token
                    /\ [by |-> c, life |-> "dead"] \in Token
BY DEF Token, Life

\* removeKey, and a directory that settles, change the status of one key.
LEMMA AppUpdates ==
    ASSUME NEW f \in [Certs \cup Foreign -> KeyStatus], NEW k, NEW s \in KeyStatus
    PROVE  /\ [f EXCEPT ![k] = s] \in [Certs \cup Foreign -> KeyStatus]
           /\ \A j \in Certs \cup Foreign : j # k => [f EXCEPT ![k] = s][j] = f[j]
           /\ k \in Certs \cup Foreign => [f EXCEPT ![k] = s][k] = s
OBVIOUS

LEMMA RemovingTyped ==
    ASSUME app \in [Certs \cup Foreign -> KeyStatus], NEW k, Removing(k)
    PROVE  /\ app' \in [Certs \cup Foreign -> KeyStatus]
           /\ \A j \in Certs \cup Foreign : j # k => app'[j] = app[j]
           /\ k \in Certs \cup Foreign =>
                /\ app'[k] \in {"absent", "removing"} \/ app'[k] = app[k]
                /\ app[k] = "absent" => app'[k] = "absent"
BY DEF Removing, KeyStatus

\* The fields that recovery and reset write.
LEMMA RecordUpdates ==
    ASSUME NEW s \in StateRecord, NEW c \in Slot,
           NEW n \in 0 .. NeedStreak, NEW t \in {NoStamp} \cup 0 .. NeedWait
    PROVE  /\ [s EXCEPT !.rec = c] \in StateRecord /\ [s EXCEPT !.rec = c].rec = c
           /\ [s EXCEPT !.streak = n] \in StateRecord /\ [s EXCEPT !.streak = n].rec = s.rec
           /\ [s EXCEPT !.since = t] \in StateRecord /\ [s EXCEPT !.since = t].rec = s.rec
           /\ [s EXCEPT !.rem = c].rec = s.rec
BY DEF StateRecord

\* One key at a time comes onto the registration, or off it.
LEMMA RegisteredMoves ==
    ASSUME NEW c \in Certs \cup Foreign,
           \A j \in Certs \cup Foreign : j # c => app'[j] = app[j]
    PROVE  /\ app'[c] \in {"adding", "present"} =>
                RegisteredKeys' = RegisteredKeys \cup {c}
           /\ app'[c] \notin {"adding", "present"} =>
                RegisteredKeys' = RegisteredKeys \ {c}
BY DEF RegisteredKeys, Registered

LEMMA RegisteredStays ==
    ASSUME UNCHANGED app PROVE RegisteredKeys' = RegisteredKeys
BY DEF RegisteredKeys, Registered

\* A removeKey that Graph has answered, and a directory that settles.
LEMMA RemovingUnregisters ==
    ASSUME WorldTypeOK, NEW c \in Certs \cup Foreign, Removing(c)
    PROVE  RegisteredKeys' = RegisteredKeys \ {c} \/ RegisteredKeys' = RegisteredKeys
<1>1. CASE UNCHANGED app
  BY <1>1, RegisteredStays
<1>2. CASE ~UNCHANGED app
  <2>1. app' = [app EXCEPT ![c] = IF app[c] = "absent" THEN "absent" ELSE "removing"]
    BY <1>2 DEF Removing
  <2>2. app'[c] \notin {"adding", "present"}
        /\ \A j \in Certs \cup Foreign : j # c => app'[j] = app[j]
    BY <2>1 DEF WorldTypeOK
  <2> QED BY <2>2, RegisteredMoves
<1> QED BY <1>1, <1>2

LEMMA ReplicateSettles ==
    ASSUME WorldTypeOK, NEW c \in Certs \cup Foreign, Replicate(c)
    PROVE  RegisteredKeys' = RegisteredKeys
BY DEF WorldTypeOK, Replicate, RegisteredKeys, Registered
=============================================================================
