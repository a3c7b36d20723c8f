-------------------------- MODULE AlertEventProofs --------------------------
(***************************************************************************)
(* What the lock, the outbox and the incident files of alert-event.py      *)
(* guarantee, for any callers, events, references and channels.            *)
(*                                                                         *)
(* The lock makes the memory of the call that holds it the truth about the *)
(* files; the inductive invariant says what that memory is worth: the      *)
(* incident it has read is the one on disk, the record it is working on is *)
(* the file less what it has delivered itself, and a reference is open in  *)
(* exactly one incident until the notice that closes it is decided.        *)
(***************************************************************************)
EXTENDS AlertEvent, TLAPS

Attempting == {"email", "webhook", "save"}

\* The calls between their lock and their end are its holder.
LockInv == \A p \in Callers : pc[p] \notin {"idle", "wait"} <=> lock = p

\* What a call carries belongs to where it stands.
CallInv == \A p \in Callers :
    /\ pc[p] \in {"retry", "decide", "queue"} => job[p] # None
    /\ pc[p] \in Attempting \cup {"queue"} => file[p] \in made
    /\ todo[p] \subseteq made
    /\ pc[p] = "decide" => seen[p] = incident[job[p].ev]

\* A reference is the open one of its event exactly until it is closed, and
\* nothing is announced, pending or delivered for one that was never given.
BookInv ==
    /\ \A e \in Events : incident[e] # None =>
         refEvent[incident[e]] = e /\ ~Closed(incident[e])
    /\ \A r \in Refs : refEvent[r] # None /\ ~Closed(r) => incident[refEvent[r]] = r
    /\ \A r \in Refs, s \in Status : <<r, s>> \in made => refEvent[r] # None
    /\ \A n \in Notices : outbox[n] # {} => n \in made
    /\ \A n \in Notices, ch \in Channels : <<n, ch>> \in sent => n \in made

\* The record in memory is the file less what this attempt has delivered.
RecordInv == \A p \in Callers : pc[p] \in Attempting =>
    /\ rec[p] \subseteq outbox[file[p]]
    /\ \A ch \in outbox[file[p]] \ rec[p] : <<file[p], ch>> \in sent

\* What is pending and delivered is doubtful, unless the attempt that delivered
\* it is still under way; a new notification has been delivered nowhere.
PendingInv == \A n \in Notices, ch \in Channels :
    ch \in outbox[n] /\ <<n, ch>> \in sent =>
        \/ <<n, ch>> \in doubtful
        \/ \E p \in Callers : /\ pc[p] \in {"webhook", "save"} /\ file[p] = n
                              /\ ch \notin rec[p]
HeldInv == \A p \in Callers, ch \in Channels :
    pc[p] \in Attempting /\ ch \in rec[p] /\ <<file[p], ch>> \in sent =>
        <<file[p], ch>> \in doubtful
NewInv == \A p \in Callers, ch \in Channels :
    pc[p] = "queue" => <<file[p], ch>> \notin sent
OnceInv == PendingInv /\ HeldInv /\ NewInv

IInv == /\ TypeOK /\ LockInv /\ CallInv /\ BookInv /\ RecordInv /\ OnceInv
        /\ NoticeKept /\ OnceUnlessDoubtful

-----------------------------------------------------------------------------
\* A reference with a status is a notification, with a channel a delivery.
LEMMA NoticeFacts ==
    /\ \A r \in Refs, s \in Status : <<r, s>> \in Notices
    /\ \A n \in Notices, ch \in Channels : <<n, ch>> \in Deliveries
  BY DEF Notices, Deliveries

LEMMA PairedIn ==
  ASSUME NEW x, NEW S, NEW U, \A y \in S : <<x, y>> \in U
  PROVE  {x} \X S \subseteq U
  OBVIOUS

\* What an attempt has struck off its record was delivered.
LEMMA UnsavedSent ==
  ASSUME RecordInv, NEW p \in Callers, pc[p] \in {"webhook", "save"}
  PROVE  {file[p]} \X (outbox[file[p]] \ rec[p]) \subseteq sent
<1> DEFINE S == outbox[file[p]] \ rec[p]
<1>1. \A ch \in S : <<file[p], ch>> \in sent
  BY DEF RecordInv, Attempting
<1> HIDE DEF S
<1>2. {file[p]} \X S \subseteq sent
  BY <1>1, PairedIn
<1> QED BY <1>2 DEF S

\* Every step keeps the shapes of the variables.
LEMMA TypeStep == TypeOK /\ CallInv /\ RecordInv /\ [Next]_vars => TypeOK'
<1> SUFFICES ASSUME TypeOK /\ CallInv /\ RecordInv, [Next]_vars PROVE TypeOK'
  OBVIOUS
<1> USE NoticeFacts, CallersAreSeparate, ChannelsKnown, FaultsNatural DEF TypeOK, Status, Job, PCs, Command, CallInv, RecordInv, Attempting, disk, calls, history
<1>1. ASSUME NEW p \in Callers, Call(p) PROVE TypeOK'
  BY <1>1 DEF Call
<1>2. ASSUME NEW p \in Callers, Acquire(p) PROVE TypeOK'
  BY <1>2 DEF Acquire, Enter, Files
<1>3. ASSUME NEW p \in Callers, ReadRecord(p) PROVE TypeOK'
  BY <1>3 DEF ReadRecord
<1>4. ASSUME NEW p \in Callers, RetryDone(p) PROVE TypeOK'
  BY <1>4 DEF RetryDone
<1>5. ASSUME NEW p \in Callers, Save(p) PROVE TypeOK'
  <2>1. file[p] \in Notices /\ rec[p] \subseteq Channels
    BY <1>5 DEF Save, Leave, Step
  <2>2. outbox' \in [Notices -> SUBSET Channels] /\ UNCHANGED <<incident, tried, history>>
    BY <1>5, <2>1 DEF Save, Leave, Step
  <2>3. CASE job[p] = None
    <3>1. lock' \in Callers \cup {None} /\ pc' \in [Callers -> PCs] /\ job' \in [Callers -> Job]
      BY <1>5, <2>3 DEF Save, Leave, Step
    <3>2. todo' \in [Callers -> SUBSET Notices] /\ file' \in [Callers -> Notices \cup {None}]
      BY <1>5, <2>3 DEF Save, Leave, Step
    <3>3. rec' \in [Callers -> SUBSET Channels] /\ seen' \in [Callers -> Refs \cup {None}]
      BY <1>5, <2>3 DEF Save, Leave, Step
    <3> QED BY <2>2, <3>1, <3>2, <3>3
  <2>4. CASE job[p] # None
    BY <1>5, <2>2, <2>4 DEF Save, Leave, Step
  <2> QED BY <2>3, <2>4
<1>6. ASSUME NEW p \in Callers, NothingNew(p) PROVE TypeOK'
  BY <1>6 DEF NothingNew, Leave
<1>7. ASSUME NEW p \in Callers, OutOfRefs(p) PROVE TypeOK'
  BY <1>7 DEF OutOfRefs, Leave
<1>8. ASSUME NEW p \in Callers, Open(p) PROVE TypeOK'
  <2>1. job[p].ev \in Events
    BY <1>8 DEF Open, Announce, FreshRefs
  <2>2. PICK r \in Refs : /\ incident' = [incident EXCEPT ![job[p].ev] = r]
                              /\ refEvent' = [refEvent EXCEPT ![r] = job[p].ev]
                              /\ Announce(p, <<r, "open">>)
    BY <1>8 DEF Open, Announce, FreshRefs
  <2>3. <<r, "open">> \in Notices
    BY <2>2, NoticeFacts
  <2>4. incident' \in [Events -> Refs \cup {None}] /\ refEvent' \in [Refs -> Events \cup {None}]
    BY <1>8, <2>1, <2>2 DEF Open, Announce, FreshRefs
  <2>5. made' \subseteq Notices
    BY <2>2, <2>3 DEF Announce
  <2>6. file' \in [Callers -> Notices \cup {None}]
    BY <1>8, <2>2, <2>3 DEF Open, Announce, FreshRefs
  <2> QED BY <1>8, <2>4, <2>5, <2>6 DEF Open, Announce, FreshRefs
<1>9. ASSUME NEW p \in Callers, Recover(p) PROVE TypeOK'
  <2>1. job[p].ev \in Events
    BY <1>9 DEF Recover, Announce
  <2>2. seen[p] \in Refs
    BY <1>9 DEF Recover, Announce
  <2>3. <<seen[p], "recovered">> \in Notices
    BY <2>2, NoticeFacts
  <2>4. incident' \in [Events -> Refs \cup {None}] /\ refEvent' \in [Refs -> Events \cup {None}]
    BY <1>9, <2>1, <2>2 DEF Recover, Announce
  <2>5. made' \subseteq Notices
    BY <1>9, <2>3 DEF Recover, Announce
  <2>6. file' \in [Callers -> Notices \cup {None}]
    BY <1>9, <2>2, <2>3 DEF Recover, Announce
  <2> QED BY <1>9, <2>4, <2>5, <2>6 DEF Recover, Announce
<1>10. ASSUME NEW p \in Callers, Notify(p) PROVE TypeOK'
  <2>1. job[p].ev \in Events
    BY <1>10 DEF Notify, Announce, FreshRefs
  <2>2. PICK r \in Refs : /\ refEvent' = [refEvent EXCEPT ![r] = job[p].ev]
                              /\ Announce(p, <<r, "notification">>)
    BY <1>10 DEF Notify, Announce, FreshRefs
  <2>3. <<r, "notification">> \in Notices
    BY <2>2, NoticeFacts
  <2>4. incident' \in [Events -> Refs \cup {None}] /\ refEvent' \in [Refs -> Events \cup {None}]
    BY <1>10, <2>1, <2>2 DEF Notify, Announce, FreshRefs
  <2>5. made' \subseteq Notices
    BY <2>2, <2>3 DEF Announce
  <2>6. file' \in [Callers -> Notices \cup {None}]
    BY <1>10, <2>2, <2>3 DEF Notify, Announce, FreshRefs
  <2> QED BY <1>10, <2>4, <2>5, <2>6 DEF Notify, Announce, FreshRefs
<1>11. ASSUME NEW p \in Callers, Queue(p) PROVE TypeOK'
  BY <1>11 DEF Queue
<1>12. ASSUME NEW p \in Callers, Die(p) PROVE TypeOK'
  <2>1. doubtful' \subseteq sent'
    <3>1. CASE pc[p] \in {"webhook", "save"}
      <4>1. {file[p]} \X (outbox[file[p]] \ rec[p]) \subseteq sent
        BY <3>1, UnsavedSent
      <4> QED BY <1>12, <3>1, <4>1 DEF Die, Leave
    <3>2. CASE pc[p] \notin {"webhook", "save"}
      BY <1>12, <3>2 DEF Die, Leave
    <3> QED BY <3>1, <3>2
  <2>2. unqueued' \subseteq Notices
    BY <1>12 DEF Die, Leave
  <2> QED BY <1>12, <2>1, <2>2 DEF Die, Leave
<1>13. ASSUME NEW p \in Callers, NEW ch \in {"email", "webhook"}, Skips(p, ch) PROVE TypeOK'
  BY <1>13 DEF Skips, Step, After
<1>14. ASSUME NEW p \in Callers, NEW ch \in {"email", "webhook"}, Delivers(p, ch) PROVE TypeOK'
  BY <1>14 DEF Delivers, Step, After
<1>15. ASSUME NEW p \in Callers, NEW ch \in {"email", "webhook"}, Fails(p, ch) PROVE TypeOK'
  BY <1>15 DEF Fails, Step, After
<1>16. ASSUME NEW p \in Callers, NEW ch \in {"email", "webhook"}, ReplyLost(p, ch) PROVE TypeOK'
  BY <1>16 DEF ReplyLost, Step, After
<1>17. CASE UNCHANGED vars
  BY <1>17 DEF vars
<1> HIDE DEF TypeOK, Status, Job, PCs, Command, CallInv, RecordInv, Attempting
<1> QED BY <1>1, <1>2, <1>3, <1>4, <1>5, <1>6, <1>7, <1>8, <1>9, <1>10, <1>11,
       <1>12, <1>13, <1>14, <1>15, <1>16, <1>17 DEF Next, Work

\* The lock has one holder.
LEMMA LockStep == TypeOK /\ LockInv /\ [Next]_vars => LockInv'
<1> SUFFICES ASSUME TypeOK /\ LockInv, [Next]_vars PROVE LockInv'
  OBVIOUS
<1> USE NoticeFacts, CallersAreSeparate DEF TypeOK, Status, Job, PCs, Command, LockInv, disk, calls, history
<1>1. ASSUME NEW p \in Callers, Call(p) PROVE LockInv'
  BY <1>1 DEF Call
<1>2. ASSUME NEW p \in Callers, Acquire(p) PROVE LockInv'
  BY <1>2 DEF Acquire, Enter, Files
<1>3. ASSUME NEW p \in Callers, ReadRecord(p) PROVE LockInv'
  BY <1>3 DEF ReadRecord
<1>4. ASSUME NEW p \in Callers, RetryDone(p) PROVE LockInv'
  BY <1>4 DEF RetryDone
<1>5. ASSUME NEW p \in Callers, Save(p) PROVE LockInv'
  BY <1>5 DEF Save, Leave, Step
<1>6. ASSUME NEW p \in Callers, NothingNew(p) PROVE LockInv'
  BY <1>6 DEF NothingNew, Leave
<1>7. ASSUME NEW p \in Callers, OutOfRefs(p) PROVE LockInv'
  BY <1>7 DEF OutOfRefs, Leave
<1>8. ASSUME NEW p \in Callers, Open(p) PROVE LockInv'
  BY <1>8 DEF Open, Announce, FreshRefs
<1>9. ASSUME NEW p \in Callers, Recover(p) PROVE LockInv'
  BY <1>9 DEF Recover, Announce
<1>10. ASSUME NEW p \in Callers, Notify(p) PROVE LockInv'
  BY <1>10 DEF Notify, Announce, FreshRefs
<1>11. ASSUME NEW p \in Callers, Queue(p) PROVE LockInv'
  BY <1>11 DEF Queue
<1>12. ASSUME NEW p \in Callers, Die(p) PROVE LockInv'
  BY <1>12 DEF Die, Leave
<1>13. ASSUME NEW p \in Callers, NEW ch \in {"email", "webhook"}, Skips(p, ch) PROVE LockInv'
  BY <1>13 DEF Skips, Step, After
<1>14. ASSUME NEW p \in Callers, NEW ch \in {"email", "webhook"}, Delivers(p, ch) PROVE LockInv'
  BY <1>14 DEF Delivers, Step, After
<1>15. ASSUME NEW p \in Callers, NEW ch \in {"email", "webhook"}, Fails(p, ch) PROVE LockInv'
  BY <1>15 DEF Fails, Step, After
<1>16. ASSUME NEW p \in Callers, NEW ch \in {"email", "webhook"}, ReplyLost(p, ch) PROVE LockInv'
  BY <1>16 DEF ReplyLost, Step, After
<1>17. CASE UNCHANGED vars
  BY <1>17 DEF vars
<1> HIDE DEF TypeOK, Status, Job, PCs, Command, LockInv
<1> QED BY <1>1, <1>2, <1>3, <1>4, <1>5, <1>6, <1>7, <1>8, <1>9, <1>10, <1>11,
       <1>12, <1>13, <1>14, <1>15, <1>16, <1>17 DEF Next, Work

\* What a call carries stays true while it holds the lock.
LEMMA CallStep == TypeOK /\ LockInv /\ CallInv /\ BookInv /\ [Next]_vars => CallInv'
<1> SUFFICES ASSUME TypeOK /\ LockInv /\ CallInv /\ BookInv, [Next]_vars PROVE CallInv'
  OBVIOUS
<1> USE NoticeFacts, CallersAreSeparate DEF TypeOK, Status, Job, PCs, Command, LockInv, CallInv, BookInv, Attempting, disk, calls, history
<1>1. ASSUME NEW p \in Callers, Call(p) PROVE CallInv'
  BY <1>1 DEF Call
<1>2. ASSUME NEW p \in Callers, Acquire(p) PROVE CallInv'
  BY <1>2 DEF Acquire, Enter, Files
<1>3. ASSUME NEW p \in Callers, ReadRecord(p) PROVE CallInv'
  BY <1>3 DEF ReadRecord
<1>4. ASSUME NEW p \in Callers, RetryDone(p) PROVE CallInv'
  BY <1>4 DEF RetryDone
<1>5. ASSUME NEW p \in Callers, Save(p) PROVE CallInv'
  BY <1>5 DEF Save, Leave, Step
<1>6. ASSUME NEW p \in Callers, NothingNew(p) PROVE CallInv'
  BY <1>6 DEF NothingNew, Leave
<1>7. ASSUME NEW p \in Callers, OutOfRefs(p) PROVE CallInv'
  BY <1>7 DEF OutOfRefs, Leave
<1>8. ASSUME NEW p \in Callers, Open(p) PROVE CallInv'
  BY <1>8 DEF Open, Announce, FreshRefs
<1>9. ASSUME NEW p \in Callers, Recover(p) PROVE CallInv'
  BY <1>9 DEF Recover, Announce
<1>10. ASSUME NEW p \in Callers, Notify(p) PROVE CallInv'
  BY <1>10 DEF Notify, Announce, FreshRefs
<1>11. ASSUME NEW p \in Callers, Queue(p) PROVE CallInv'
  BY <1>11 DEF Queue
<1>12. ASSUME NEW p \in Callers, Die(p) PROVE CallInv'
  BY <1>12 DEF Die, Leave
<1>13. ASSUME NEW p \in Callers, NEW ch \in {"email", "webhook"}, Skips(p, ch) PROVE CallInv'
  BY <1>13 DEF Skips, Step, After
<1>14. ASSUME NEW p \in Callers, NEW ch \in {"email", "webhook"}, Delivers(p, ch) PROVE CallInv'
  BY <1>14 DEF Delivers, Step, After
<1>15. ASSUME NEW p \in Callers, NEW ch \in {"email", "webhook"}, Fails(p, ch) PROVE CallInv'
  BY <1>15 DEF Fails, Step, After
<1>16. ASSUME NEW p \in Callers, NEW ch \in {"email", "webhook"}, ReplyLost(p, ch) PROVE CallInv'
  BY <1>16 DEF ReplyLost, Step, After
<1>17. CASE UNCHANGED vars
  BY <1>17 DEF vars
<1> HIDE DEF TypeOK, Status, Job, PCs, Command, LockInv, CallInv, BookInv, Attempting
<1> QED BY <1>1, <1>2, <1>3, <1>4, <1>5, <1>6, <1>7, <1>8, <1>9, <1>10, <1>11,
       <1>12, <1>13, <1>14, <1>15, <1>16, <1>17 DEF Next, Work

\* Every step keeps the books of references.
LEMMA BookStep == TypeOK /\ LockInv /\ CallInv /\ BookInv /\ [Next]_vars => BookInv'
<1> SUFFICES ASSUME TypeOK /\ LockInv /\ CallInv /\ BookInv, [Next]_vars PROVE BookInv'
  OBVIOUS
<1> USE NoticeFacts, CallersAreSeparate DEF TypeOK, Status, Job, PCs, Command, LockInv, CallInv, BookInv, Attempting, Closed, disk, calls, history
<1>1. ASSUME NEW p \in Callers, Call(p) PROVE BookInv'
  BY <1>1 DEF Call
<1>2. ASSUME NEW p \in Callers, Acquire(p) PROVE BookInv'
  BY <1>2 DEF Acquire, Enter, Files
<1>3. ASSUME NEW p \in Callers, ReadRecord(p) PROVE BookInv'
  BY <1>3 DEF ReadRecord
<1>4. ASSUME NEW p \in Callers, RetryDone(p) PROVE BookInv'
  BY <1>4 DEF RetryDone
<1>5. ASSUME NEW p \in Callers, Save(p) PROVE BookInv'
  BY <1>5 DEF Save, Leave, Step
<1>6. ASSUME NEW p \in Callers, NothingNew(p) PROVE BookInv'
  BY <1>6 DEF NothingNew, Leave
<1>7. ASSUME NEW p \in Callers, OutOfRefs(p) PROVE BookInv'
  BY <1>7 DEF OutOfRefs, Leave
<1>8. ASSUME NEW p \in Callers, Open(p) PROVE BookInv'
  BY <1>8 DEF Open, Announce, FreshRefs
<1>9. ASSUME NEW p \in Callers, Recover(p) PROVE BookInv'
  BY <1>9 DEF Recover, Announce
<1>10. ASSUME NEW p \in Callers, Notify(p) PROVE BookInv'
  BY <1>10 DEF Notify, Announce, FreshRefs
<1>11. ASSUME NEW p \in Callers, Queue(p) PROVE BookInv'
  BY <1>11 DEF Queue
<1>12. ASSUME NEW p \in Callers, Die(p) PROVE BookInv'
  BY <1>12 DEF Die, Leave
<1>13. ASSUME NEW p \in Callers, NEW ch \in {"email", "webhook"}, Skips(p, ch) PROVE BookInv'
  BY <1>13 DEF Skips, Step, After
<1>14. ASSUME NEW p \in Callers, NEW ch \in {"email", "webhook"}, Delivers(p, ch) PROVE BookInv'
  BY <1>14 DEF Delivers, Step, After
<1>15. ASSUME NEW p \in Callers, NEW ch \in {"email", "webhook"}, Fails(p, ch) PROVE BookInv'
  BY <1>15 DEF Fails, Step, After
<1>16. ASSUME NEW p \in Callers, NEW ch \in {"email", "webhook"}, ReplyLost(p, ch) PROVE BookInv'
  BY <1>16 DEF ReplyLost, Step, After
<1>17. CASE UNCHANGED vars
  BY <1>17 DEF vars
<1> HIDE DEF TypeOK, Status, Job, PCs, Command, LockInv, CallInv, BookInv, Attempting, Closed
<1> QED BY <1>1, <1>2, <1>3, <1>4, <1>5, <1>6, <1>7, <1>8, <1>9, <1>10, <1>11,
       <1>12, <1>13, <1>14, <1>15, <1>16, <1>17 DEF Next, Work

\* Every step keeps memory and file in agreement.
LEMMA RecordStep == TypeOK /\ LockInv /\ CallInv /\ RecordInv /\ [Next]_vars => RecordInv'
<1> SUFFICES ASSUME TypeOK /\ LockInv /\ CallInv /\ RecordInv, [Next]_vars PROVE RecordInv'
  OBVIOUS
<1> USE NoticeFacts, CallersAreSeparate, ChannelsKnown DEF TypeOK, Status, Job, PCs, Command, LockInv, CallInv, RecordInv, Attempting, disk, calls, history
<1>1. ASSUME NEW p \in Callers, Call(p) PROVE RecordInv'
  BY <1>1 DEF Call
<1>2. ASSUME NEW p \in Callers, Acquire(p) PROVE RecordInv'
  BY <1>2 DEF Acquire, Enter, Files
<1>3. ASSUME NEW p \in Callers, ReadRecord(p) PROVE RecordInv'
  BY <1>3 DEF ReadRecord
<1>4. ASSUME NEW p \in Callers, RetryDone(p) PROVE RecordInv'
  BY <1>4 DEF RetryDone
<1>5. ASSUME NEW p \in Callers, Save(p) PROVE RecordInv'
  BY <1>5 DEF Save, Leave, Step
<1>6. ASSUME NEW p \in Callers, NothingNew(p) PROVE RecordInv'
  BY <1>6 DEF NothingNew, Leave
<1>7. ASSUME NEW p \in Callers, OutOfRefs(p) PROVE RecordInv'
  BY <1>7 DEF OutOfRefs, Leave
<1>8. ASSUME NEW p \in Callers, Open(p) PROVE RecordInv'
  BY <1>8 DEF Open, Announce, FreshRefs
<1>9. ASSUME NEW p \in Callers, Recover(p) PROVE RecordInv'
  BY <1>9 DEF Recover, Announce
<1>10. ASSUME NEW p \in Callers, Notify(p) PROVE RecordInv'
  BY <1>10 DEF Notify, Announce, FreshRefs
<1>11. ASSUME NEW p \in Callers, Queue(p) PROVE RecordInv'
  BY <1>11 DEF Queue
<1>12. ASSUME NEW p \in Callers, Die(p) PROVE RecordInv'
  BY <1>12 DEF Die, Leave
<1>13. ASSUME NEW p \in Callers, NEW ch \in {"email", "webhook"}, Skips(p, ch) PROVE RecordInv'
  BY <1>13 DEF Skips, Step, After
<1>14. ASSUME NEW p \in Callers, NEW ch \in {"email", "webhook"}, Delivers(p, ch) PROVE RecordInv'
  BY <1>14 DEF Delivers, Step, After
<1>15. ASSUME NEW p \in Callers, NEW ch \in {"email", "webhook"}, Fails(p, ch) PROVE RecordInv'
  BY <1>15 DEF Fails, Step, After
<1>16. ASSUME NEW p \in Callers, NEW ch \in {"email", "webhook"}, ReplyLost(p, ch) PROVE RecordInv'
  BY <1>16 DEF ReplyLost, Step, After
<1>17. CASE UNCHANGED vars
  BY <1>17 DEF vars
<1> HIDE DEF TypeOK, Status, Job, PCs, Command, LockInv, CallInv, RecordInv, Attempting
<1> QED BY <1>1, <1>2, <1>3, <1>4, <1>5, <1>6, <1>7, <1>8, <1>9, <1>10, <1>11,
       <1>12, <1>13, <1>14, <1>15, <1>16, <1>17 DEF Next, Work

\* Every step keeps account of what was delivered.
LEMMA OnceStep == TypeOK /\ LockInv /\ CallInv /\ BookInv /\ RecordInv /\ OnceInv /\ [Next]_vars => OnceInv'
<1> SUFFICES ASSUME TypeOK /\ LockInv /\ CallInv /\ BookInv /\ RecordInv /\ OnceInv, [Next]_vars PROVE OnceInv'
  OBVIOUS
<1> USE NoticeFacts, CallersAreSeparate, ChannelsKnown DEF TypeOK, Status, Job, PCs, Command, LockInv, CallInv, BookInv, RecordInv, OnceInv, PendingInv, HeldInv, NewInv, Attempting, Closed, disk, calls, history
<1>1. ASSUME NEW p \in Callers, Call(p) PROVE OnceInv'
  <2>1. PendingInv'
    BY <1>1 DEF Call
  <2>2. HeldInv'
    BY <1>1 DEF Call
  <2>3. NewInv'
    BY <1>1 DEF Call
  <2> QED BY <2>1, <2>2, <2>3
<1>2. ASSUME NEW p \in Callers, Acquire(p) PROVE OnceInv'
  <2>1. PendingInv'
    BY <1>2 DEF Acquire, Enter, Files
  <2>2. HeldInv'
    BY <1>2 DEF Acquire, Enter, Files
  <2>3. NewInv'
    BY <1>2 DEF Acquire, Enter, Files
  <2> QED BY <2>1, <2>2, <2>3
<1>3. ASSUME NEW p \in Callers, ReadRecord(p) PROVE OnceInv'
  <2>1. PendingInv'
    BY <1>3 DEF ReadRecord
  <2>2. HeldInv'
    BY <1>3 DEF ReadRecord
  <2>3. NewInv'
    BY <1>3 DEF ReadRecord
  <2> QED BY <2>1, <2>2, <2>3
<1>4. ASSUME NEW p \in Callers, RetryDone(p) PROVE OnceInv'
  <2>1. PendingInv'
    BY <1>4 DEF RetryDone
  <2>2. HeldInv'
    BY <1>4 DEF RetryDone
  <2>3. NewInv'
    BY <1>4 DEF RetryDone
  <2> QED BY <2>1, <2>2, <2>3
<1>5. ASSUME NEW p \in Callers, Save(p) PROVE OnceInv'
  <2>1. PendingInv'
    BY <1>5 DEF Save, Leave, Step
  <2>2. HeldInv'
    BY <1>5 DEF Save, Leave, Step
  <2>3. NewInv'
    BY <1>5 DEF Save, Leave, Step
  <2> QED BY <2>1, <2>2, <2>3
<1>6. ASSUME NEW p \in Callers, NothingNew(p) PROVE OnceInv'
  <2>1. PendingInv'
    BY <1>6 DEF NothingNew, Leave
  <2>2. HeldInv'
    BY <1>6 DEF NothingNew, Leave
  <2>3. NewInv'
    BY <1>6 DEF NothingNew, Leave
  <2> QED BY <2>1, <2>2, <2>3
<1>7. ASSUME NEW p \in Callers, OutOfRefs(p) PROVE OnceInv'
  <2>1. pc[p] = "decide" /\ UNCHANGED <<outbox, sent, doubtful>>
    BY <1>7 DEF OutOfRefs, Leave
  <2>2. \A q \in Callers \ {p} : pc'[q] = pc[q] /\ file'[q] = file[q] /\ rec'[q] = rec[q]
    BY <1>7 DEF OutOfRefs, Leave
  <2>3. pc'[p] = "idle"
    BY <1>7 DEF OutOfRefs, Leave
  <2> QED BY <2>1, <2>2, <2>3
<1>8. ASSUME NEW p \in Callers, Open(p) PROVE OnceInv'
  <2>1. PICK r \in Refs : refEvent[r] = None /\ /\ incident' = [incident EXCEPT ![job[p].ev] = r]
                              /\ refEvent' = [refEvent EXCEPT ![r] = job[p].ev]
                              /\ Announce(p, <<r, "open">>)
    BY <1>8 DEF Open, Announce, FreshRefs
  <2>2. <<r, "open">> \in Notices \ made
    BY <1>8, <2>1 DEF Open, Announce, FreshRefs
  <2>3. \A ch \in Channels : <<<<r, "open">>, ch>> \notin sent
    BY <2>2
  <2>4. pc' = [pc EXCEPT ![p] = "queue"] /\ file' = [file EXCEPT ![p] = <<r, "open">>]
          /\ UNCHANGED <<outbox, sent, doubtful, rec>>
    BY <1>8, <2>1 DEF Open, Announce, FreshRefs
  <2>5. PendingInv'
    BY <1>8, <2>4 DEF Open, Announce, FreshRefs
  <2>6. HeldInv'
    BY <2>4
  <2>7. NewInv'
    BY <2>3, <2>4
  <2> QED BY <2>5, <2>6, <2>7
<1>9. ASSUME NEW p \in Callers, Recover(p) PROVE OnceInv'
  <2>1. seen[p] \in Refs /\ ~Closed(seen[p])
    BY <1>9 DEF Recover, Announce
  <2>2. <<seen[p], "recovered">> \in Notices \ made
    BY <1>9, <2>1 DEF Recover, Announce
  <2>3. \A ch \in Channels : <<<<seen[p], "recovered">>, ch>> \notin sent
    BY <2>2
  <2>4. pc' = [pc EXCEPT ![p] = "queue"] /\ file' = [file EXCEPT ![p] = <<seen[p], "recovered">>]
          /\ UNCHANGED <<outbox, sent, doubtful, rec>>
    BY <1>9, <2>1 DEF Recover, Announce
  <2>5. PendingInv'
    BY <1>9, <2>4 DEF Recover, Announce
  <2>6. HeldInv'
    BY <2>4
  <2>7. NewInv'
    BY <2>3, <2>4
  <2> QED BY <2>5, <2>6, <2>7
<1>10. ASSUME NEW p \in Callers, Notify(p) PROVE OnceInv'
  <2>1. PICK r \in Refs : refEvent[r] = None /\ /\ refEvent' = [refEvent EXCEPT ![r] = job[p].ev]
                              /\ Announce(p, <<r, "notification">>)
    BY <1>10 DEF Notify, Announce, FreshRefs
  <2>2. <<r, "notification">> \in Notices \ made
    BY <1>10, <2>1 DEF Notify, Announce, FreshRefs
  <2>3. \A ch \in Channels : <<<<r, "notification">>, ch>> \notin sent
    BY <2>2
  <2>4. pc' = [pc EXCEPT ![p] = "queue"] /\ file' = [file EXCEPT ![p] = <<r, "notification">>]
          /\ UNCHANGED <<outbox, sent, doubtful, rec>>
    BY <1>10, <2>1 DEF Notify, Announce, FreshRefs
  <2>5. PendingInv'
    BY <1>10, <2>4 DEF Notify, Announce, FreshRefs
  <2>6. HeldInv'
    BY <2>4
  <2>7. NewInv'
    BY <2>3, <2>4
  <2> QED BY <2>5, <2>6, <2>7
<1>11. ASSUME NEW p \in Callers, Queue(p) PROVE OnceInv'
  <2>1. PendingInv'
    BY <1>11 DEF Queue
  <2>2. HeldInv'
    BY <1>11 DEF Queue
  <2>3. NewInv'
    BY <1>11 DEF Queue
  <2> QED BY <2>1, <2>2, <2>3
<1>12. ASSUME NEW p \in Callers, Die(p) PROVE OnceInv'
  <2>1. PendingInv'
    BY <1>12 DEF Die, Leave
  <2>2. HeldInv'
    BY <1>12 DEF Die, Leave
  <2>3. NewInv'
    BY <1>12 DEF Die, Leave
  <2> QED BY <2>1, <2>2, <2>3
<1>13. ASSUME NEW p \in Callers, NEW ch \in {"email", "webhook"}, Skips(p, ch) PROVE OnceInv'
  <2>1. PendingInv'
    BY <1>13 DEF Skips, Step, After
  <2>2. HeldInv'
    BY <1>13 DEF Skips, Step, After
  <2>3. NewInv'
    BY <1>13 DEF Skips, Step, After
  <2> QED BY <2>1, <2>2, <2>3
<1>14. ASSUME NEW p \in Callers, NEW ch \in {"email", "webhook"}, Delivers(p, ch) PROVE OnceInv'
  <2>1. PendingInv'
    BY <1>14 DEF Delivers, Step, After
  <2>2. HeldInv'
    BY <1>14 DEF Delivers, Step, After
  <2>3. NewInv'
    BY <1>14 DEF Delivers, Step, After
  <2> QED BY <2>1, <2>2, <2>3
<1>15. ASSUME NEW p \in Callers, NEW ch \in {"email", "webhook"}, Fails(p, ch) PROVE OnceInv'
  <2>1. PendingInv'
    BY <1>15 DEF Fails, Step, After
  <2>2. HeldInv'
    BY <1>15 DEF Fails, Step, After
  <2>3. NewInv'
    BY <1>15 DEF Fails, Step, After
  <2> QED BY <2>1, <2>2, <2>3
<1>16. ASSUME NEW p \in Callers, NEW ch \in {"email", "webhook"}, ReplyLost(p, ch) PROVE OnceInv'
  <2>1. PendingInv'
    BY <1>16 DEF ReplyLost, Step, After
  <2>2. HeldInv'
    BY <1>16 DEF ReplyLost, Step, After
  <2>3. NewInv'
    BY <1>16 DEF ReplyLost, Step, After
  <2> QED BY <2>1, <2>2, <2>3
<1>17. CASE UNCHANGED vars
  BY <1>17 DEF vars
<1> HIDE DEF TypeOK, Status, Job, PCs, Command, LockInv, CallInv, BookInv, RecordInv, OnceInv, PendingInv, HeldInv, NewInv, Attempting, Closed
<1> QED BY <1>1, <1>2, <1>3, <1>4, <1>5, <1>6, <1>7, <1>8, <1>9, <1>10, <1>11,
       <1>12, <1>13, <1>14, <1>15, <1>16, <1>17 DEF Next, Work

\* Every step keeps a notification or delivers it.
LEMMA KeptStep == IInv /\ [Next]_vars => NoticeKept'
<1> SUFFICES ASSUME IInv, [Next]_vars PROVE NoticeKept'
  OBVIOUS
<1> USE NoticeFacts, CallersAreSeparate, ChannelsKnown DEF TypeOK, Status, Job, PCs, Command, IInv, LockInv, CallInv, RecordInv, NoticeKept, Kept, Attempting, disk, calls, history
<1>1. ASSUME NEW p \in Callers, Call(p) PROVE NoticeKept'
  BY <1>1 DEF Call
<1>2. ASSUME NEW p \in Callers, Acquire(p) PROVE NoticeKept'
  BY <1>2 DEF Acquire, Enter, Files
<1>3. ASSUME NEW p \in Callers, ReadRecord(p) PROVE NoticeKept'
  BY <1>3 DEF ReadRecord
<1>4. ASSUME NEW p \in Callers, RetryDone(p) PROVE NoticeKept'
  BY <1>4 DEF RetryDone
<1>5. ASSUME NEW p \in Callers, Save(p) PROVE NoticeKept'
  BY <1>5 DEF Save, Leave, Step
<1>6. ASSUME NEW p \in Callers, NothingNew(p) PROVE NoticeKept'
  BY <1>6 DEF NothingNew, Leave
<1>7. ASSUME NEW p \in Callers, OutOfRefs(p) PROVE NoticeKept'
  BY <1>7 DEF OutOfRefs, Leave
<1>8. ASSUME NEW p \in Callers, Open(p) PROVE NoticeKept'
  BY <1>8 DEF Open, Announce, FreshRefs
<1>9. ASSUME NEW p \in Callers, Recover(p) PROVE NoticeKept'
  BY <1>9 DEF Recover, Announce
<1>10. ASSUME NEW p \in Callers, Notify(p) PROVE NoticeKept'
  BY <1>10 DEF Notify, Announce, FreshRefs
<1>11. ASSUME NEW p \in Callers, Queue(p) PROVE NoticeKept'
  BY <1>11 DEF Queue
<1>12. ASSUME NEW p \in Callers, Die(p) PROVE NoticeKept'
  BY <1>12 DEF Die, Leave
<1>13. ASSUME NEW p \in Callers, NEW ch \in {"email", "webhook"}, Skips(p, ch) PROVE NoticeKept'
  BY <1>13 DEF Skips, Step, After
<1>14. ASSUME NEW p \in Callers, NEW ch \in {"email", "webhook"}, Delivers(p, ch) PROVE NoticeKept'
  BY <1>14 DEF Delivers, Step, After
<1>15. ASSUME NEW p \in Callers, NEW ch \in {"email", "webhook"}, Fails(p, ch) PROVE NoticeKept'
  BY <1>15 DEF Fails, Step, After
<1>16. ASSUME NEW p \in Callers, NEW ch \in {"email", "webhook"}, ReplyLost(p, ch) PROVE NoticeKept'
  BY <1>16 DEF ReplyLost, Step, After
<1>17. CASE UNCHANGED vars
  BY <1>17 DEF vars
<1> HIDE DEF TypeOK, Status, Job, PCs, Command, IInv, LockInv, CallInv, RecordInv, NoticeKept, Kept, Attempting
<1> QED BY <1>1, <1>2, <1>3, <1>4, <1>5, <1>6, <1>7, <1>8, <1>9, <1>10, <1>11,
       <1>12, <1>13, <1>14, <1>15, <1>16, <1>17 DEF Next, Work

\* A second delivery follows a doubtful one.
LEMMA AgainStep == IInv /\ [Next]_vars => OnceUnlessDoubtful'
<1> SUFFICES ASSUME IInv, [Next]_vars PROVE OnceUnlessDoubtful'
  OBVIOUS
<1> USE NoticeFacts, CallersAreSeparate, ChannelsKnown DEF TypeOK, Status, Job, PCs, Command, IInv, LockInv, CallInv, OnceInv, HeldInv, OnceUnlessDoubtful, Attempting, disk, calls, history
<1>1. ASSUME NEW p \in Callers, Call(p) PROVE OnceUnlessDoubtful'
  BY <1>1 DEF Call
<1>2. ASSUME NEW p \in Callers, Acquire(p) PROVE OnceUnlessDoubtful'
  BY <1>2 DEF Acquire, Enter, Files
<1>3. ASSUME NEW p \in Callers, ReadRecord(p) PROVE OnceUnlessDoubtful'
  BY <1>3 DEF ReadRecord
<1>4. ASSUME NEW p \in Callers, RetryDone(p) PROVE OnceUnlessDoubtful'
  BY <1>4 DEF RetryDone
<1>5. ASSUME NEW p \in Callers, Save(p) PROVE OnceUnlessDoubtful'
  BY <1>5 DEF Save, Leave, Step
<1>6. ASSUME NEW p \in Callers, NothingNew(p) PROVE OnceUnlessDoubtful'
  BY <1>6 DEF NothingNew, Leave
<1>7. ASSUME NEW p \in Callers, OutOfRefs(p) PROVE OnceUnlessDoubtful'
  BY <1>7 DEF OutOfRefs, Leave
<1>8. ASSUME NEW p \in Callers, Open(p) PROVE OnceUnlessDoubtful'
  BY <1>8 DEF Open, Announce, FreshRefs
<1>9. ASSUME NEW p \in Callers, Recover(p) PROVE OnceUnlessDoubtful'
  BY <1>9 DEF Recover, Announce
<1>10. ASSUME NEW p \in Callers, Notify(p) PROVE OnceUnlessDoubtful'
  BY <1>10 DEF Notify, Announce, FreshRefs
<1>11. ASSUME NEW p \in Callers, Queue(p) PROVE OnceUnlessDoubtful'
  BY <1>11 DEF Queue
<1>12. ASSUME NEW p \in Callers, Die(p) PROVE OnceUnlessDoubtful'
  BY <1>12 DEF Die, Leave
<1>13. ASSUME NEW p \in Callers, NEW ch \in {"email", "webhook"}, Skips(p, ch) PROVE OnceUnlessDoubtful'
  BY <1>13 DEF Skips, Step, After
<1>14. ASSUME NEW p \in Callers, NEW ch \in {"email", "webhook"}, Delivers(p, ch) PROVE OnceUnlessDoubtful'
  BY <1>14 DEF Delivers, Step, After
<1>15. ASSUME NEW p \in Callers, NEW ch \in {"email", "webhook"}, Fails(p, ch) PROVE OnceUnlessDoubtful'
  BY <1>15 DEF Fails, Step, After
<1>16. ASSUME NEW p \in Callers, NEW ch \in {"email", "webhook"}, ReplyLost(p, ch) PROVE OnceUnlessDoubtful'
  BY <1>16 DEF ReplyLost, Step, After
<1>17. CASE UNCHANGED vars
  BY <1>17 DEF vars
<1> HIDE DEF TypeOK, Status, Job, PCs, Command, IInv, LockInv, CallInv, OnceInv, HeldInv, OnceUnlessDoubtful, Attempting
<1> QED BY <1>1, <1>2, <1>3, <1>4, <1>5, <1>6, <1>7, <1>8, <1>9, <1>10, <1>11,
       <1>12, <1>13, <1>14, <1>15, <1>16, <1>17 DEF Next, Work

-----------------------------------------------------------------------------
LEMMA InvInit == Init => IInv
<1> SUFFICES ASSUME Init PROVE IInv
  OBVIOUS
<1> USE CallersAreSeparate, FaultsNatural DEF Init
<1>1. TypeOK
  BY DEF TypeOK, PCs, Job
<1>2. LockInv /\ CallInv /\ RecordInv /\ OnceInv
  BY DEF LockInv, CallInv, RecordInv, OnceInv, PendingInv, HeldInv, NewInv, Attempting
<1>3. BookInv
  BY DEF BookInv
<1>4. NoticeKept /\ OnceUnlessDoubtful
  BY DEF NoticeKept, OnceUnlessDoubtful
<1> QED BY <1>1, <1>2, <1>3, <1>4 DEF IInv

LEMMA InvStep == IInv /\ [Next]_vars => IInv'
  BY TypeStep, LockStep, CallStep, BookStep, RecordStep, OnceStep, KeptStep, AgainStep
     DEF IInv

THEOREM Inductive == Spec => []IInv
  BY InvInit, InvStep, PTL DEF Spec

\* The files, the memory of every call and the histories have their shapes.
THEOREM TypeCorrect == Spec => []TypeOK
<1>1. IInv => TypeOK
  BY DEF IInv
<1> QED BY <1>1, Inductive, PTL

\* At most one incident that is not closed belongs to an event, however many
\* calls race to open it.
THEOREM PagedOnce == Spec => []OnePagePerOutage
<1>1. IInv => OnePagePerOutage
  <2> SUFFICES ASSUME IInv, NEW r \in Refs, NEW s \in Refs,
                      refEvent[r] # None, refEvent[r] = refEvent[s],
                      ~Closed(r), ~Closed(s)
               PROVE r = s
    BY DEF OnePagePerOutage
  <2>1. incident[refEvent[r]] = r /\ incident[refEvent[s]] = s
    BY DEF IInv, BookInv
  <2> QED BY <2>1
<1> QED BY <1>1, Inductive, PTL

\* A notification leaves the outbox only for a channel that has taken it.
THEOREM NothingDropped == Spec => []NoticeKept
<1>1. IInv => NoticeKept
  BY DEF IInv
<1> QED BY <1>1, Inductive, PTL

\* A channel gets a notification twice only after a kill or a lost answer.
THEOREM DeliveredOnce == Spec => []OnceUnlessDoubtful
<1>1. IInv => OnceUnlessDoubtful
  BY DEF IInv
<1> QED BY <1>1, Inductive, PTL

-----------------------------------------------------------------------------
LEMMA BookInit == Init => Book!Init
  BY DEF Init, Book!Init

\* Every step opens, recovers, notifies or delivers as the book allows, or
\* leaves it alone.
LEMMA BookNext == IInv /\ [Next]_vars => [Book!Next]_(Book!book)
<1> SUFFICES ASSUME IInv, [Next]_vars PROVE [Book!Next]_(Book!book)
  OBVIOUS
<1> USE NoticeFacts, CallersAreSeparate DEF disk, calls, history, Book!book
<1>1. ASSUME NEW p \in Callers, Call(p) PROVE UNCHANGED Book!book
  BY <1>1 DEF Call
<1>2. ASSUME NEW p \in Callers, Acquire(p) PROVE UNCHANGED Book!book
  BY <1>2 DEF Acquire, Enter
<1>3. ASSUME NEW p \in Callers, ReadRecord(p) PROVE UNCHANGED Book!book
  BY <1>3 DEF ReadRecord
<1>4. ASSUME NEW p \in Callers, RetryDone(p) PROVE UNCHANGED Book!book
  BY <1>4 DEF RetryDone
<1>5. ASSUME NEW p \in Callers, Save(p) PROVE UNCHANGED Book!book
  BY <1>5 DEF Save, Leave, Step
<1>6. ASSUME NEW p \in Callers, NothingNew(p) PROVE UNCHANGED Book!book
  BY <1>6 DEF NothingNew, Leave, IInv, TypeOK, CallInv, Job, Command
<1>7. ASSUME NEW p \in Callers, OutOfRefs(p) PROVE UNCHANGED Book!book
  BY <1>7 DEF OutOfRefs
<1>8. ASSUME NEW p \in Callers, Queue(p) PROVE UNCHANGED Book!book
  BY <1>8 DEF Queue
<1>9. ASSUME NEW p \in Callers, Die(p) PROVE UNCHANGED Book!book
  BY <1>9 DEF Die
<1>10. ASSUME NEW p \in Callers, Open(p) PROVE Book!Next
  <2>1. job[p].ev \in Events
    BY <1>10 DEF Open, IInv, TypeOK, CallInv, Job, Command
  <2>2. PICK r \in Refs : Book!Opened(job[p].ev, r)
    BY <1>10, <2>1 DEF Open, Announce, FreshRefs, Book!Opened, Book!Give, IInv, TypeOK, CallInv, Job, Command
  <2> QED BY <2>1, <2>2 DEF Book!Next
<1>11. ASSUME NEW p \in Callers, Recover(p) PROVE Book!Next
  <2>1. job[p].ev \in Events
    BY <1>11 DEF Recover, IInv, TypeOK, CallInv, Job, Command
  <2>2. seen[p] \in Refs /\ Book!Recovered(job[p].ev, seen[p])
    BY <1>11, <2>1 DEF Recover, Announce, FreshRefs, Book!Recovered, Book!Give, IInv, TypeOK, CallInv, Job, Command
  <2> QED BY <2>1, <2>2 DEF Book!Next
<1>12. ASSUME NEW p \in Callers, Notify(p) PROVE Book!Next
  <2>1. job[p].ev \in Events
    BY <1>12 DEF Notify, IInv, TypeOK, CallInv, Job, Command
  <2>2. PICK r \in Refs : Book!Notified(job[p].ev, r)
    BY <1>12, <2>1 DEF Notify, Announce, FreshRefs, Book!Notified, Book!Give, IInv, TypeOK, CallInv, Job, Command
  <2> QED BY <2>1, <2>2 DEF Book!Next
<1>13. ASSUME NEW p \in Callers, NEW ch \in {"email", "webhook"}, Skips(p, ch) PROVE UNCHANGED Book!book
  BY <1>13 DEF Skips, Step
<1>14. ASSUME NEW p \in Callers, NEW ch \in {"email", "webhook"}, Fails(p, ch) PROVE UNCHANGED Book!book
  BY <1>14 DEF Fails, Step
<1>15. ASSUME NEW p \in Callers, NEW ch \in {"email", "webhook"}, Delivers(p, ch) PROVE Book!Next
  <2>1. file[p] \in made /\ ch \in Channels
    BY <1>15 DEF Delivers, IInv, TypeOK, CallInv, Job, Command, Attempting
  <2>2. Book!Arrives(file[p], ch)
    BY <1>15, <2>1 DEF Delivers, Step, Book!Arrives
  <2> QED BY <2>1, <2>2 DEF Book!Next
<1>16. ASSUME NEW p \in Callers, NEW ch \in {"email", "webhook"}, ReplyLost(p, ch) PROVE Book!Next
  <2>1. file[p] \in made /\ ch \in Channels
    BY <1>16 DEF ReplyLost, IInv, TypeOK, CallInv, Job, Command, Attempting
  <2>2. Book!Arrives(file[p], ch)
    BY <1>16, <2>1 DEF ReplyLost, Step, Book!Arrives
  <2> QED BY <2>1, <2>2 DEF Book!Next
<1>17. CASE UNCHANGED vars
  BY <1>17 DEF vars
<1> QED BY <1>1, <1>2, <1>3, <1>4, <1>5, <1>6, <1>7, <1>8, <1>9,
       <1>10, <1>11, <1>12, <1>13, <1>14, <1>15, <1>16, <1>17 DEF Next, Work

\* alert-event.py implements the book of incidents.
THEOREM BookKept == Spec => KeepsTheBook
<1>1. Spec => Book!Spec
  BY BookInit, BookNext, Inductive, PTL DEF Spec, Book!Spec
<1> QED BY <1>1 DEF KeepsTheBook
=============================================================================
