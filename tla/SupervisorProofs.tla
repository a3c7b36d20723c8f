-------------------------- MODULE SupervisorProofs --------------------------
(* Theorems about Supervisor, for every list of roles and number of deaths. *)
EXTENDS Supervisor, TLAPS, FiniteSetTheorems

\* A process that was never started has no helper, the boot has not started the
\* roles after `next`, and a role is restarted when it and its group are gone.
GroupInv ==
  /\ \A r \in Roles : leader[r] = "none" => helper[r] = {}
  /\ \A i \in next..Len(Order) : leader[Order[i]] = "none"
  /\ pc \in {"reap", "backoff", "respawn"} => leader[role] = "dead"
  /\ pc \in {"backoff", "respawn"} => helper[role] = {}

\* Only a stop or a nonzero exit code leads to the end.
EndInv ==
  /\ pc \in {"final", "exited"} => stopping
  /\ stopping /\ term = "none" => exitCode # 0 /\ pc \in {"final", "exited"}

\* Whoever runs is in the tables or about to be; the last loop has ended its
\* wait for a role only when it was dead; a signalled group runs nothing.
ReapInv ==
  /\ helper[Postfix] = {}
  /\ \A r \in Roles : r \in termed => helper[r] = {}
  /\ \A r \in Alive : r \in known \/ (pc = "forked" /\ r = role)
  /\ pc \in {"final", "exited"} /\ ~cut => Alive \subseteq left
  /\ pc = "exited" => left = {}

\* Outside the boot every role has been started once, and a started role is in
\* the tables unless it is the one in hand.
InHand == {"forked", "reap", "backoff", "respawn"}

TableInv ==
  /\ pc = "boot" => next <= Len(Order)
  /\ pc \notin {"boot", "forked"} => next = Len(Order) + 1
  /\ pc \notin {"final", "exited"} =>
       \A i \in 1..next - 1 : Order[i] \in known \/ (pc \in InHand /\ Order[i] = role)

\* The dead roles that nobody is restarting yet, and the deaths that are still
\* to be reported or whose report the scan has in hand.
Waiting == {r \in Roles : leader[r] = "dead"
                          /\ ~(pc \in {"reap", "backoff", "respawn"} /\ r = role)}
Reports == unheard["clean"] + unheard["failed"] + unheard["killed"]
           + (IF pc = "scan" THEN 1 ELSE 0)

ReportInv == ~stopping /\ ~forgot => Cardinality(Waiting) <= Reports

IInv == TypeOK /\ NoStray /\ GroupInv /\ EndInv /\ ReapInv /\ TableInv /\ ReportInv

-----------------------------------------------------------------------------
\* The roles are the entries of Order, each of them once.
LEMMA OrderFacts ==
  /\ Len(Order) \in Nat /\ Postfix \in Roles
  /\ \A i \in 1..Len(Order) : Order[i] \in Roles
  /\ \A i, j \in 1..Len(Order) : Order[i] = Order[j] => i = j
  BY OrderAssumption DEF Roles

\* Every step keeps the shapes of the variables.
LEMMA TypeStep == TypeOK /\ [Next]_vars => TypeOK'
<1> SUFFICES ASSUME TypeOK, [Next]_vars PROVE TypeOK'
  OBVIOUS
<1> USE OrderFacts, DeathsAssumption DEF TypeOK, Kinds, Locations, Alive, shell, processes
<1>1. CASE BootSpawn
  BY <1>1 DEF BootSpawn, Fork
<1>2. CASE Register
  BY <1>2 DEF Register
<1>3. CASE StoppedAtTop
  BY <1>3 DEF StoppedAtTop, Leave
<1>4. CASE WaitAny
  BY <1>4 DEF WaitAny, StatusOf
<1>5. CASE Scan
  BY <1>5 DEF Scan, Dead
<1>6. CASE StoppedAtScan
  BY <1>6 DEF StoppedAtScan, Leave
<1>7. CASE PostfixGone
  <2>1. CASE stopping
    BY <1>7, <2>1 DEF PostfixGone, Leave, StopChildren
  <2>2. CASE ~stopping
    BY <1>7, <2>2 DEF PostfixGone, Leave, StopChildren
  <2> QED BY <2>1, <2>2
<1>8. CASE KillGroup
  BY <1>8 DEF KillGroup
<1>9. CASE BackoffEnds
  BY <1>9 DEF BackoffEnds, Leave
<1>10. CASE Respawn
  BY <1>10 DEF Respawn, Fork
<1>11. CASE Trap
  BY <1>11 DEF Trap, StopChildren
<1>12. CASE TrapAgain
  BY <1>12 DEF TrapAgain
<1>13. CASE WaitLast
  BY <1>13 DEF WaitLast
<1>14. CASE Exit
  BY <1>14 DEF Exit
<1>15. CASE SendTerm
  BY <1>15 DEF SendTerm
<1>16. CASE Forgets
  BY <1>16 DEF Forgets
<1>17. ASSUME NEW r \in Roles, Setsid(r) PROVE TypeOK'
  BY <1>17 DEF Setsid
<1>18. ASSUME NEW r \in Roles, RunsHelper(r) PROVE TypeOK'
  BY <1>18 DEF RunsHelper
<1>19. ASSUME NEW r \in Roles, HelperEnds(r) PROVE TypeOK'
  BY <1>19 DEF HelperEnds
<1>20. ASSUME NEW r \in Roles, Dies(r) PROVE TypeOK'
  BY <1>20 DEF Dies, Ends
<1>21. ASSUME NEW r \in Roles, TermEnds(r) PROVE TypeOK'
  BY <1>21 DEF TermEnds, Ends
<1>22. ASSUME NEW r \in Roles, EntersLoop(r) PROVE TypeOK'
  BY <1>22 DEF EntersLoop
<1>23. ASSUME NEW r \in Roles, Swallows(r) PROVE TypeOK'
  BY <1>23 DEF Swallows
<1>24. CASE UNCHANGED vars
  BY <1>24 DEF vars
<1> QED BY <1>1, <1>2, <1>3, <1>4, <1>5, <1>6, <1>7, <1>8, <1>9, <1>10, <1>11,
       <1>12, <1>13, <1>14, <1>15, <1>16, <1>17, <1>18, <1>19, <1>20, <1>21, <1>22,
       <1>23, <1>24 DEF Next, Supervise

\* Every step keeps the groups apart.
LEMMA GroupStep == TypeOK /\ NoStray /\ GroupInv /\ [Next]_vars => (NoStray /\ GroupInv)'
<1> SUFFICES ASSUME TypeOK /\ NoStray /\ GroupInv, [Next]_vars PROVE (NoStray /\ GroupInv)'
  OBVIOUS
<1> USE OrderFacts DEF TypeOK, NoStray, GroupInv, Locations, Alive, shell, processes
<1>1. CASE BootSpawn
  BY <1>1 DEF BootSpawn, Fork
<1>2. CASE Register
  BY <1>2 DEF Register
<1>3. CASE StoppedAtTop
  BY <1>3 DEF StoppedAtTop, Leave
<1>4. CASE WaitAny
  BY <1>4 DEF WaitAny, StatusOf
<1>5. CASE Scan
  BY <1>5 DEF Scan, Dead
<1>6. CASE StoppedAtScan
  BY <1>6 DEF StoppedAtScan, Leave
<1>7. CASE PostfixGone
  <2>1. CASE stopping
    BY <1>7, <2>1 DEF PostfixGone, Leave, StopChildren
  <2>2. CASE ~stopping
    BY <1>7, <2>2 DEF PostfixGone, Leave, StopChildren
  <2> QED BY <2>1, <2>2
<1>8. CASE KillGroup
  BY <1>8 DEF KillGroup
<1>9. CASE BackoffEnds
  BY <1>9 DEF BackoffEnds, Leave
<1>10. CASE Respawn
  BY <1>10 DEF Respawn, Fork
<1>11. CASE Trap
  BY <1>11 DEF Trap, StopChildren
<1>12. CASE TrapAgain
  BY <1>12 DEF TrapAgain
<1>13. CASE WaitLast
  BY <1>13 DEF WaitLast
<1>14. CASE Exit
  BY <1>14 DEF Exit
<1>15. CASE SendTerm
  BY <1>15 DEF SendTerm
<1>16. CASE Forgets
  BY <1>16 DEF Forgets
<1>17. ASSUME NEW r \in Roles, Setsid(r) PROVE (NoStray /\ GroupInv)'
  BY <1>17 DEF Setsid
<1>18. ASSUME NEW r \in Roles, RunsHelper(r) PROVE (NoStray /\ GroupInv)'
  BY <1>18 DEF RunsHelper
<1>19. ASSUME NEW r \in Roles, HelperEnds(r) PROVE (NoStray /\ GroupInv)'
  BY <1>19 DEF HelperEnds
<1>20. ASSUME NEW r \in Roles, Dies(r) PROVE (NoStray /\ GroupInv)'
  BY <1>20 DEF Dies, Ends
<1>21. ASSUME NEW r \in Roles, TermEnds(r) PROVE (NoStray /\ GroupInv)'
  BY <1>21 DEF TermEnds, Ends
<1>22. ASSUME NEW r \in Roles, EntersLoop(r) PROVE (NoStray /\ GroupInv)'
  BY <1>22 DEF EntersLoop
<1>23. ASSUME NEW r \in Roles, Swallows(r) PROVE (NoStray /\ GroupInv)'
  BY <1>23 DEF Swallows
<1>24. CASE UNCHANGED vars
  BY <1>24 DEF vars
<1> QED BY <1>1, <1>2, <1>3, <1>4, <1>5, <1>6, <1>7, <1>8, <1>9, <1>10, <1>11,
       <1>12, <1>13, <1>14, <1>15, <1>16, <1>17, <1>18, <1>19, <1>20, <1>21, <1>22,
       <1>23, <1>24 DEF Next, Supervise

\* Every step keeps what leads to the end.
LEMMA EndStep == TypeOK /\ EndInv /\ [Next]_vars => EndInv'
<1> SUFFICES ASSUME TypeOK /\ EndInv, [Next]_vars PROVE EndInv'
  OBVIOUS
<1> USE DEF TypeOK, EndInv, Locations, shell, processes
<1>1. CASE BootSpawn
  BY <1>1 DEF BootSpawn, Fork
<1>2. CASE Register
  BY <1>2 DEF Register
<1>3. CASE StoppedAtTop
  BY <1>3 DEF StoppedAtTop, Leave
<1>4. CASE WaitAny
  BY <1>4 DEF WaitAny, StatusOf
<1>5. CASE Scan
  BY <1>5 DEF Scan, Dead
<1>6. CASE StoppedAtScan
  BY <1>6 DEF StoppedAtScan, Leave
<1>7. CASE PostfixGone
  BY <1>7 DEF PostfixGone, Leave, StopChildren
<1>8. CASE KillGroup
  BY <1>8 DEF KillGroup
<1>9. CASE BackoffEnds
  BY <1>9 DEF BackoffEnds, Leave
<1>10. CASE Respawn
  BY <1>10 DEF Respawn, Fork
<1>11. CASE Trap
  BY <1>11 DEF Trap, StopChildren
<1>12. CASE TrapAgain
  BY <1>12 DEF TrapAgain
<1>13. CASE WaitLast
  BY <1>13 DEF WaitLast
<1>14. CASE Exit
  BY <1>14 DEF Exit
<1>15. CASE SendTerm
  BY <1>15 DEF SendTerm
<1>16. CASE Forgets
  BY <1>16 DEF Forgets
<1>17. ASSUME NEW r \in Roles, Setsid(r) PROVE EndInv'
  BY <1>17 DEF Setsid
<1>18. ASSUME NEW r \in Roles, RunsHelper(r) PROVE EndInv'
  BY <1>18 DEF RunsHelper
<1>19. ASSUME NEW r \in Roles, HelperEnds(r) PROVE EndInv'
  BY <1>19 DEF HelperEnds
<1>20. ASSUME NEW r \in Roles, Dies(r) PROVE EndInv'
  BY <1>20 DEF Dies, Ends
<1>21. ASSUME NEW r \in Roles, TermEnds(r) PROVE EndInv'
  BY <1>21 DEF TermEnds, Ends
<1>22. ASSUME NEW r \in Roles, EntersLoop(r) PROVE EndInv'
  BY <1>22 DEF EntersLoop
<1>23. ASSUME NEW r \in Roles, Swallows(r) PROVE EndInv'
  BY <1>23 DEF Swallows
<1>24. CASE UNCHANGED vars
  BY <1>24 DEF vars
<1> QED BY <1>1, <1>2, <1>3, <1>4, <1>5, <1>6, <1>7, <1>8, <1>9, <1>10, <1>11,
       <1>12, <1>13, <1>14, <1>15, <1>16, <1>17, <1>18, <1>19, <1>20, <1>21, <1>22,
       <1>23, <1>24 DEF Next, Supervise

\* Every step keeps track of who still runs.
LEMMA ReapStep == IInv /\ [Next]_vars => ReapInv'
<1> SUFFICES ASSUME IInv, [Next]_vars PROVE ReapInv'
  OBVIOUS
<1> USE OrderFacts DEF IInv, TypeOK, NoStray, GroupInv, EndInv, ReapInv, Locations, Alive, shell, processes
<1>1. CASE BootSpawn
  BY <1>1 DEF BootSpawn, Fork
<1>2. CASE Register
  BY <1>2 DEF Register
<1>3. CASE StoppedAtTop
  BY <1>3 DEF StoppedAtTop, Leave
<1>4. CASE WaitAny
  BY <1>4 DEF WaitAny, StatusOf
<1>5. CASE Scan
  BY <1>5 DEF Scan, Dead
<1>6. CASE StoppedAtScan
  BY <1>6 DEF StoppedAtScan, Leave
<1>7. CASE PostfixGone
  <2>1. CASE stopping
    BY <1>7, <2>1 DEF PostfixGone, Leave, StopChildren
  <2>2. CASE ~stopping
    BY <1>7, <2>2 DEF PostfixGone, Leave, StopChildren
  <2> QED BY <2>1, <2>2
<1>8. CASE KillGroup
  BY <1>8 DEF KillGroup
<1>9. CASE BackoffEnds
  BY <1>9 DEF BackoffEnds, Leave
<1>10. CASE Respawn
  BY <1>10 DEF Respawn, Fork
<1>11. CASE Trap
  BY <1>11 DEF Trap, StopChildren
<1>12. CASE TrapAgain
  BY <1>12 DEF TrapAgain
<1>13. CASE WaitLast
  BY <1>13 DEF WaitLast
<1>14. CASE Exit
  BY <1>14 DEF Exit
<1>15. CASE SendTerm
  BY <1>15 DEF SendTerm
<1>16. CASE Forgets
  BY <1>16 DEF Forgets
<1>17. ASSUME NEW r \in Roles, Setsid(r) PROVE ReapInv'
  BY <1>17 DEF Setsid
<1>18. ASSUME NEW r \in Roles, RunsHelper(r) PROVE ReapInv'
  BY <1>18 DEF RunsHelper
<1>19. ASSUME NEW r \in Roles, HelperEnds(r) PROVE ReapInv'
  BY <1>19 DEF HelperEnds
<1>20. ASSUME NEW r \in Roles, Dies(r) PROVE ReapInv'
  BY <1>20 DEF Dies, Ends
<1>21. ASSUME NEW r \in Roles, TermEnds(r) PROVE ReapInv'
  BY <1>21 DEF TermEnds, Ends
<1>22. ASSUME NEW r \in Roles, EntersLoop(r) PROVE ReapInv'
  BY <1>22 DEF EntersLoop
<1>23. ASSUME NEW r \in Roles, Swallows(r) PROVE ReapInv'
  BY <1>23 DEF Swallows
<1>24. CASE UNCHANGED vars
  BY <1>24 DEF vars
<1> QED BY <1>1, <1>2, <1>3, <1>4, <1>5, <1>6, <1>7, <1>8, <1>9, <1>10, <1>11,
       <1>12, <1>13, <1>14, <1>15, <1>16, <1>17, <1>18, <1>19, <1>20, <1>21, <1>22,
       <1>23, <1>24 DEF Next, Supervise

\* Every step keeps track of who is in the tables.
LEMMA TableStep == TypeOK /\ EndInv /\ TableInv /\ [Next]_vars => TableInv'
<1> SUFFICES ASSUME TypeOK /\ EndInv /\ TableInv, [Next]_vars PROVE TableInv'
  OBVIOUS
<1> USE OrderFacts DEF TypeOK, EndInv, TableInv, InHand, Locations, shell, processes
<1>1. CASE BootSpawn
  BY <1>1 DEF BootSpawn, Fork
<1>2. CASE Register
  BY <1>2 DEF Register
<1>3. CASE StoppedAtTop
  BY <1>3 DEF StoppedAtTop, Leave
<1>4. CASE WaitAny
  BY <1>4 DEF WaitAny, StatusOf
<1>5. CASE Scan
  BY <1>5 DEF Scan, Dead
<1>6. CASE StoppedAtScan
  BY <1>6 DEF StoppedAtScan, Leave
<1>7. CASE PostfixGone
  BY <1>7 DEF PostfixGone, Leave
<1>8. CASE KillGroup
  BY <1>8 DEF KillGroup
<1>9. CASE BackoffEnds
  BY <1>9 DEF BackoffEnds, Leave
<1>10. CASE Respawn
  BY <1>10 DEF Respawn, Fork
<1>11. CASE Trap
  BY <1>11 DEF Trap
<1>12. CASE TrapAgain
  BY <1>12 DEF TrapAgain
<1>13. CASE WaitLast
  BY <1>13 DEF WaitLast
<1>14. CASE Exit
  BY <1>14 DEF Exit
<1>15. CASE SendTerm \/ Forgets
  BY <1>15 DEF SendTerm, Forgets
<1>16. ASSUME NEW r \in Roles,
              Setsid(r) \/ EntersLoop(r) \/ RunsHelper(r) \/ HelperEnds(r) \/ Swallows(r)
       PROVE TableInv'
  BY <1>16 DEF Setsid, EntersLoop, RunsHelper, HelperEnds, Swallows
<1>17. ASSUME NEW r \in Roles, Dies(r) \/ TermEnds(r) PROVE TableInv'
  BY <1>17 DEF Dies, TermEnds, Ends
<1>18. CASE UNCHANGED vars
  BY <1>18 DEF vars
<1> QED BY <1>1, <1>2, <1>3, <1>4, <1>5, <1>6, <1>7, <1>8, <1>9, <1>10, <1>11,
       <1>12, <1>13, <1>14, <1>15, <1>16, <1>17, <1>18 DEF Next, Supervise

-----------------------------------------------------------------------------
(* Deaths and their reports.                                               *)

\* There are finitely many roles, because Order lists them.
LEMMA RolesFinite == IsFiniteSet(Roles)
<1> DEFINE S == 1..Len(Order)
           f == [i \in S |-> Order[i]]
<1>1. IsFiniteSet(S)
  BY OrderFacts, FS_Interval
<1>2. f \in Surjection(S, Roles)
  BY OrderFacts DEF Surjection, Roles
<1> QED BY <1>1, <1>2, FS_Surjection

\* The roles of any set are finite, and their number is a natural number.
LEMMA RolesCount ==
  ASSUME NEW S \in SUBSET Roles
  PROVE  IsFiniteSet(S) /\ Cardinality(S) \in Nat
  BY RolesFinite, FS_Subset, FS_CardinalityType

\* A role more, or a role fewer, changes the number by at most one.
LEMMA OneMore ==
  ASSUME NEW S \in SUBSET Roles, NEW r \in Roles
  PROVE  Cardinality(S \cup {r}) <= Cardinality(S) + 1
  BY RolesCount, FS_AddElement

LEMMA OneFewer ==
  ASSUME NEW S \in SUBSET Roles, NEW r \in S
  PROVE  Cardinality(S \ {r}) = Cardinality(S) - 1
  BY RolesCount, FS_RemoveElement

LEMMA NoneAtAll == Cardinality({}) = 0
  BY FS_EmptySet

\* When no role is in hand after the boot, all of them are in the tables.
LEMMA AllKnown ==
  ASSUME TypeOK, TableInv, pc \in {"wait", "scan"}
  PROVE  known = Roles
<1>1. known \subseteq Roles /\ next = Len(Order) + 1
  BY DEF TypeOK, TableInv
<1>2. \A i \in 1..Len(Order) : Order[i] \in known
  BY <1>1, OrderFacts DEF TableInv, InHand
<1>3. Roles \subseteq known
  BY <1>2 DEF Roles
<1> QED BY <1>1, <1>3

\* A step that neither makes a role wait nor takes a report keeps the count.
LEMMA CountKept ==
  ASSUME TypeOK, ReportInv, stopping' = stopping, forgot' = forgot,
         Waiting' = Waiting, Reports' = Reports
  PROVE  ReportInv'
  BY DEF ReportInv

\* Every step keeps a report for each role that waits for its restart.
LEMMA ReportStep ==
  TypeOK /\ GroupInv /\ EndInv /\ TableInv /\ ReportInv /\ [Next]_vars => ReportInv'
<1> SUFFICES ASSUME TypeOK, GroupInv, EndInv, TableInv, ReportInv, [Next]_vars PROVE ReportInv'
  OBVIOUS
<1> USE DEF shell, processes
<1>w. Waiting \in SUBSET Roles /\ Waiting' \in SUBSET Roles
  BY DEF Waiting
<1>n. Cardinality(Waiting) \in Nat /\ Cardinality(Waiting') \in Nat /\ Reports \in Nat
  BY <1>w, RolesCount DEF Reports, TypeOK, Kinds
<1>1. ASSUME NEW r \in Roles, Fork(r),
             (pc = "boot" /\ leader[r] = "none") \/ (pc = "respawn" /\ r = role)
      PROVE ReportInv'
  <2>1. Waiting' = Waiting
    BY <1>1 DEF Fork, Waiting, TypeOK, GroupInv
  <2>2. Reports' = Reports
    BY <1>1 DEF Fork, Reports
  <2> QED BY <1>1, <2>1, <2>2, CountKept DEF Fork
<1>2. CASE BootSpawn
  <2>1. Order[next] \in Roles /\ leader[Order[next]] = "none"
    BY <1>2, OrderFacts DEF BootSpawn, GroupInv, TypeOK
  <2> QED BY <1>1, <1>2, <2>1 DEF BootSpawn
<1>3. CASE Respawn
  BY <1>1, <1>3 DEF Respawn, TypeOK
<1>4. CASE Register \/ KillGroup \/ (BackoffEnds /\ ~stopping)
  <2>1. Waiting' = Waiting /\ Reports' = Reports
    BY <1>4 DEF Register, KillGroup, BackoffEnds, Waiting, Reports
  <2> QED BY <1>4, <2>1, CountKept DEF Register, KillGroup, BackoffEnds
<1>5. CASE stopping' = TRUE \/ forgot' = TRUE
  BY <1>5 DEF ReportInv
<1>6. CASE \/ StoppedAtTop \/ StoppedAtScan \/ PostfixGone \/ Trap \/ TrapAgain
           \/ WaitLast \/ Exit \/ Forgets
  <2>1. CASE StoppedAtTop \/ StoppedAtScan
    BY <1>5, <2>1 DEF StoppedAtTop, StoppedAtScan, TypeOK
  <2>2. CASE PostfixGone
    BY <1>5, <2>2 DEF PostfixGone, StopChildren, TypeOK
  <2>3. CASE Trap \/ TrapAgain
    BY <1>5, <2>3 DEF Trap, TrapAgain, StopChildren, TypeOK
  <2>4. CASE WaitLast \/ Exit
    BY <1>5, <2>4 DEF WaitLast, Exit, EndInv, TypeOK
  <2>5. CASE Forgets
    BY <1>5, <2>5 DEF Forgets
  <2> QED BY <1>6, <2>1, <2>2, <2>3, <2>4, <2>5
<1>7. CASE BackoffEnds /\ stopping
  BY <1>5, <1>7 DEF BackoffEnds, TypeOK
<1>8. CASE WaitAny
  <2>1. Waiting' = Waiting
    BY <1>8 DEF WaitAny, Waiting
  <2>2. Reports' = Reports
    BY <1>8 DEF WaitAny, Reports, TypeOK, Kinds
  <2> QED BY <1>8, <2>1, <2>2, CountKept DEF WaitAny
<1>9. CASE Scan /\ Dead = {}
  <2>1. Waiting' = {}
    BY <1>9, AllKnown DEF Scan, Waiting, Dead
  <2>2. Reports' \in Nat
    BY <1>9 DEF Scan, Reports, TypeOK, Kinds
  <2> QED BY <2>1, <2>2, NoneAtAll DEF ReportInv
<1>10. CASE Scan /\ Dead # {}
  <2>1. role' \in Waiting /\ Waiting' = Waiting \ {role'}
    BY <1>10 DEF Scan, Waiting, Dead, TypeOK
  <2>2. Reports' = Reports - 1
    BY <1>10 DEF Scan, Reports, TypeOK, Kinds
  <2>3. stopping' = stopping /\ forgot' = forgot
    BY <1>10 DEF Scan
  <2> QED BY <1>w, <1>n, <2>1, <2>2, <2>3, OneFewer DEF ReportInv
<1>11. CASE SendTerm
  BY <1>11, CountKept DEF SendTerm, Waiting, Reports
<1>12. ASSUME NEW r \in Roles,
              Setsid(r) \/ EntersLoop(r) \/ RunsHelper(r) \/ HelperEnds(r) \/ Swallows(r)
       PROVE ReportInv'
  <2>1. Waiting' = Waiting
    BY <1>12 DEF Setsid, EntersLoop, RunsHelper, HelperEnds, Swallows, Waiting, TypeOK
  <2> QED BY <1>12, <2>1, CountKept
       DEF Setsid, EntersLoop, RunsHelper, HelperEnds, Swallows, Reports
<1>13. ASSUME NEW r \in Roles, Dies(r) \/ TermEnds(r) PROVE ReportInv'
  <2>1. PICK kind \in Kinds : Ends(r, kind)
    BY <1>13 DEF Dies, TermEnds, Kinds
  <2>2. Waiting' \in SUBSET (Waiting \cup {r})
    BY <2>1 DEF Ends, Waiting, TypeOK
  <2>3. Waiting \subseteq Waiting'
    BY <2>1 DEF Ends, Waiting, TypeOK
  <2>4. Waiting' = Waiting \/ Waiting' = Waiting \cup {r}
    BY <2>2, <2>3
  <2>5. Reports' = Reports + 1
    BY <2>1 DEF Ends, Reports, TypeOK, Kinds
  <2>6. Cardinality(Waiting') <= Cardinality(Waiting) + 1
    BY <1>w, <1>n, <2>4, OneMore
  <2>7. stopping' = stopping /\ forgot' = forgot
    BY <2>1 DEF Ends
  <2> QED BY <1>n, <2>5, <2>6, <2>7 DEF ReportInv
<1>14. CASE UNCHANGED vars
  BY <1>14, CountKept DEF vars, Waiting, Reports
<1> QED BY <1>2, <1>3, <1>4, <1>6, <1>7, <1>8, <1>9, <1>10, <1>11, <1>12, <1>13,
       <1>14 DEF Next, Supervise

-----------------------------------------------------------------------------
LEMMA InvInit == Init => IInv
<1> SUFFICES ASSUME Init PROVE IInv
  OBVIOUS
<1> USE OrderFacts, DeathsAssumption DEF Init
<1>1. TypeOK
  <2>1. leader \in [Roles -> {"none", "forked", "starting", "up", "dead"}]
    OBVIOUS
  <2>2. helper \in [Roles -> SUBSET {"own", "stray"}]
    OBVIOUS
  <2>3. unheard \in [Kinds -> Nat]
    OBVIOUS
  <2>4. next \in 1..Len(Order) + 1 /\ deaths \in 0..MaxDeaths
    BY DEF DeathsAssumption
  <2> QED BY <2>1, <2>2, <2>3, <2>4 DEF TypeOK, Locations
<1>2. NoStray /\ EndInv
  BY DEF NoStray, EndInv
<1>3. GroupInv
  BY DEF GroupInv
<1>4. ReapInv
  BY DEF ReapInv, Alive
<1>5. TableInv
  BY <1>1 DEF TableInv, TypeOK, Roles
<1>6. Waiting = {} /\ Reports = 0
  BY DEF Waiting, Reports, Kinds
<1>7. ReportInv
  BY <1>6, NoneAtAll DEF ReportInv
<1> QED BY <1>1, <1>2, <1>3, <1>4, <1>5, <1>7 DEF IInv

LEMMA InvStep == IInv /\ [Next]_vars => IInv'
  BY TypeStep, GroupStep, EndStep, ReapStep, TableStep, ReportStep DEF IInv

THEOREM Inductive == Spec => []IInv
  BY InvInit, InvStep, PTL DEF Spec

\* The tables, the processes and the counters have their shapes.
THEOREM TypeCorrect == Spec => []TypeOK
<1>1. IInv => TypeOK
  BY DEF IInv
<1> QED BY <1>1, Inductive, PTL

\* A role is never restarted beside what its predecessor left running.
THEOREM GroupsApart == Spec => []NoStray
<1>1. IInv => NoStray
  BY DEF IInv
<1> QED BY <1>1, Inductive, PTL

\* A container that ends without being stopped exits nonzero.
THEOREM UnaskedExitIsFailure == Spec => []UnaskedExitFails
<1>1. IInv => UnaskedExitFails
  BY DEF IInv, EndInv, UnaskedExitFails
<1> QED BY <1>1, Inductive, PTL

\* In the wait, every role is in the tables and every dead one has a report to
\* come, unless bash has forgotten a death.
THEOREM EveryDeathReported == Spec => []EveryRoleWatched
<1>1. ASSUME IInv PROVE EveryRoleWatched
  <2> SUFFICES ASSUME pc = "wait", ~stopping, ~forgot
               PROVE  /\ known = Roles
                      /\ Cardinality(Dead) <= unheard["clean"] + unheard["failed"]
                                              + unheard["killed"]
    BY DEF EveryRoleWatched
  <2>1. known = Roles
    BY <1>1, AllKnown DEF IInv
  <2>2. Dead = Waiting
    BY <2>1 DEF Dead, Waiting
  <2>3. Reports = unheard["clean"] + unheard["failed"] + unheard["killed"]
    BY <1>1 DEF Reports, IInv, TypeOK, Kinds
  <2>4. Cardinality(Waiting) <= Reports
    BY <1>1 DEF IInv, ReportInv
  <2> QED BY <2>1, <2>2, <2>3, <2>4
<1> QED BY <1>1, Inductive, PTL

\* PID 1 exits after everything it has started and signalled.
THEOREM Pid1IsLast == Spec => []NothingOutlivesPid1
<1>1. IInv => NothingOutlivesPid1
  BY DEF IInv, TypeOK, ReapInv, NothingOutlivesPid1
<1> QED BY <1>1, Inductive, PTL

=============================================================================
