---------------------------- MODULE HistoryProof ----------------------------
(***************************************************************************)
(* What a server saved stays in the history file (EntrySurvives), for any  *)
(* number of servers and targets and however long the clock runs.          *)
(***************************************************************************)
EXTENDS History, TLAPS

(* An entry is the time of its recording, or 0.                            *)
Histories == [Targets -> Nat]

TypeOK ==
    /\ clock \in Nat
    /\ state \in [Servers -> {"down", "running", "saving", "merged"}]
    /\ making \in [Servers -> Histories]
    /\ total \in [Servers -> Histories]
    /\ file \in Histories
    /\ saved \in Histories
    /\ raced \in BOOLEAN

(* Young enough to survive the filter.                                     *)
Fresh(time, now) == time > now - Retention

(* A server between load and rename holds what the file and its own build  *)
(* amount to now, but for entries that have become too old.                *)
MergeCurrent(s) ==
    \A t \in Targets :
        LET entry == Merge(file, making[s])[t]
        IN  Fresh(entry, clock) => total[s][t] = entry

(* EntrySurvives is not inductive: a server between load and rename must   *)
(* not overwrite the file with something older.  That it does not is due   *)
(* to its being alone there.                                               *)
Alone ==
    /\ \A r, s \in Servers : state[r] = "merged" /\ state[s] = "merged" => r = s
    /\ \A s \in Servers : state[s] = "merged" => MergeCurrent(s)
    /\ \A t \in Targets : Fresh(saved[t], clock) => file[t] = saved[t]

HistoryInv == raced \/ Alone

(* merge and the filter yield a history again.                             *)
LEMMA MergePurgeTypes ==
    ASSUME NEW h \in Histories, NEW i \in Histories, clock \in Nat
    PROVE  Merge(h, i) \in Histories /\ Purge(h) \in Histories
    BY DEF Histories, Merge, Purge, NoEntry

(* An entry that is fresh has been so before.                              *)
LEMMA FreshBefore ==
    ASSUME NEW n \in Nat, NEW now \in Nat, NEW later \in Nat, later >= now, Fresh(n, later)
    PROVE  Fresh(n, now)
    BY HistoryAssumption DEF Fresh

(* What load, merge and filter compute is current.                         *)
LEMMA PurgeCurrent ==
    ASSUME NEW h \in Histories, NEW t \in Targets, Fresh(h[t], clock)
    PROVE  Purge(h)[t] = h[t]
    BY DEF Histories, Purge, Fresh

(* Every handler keeps histories histories.                                *)
LEMMA HistoryTypeStep == TypeOK /\ [Next]_vars => TypeOK'
<1> SUFFICES ASSUME TypeOK, [Next]_vars PROVE TypeOK'
    OBVIOUS
<1>1. Empty \in Histories
    BY DEF Empty, Histories, NoEntry
<1>2. ASSUME NEW s \in Servers, End(s) PROVE state' \in [Servers -> {"down", "running", "saving", "merged"}]
          /\ making' \in [Servers -> Histories] /\ total' \in [Servers -> Histories]
    BY <1>1, <1>2 DEF TypeOK, End
<1>3. CASE UNCHANGED vars
    BY <1>3 DEF TypeOK, vars
<1>4. CASE Tick
    BY <1>4 DEF TypeOK, Tick
<1>5. ASSUME NEW s \in Servers, Start(s) PROVE TypeOK'
    BY <1>5 DEF TypeOK, Start
<1>6. ASSUME NEW s \in Servers, NEW t \in Targets, Update(s, t) PROVE TypeOK'
    BY <1>6 DEF TypeOK, Update, Histories
<1>7. ASSUME NEW s \in Servers, Shutdown(s) PROVE TypeOK'
    BY <1>2, <1>7 DEF TypeOK, Shutdown, CreateTemp
<1>8. ASSUME NEW s \in Servers, LoadAndMerge(s) PROVE TypeOK'
  <2>1. Purge(Merge(file, making[s])) \in Histories
      BY MergePurgeTypes DEF TypeOK
  <2> QED
      BY <1>8, <2>1 DEF TypeOK, LoadAndMerge
<1>9. ASSUME NEW s \in Servers, Persist(s) PROVE TypeOK'
  <2>1. saved' \in Histories
      BY <1>9 DEF TypeOK, Persist, Histories, NoEntry
  <2> QED
      BY <1>2, <1>9, <2>1 DEF TypeOK, Persist
<1>10. ASSUME NEW s \in Servers, Crash(s) PROVE TypeOK'
    BY <1>2, <1>10 DEF TypeOK, Crash
<1> QED
    BY <1>3, <1>4, <1>5, <1>6, <1>7, <1>8, <1>9, <1>10 DEF Next

(* A step that leaves the file, the saved entries and the merges alone     *)
(* keeps the invariant, also if it is the clock's or ends a server.        *)
LEMMA HistoryFrame ==
    ASSUME TypeOK, TypeOK', HistoryInv, UNCHANGED <<file, saved, raced>>, clock' >= clock,
           \A s \in Servers : state'[s] = "merged" =>
               state[s] = "merged" /\ making'[s] = making[s] /\ total'[s] = total[s]
    PROVE  HistoryInv'
<1> SUFFICES ASSUME ~raced PROVE Alone'
    BY DEF HistoryInv
<1>1. Alone
    BY DEF HistoryInv
<1>2. \A n \in Nat : Fresh(n, clock') => Fresh(n, clock)
  <2>1. clock \in Nat /\ clock' \in Nat
      BY DEF TypeOK
  <2> QED
      BY <2>1, FreshBefore
<1>3. ASSUME NEW s \in Servers, state'[s] = "merged" PROVE MergeCurrent(s)'
  <2>1. MergeCurrent(s) /\ Merge(file, making[s])' = Merge(file, making[s]) /\ total'[s] = total[s]
      BY <1>1, <1>3 DEF Alone, Merge
  <2>2. Merge(file, making[s]) \in Histories
      BY MergePurgeTypes DEF TypeOK
  <2> QED
      BY <1>2, <2>1, <2>2 DEF MergeCurrent, Histories
<1>4. \A t \in Targets : Fresh(saved'[t], clock') => file'[t] = saved'[t]
    BY <1>1, <1>2 DEF Alone, TypeOK, Histories
<1> QED
    BY <1>1, <1>3, <1>4 DEF Alone

(* No step breaks the invariant.                                           *)
LEMMA HistoryStep == TypeOK /\ HistoryInv /\ [Next]_vars => HistoryInv'
<1> SUFFICES ASSUME TypeOK, HistoryInv, [Next]_vars PROVE HistoryInv'
    OBVIOUS
<1>1. TypeOK'
    BY HistoryTypeStep
<1>2. ASSUME NEW s \in Servers, End(s)
      PROVE  \A r \in Servers : state'[r] = "merged" =>
                 state[r] = "merged" /\ making'[r] = making[r] /\ total'[r] = total[r]
    BY <1>2 DEF End, TypeOK
<1>3. CASE UNCHANGED vars
    BY <1>1, <1>3, HistoryFrame DEF vars, TypeOK
<1>4. CASE Tick
    BY <1>1, <1>4, HistoryFrame DEF Tick, TypeOK
<1>5. ASSUME NEW s \in Servers, Start(s) PROVE HistoryInv'
    BY <1>1, <1>5, HistoryFrame DEF Start, TypeOK
<1>6. ASSUME NEW s \in Servers, NEW t \in Targets, Update(s, t) PROVE HistoryInv'
    BY <1>1, <1>6, HistoryFrame DEF Update, TypeOK
<1>7. ASSUME NEW s \in Servers, Shutdown(s) PROVE HistoryInv'
    BY <1>1, <1>2, <1>7, HistoryFrame DEF Shutdown, CreateTemp, TypeOK
<1>8. ASSUME NEW s \in Servers, LoadAndMerge(s) PROVE HistoryInv'
  <2> SUFFICES ASSUME ~raced' PROVE Alone'
      BY DEF HistoryInv
  <2>1. Alone /\ \A r \in Servers \ {s} : state[r] # "merged"
      BY <1>8 DEF LoadAndMerge, HistoryInv
  <2>2. \A r \in Servers : state'[r] = "merged" => r = s
      BY <1>8, <2>1 DEF LoadAndMerge, TypeOK
  <2>3. MergeCurrent(s)'
    <3>1. Merge(file, making[s]) \in Histories
        BY MergePurgeTypes DEF TypeOK
    <3>2. total'[s] = Purge(Merge(file, making[s])) /\ UNCHANGED <<clock, making, file>>
        BY <1>8 DEF LoadAndMerge, TypeOK
    <3>3. \A t \in Targets : Fresh(Merge(file, making[s])[t], clock) =>
              total'[s][t] = Merge(file, making[s])[t]
        BY <3>1, <3>2, PurgeCurrent
    <3> QED
        BY <3>2, <3>3 DEF MergeCurrent, Fresh, Merge
  <2>4. \A t \in Targets : Fresh(saved'[t], clock') => file'[t] = saved'[t]
      BY <1>8, <2>1 DEF Alone, LoadAndMerge, Fresh
  <2> QED
      BY <2>2, <2>3, <2>4 DEF Alone
<1>9. ASSUME NEW s \in Servers, Persist(s) PROVE HistoryInv'
  <2> SUFFICES ASSUME ~raced' PROVE Alone'
      BY DEF HistoryInv
  <2>1. Alone /\ state[s] = "merged"
      BY <1>9 DEF Persist, HistoryInv
  <2>2. \A r \in Servers : state'[r] # "merged"
      BY <1>9, <2>1 DEF Persist, End, Alone, TypeOK
  <2>3. ASSUME NEW t \in Targets, Fresh(saved'[t], clock') PROVE file'[t] = saved'[t]
    <3>1. /\ saved'[t] = IF making[s][t] # NoEntry THEN making[s][t] ELSE saved[t]
          /\ file'[t] = total[s][t] /\ clock' = clock
        BY <1>9 DEF Persist
    <3>2. Fresh(saved'[t], clock)
        BY <2>3, <3>1 DEF Fresh
    <3>3. Merge(file, making[s])[t] = IF making[s][t] # NoEntry THEN making[s][t] ELSE file[t]
        BY DEF Merge
    <3>4. Merge(file, making[s])[t] = saved'[t]
        BY <2>1, <3>1, <3>2, <3>3 DEF Alone
    <3> QED
        BY <2>1, <3>1, <3>2, <3>4 DEF Alone, MergeCurrent
  <2> QED
      BY <2>2, <2>3 DEF Alone
<1>10. ASSUME NEW s \in Servers, Crash(s) PROVE HistoryInv'
    BY <1>1, <1>2, <1>10, HistoryFrame DEF Crash, TypeOK
<1> QED
    BY <1>3, <1>4, <1>5, <1>6, <1>7, <1>8, <1>9, <1>10 DEF Next

(* The empty history has nothing to lose.                                  *)
LEMMA HistoryInit == Init => TypeOK /\ HistoryInv
<1> SUFFICES ASSUME Init PROVE TypeOK /\ HistoryInv
    OBVIOUS
<1>1. TypeOK
    BY DEF Init, TypeOK, Histories, Empty, NoEntry
<1>2. Alone
    BY DEF Init, Alone, Empty, NoEntry
<1> QED
    BY <1>1, <1>2 DEF HistoryInv

(* shutdown merges into the file what the build recorded, by way of a      *)
(* temporary file and a rename: no entry that was saved gets lost before   *)
(* it is too old, unless two servers are between load and rename at once.  *)
THEOREM SavedStays == Spec => []EntrySurvives
<1>1. TypeOK /\ HistoryInv => EntrySurvives
    BY DEF HistoryInv, Alone, Fresh, EntrySurvives
<1> QED
    BY <1>1, HistoryInit, HistoryTypeStep, HistoryStep, PTL DEF Spec
=============================================================================
