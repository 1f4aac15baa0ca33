------------------------------ MODULE History -------------------------------
(***************************************************************************)
(* The history file (history.rs), which all servers of a user share: each  *)
(* records the elapsed times of its build and, when it shuts down, merges  *)
(* them into the file by way of a temporary file and a rename.             *)
(***************************************************************************)
EXTENDS Integers

CONSTANTS
    Servers,        \* server processes with the same home directory
    Targets,        \* what Task::get_target_id names
    Retention,      \* how long entries are kept: half a year
    MaxTime         \* the last tick of the clock (a bound)

ASSUME HistoryAssumption == Retention \in Nat /\ MaxTime \in Nat

(* A history maps targets to the time at which the entry was recorded; the *)
(* elapsed time that goes with it is left out.                             *)
NoEntry == 0
Empty == [t \in Targets |-> NoEntry]

VARIABLES
    clock,
    state,      \* of each server: "down", "running", "saving" or "merged"
    making,     \* in_the_making
    total,      \* total_history, as written to the temporary file
    file,       \* .spraycc.history
    saved,      \* ghost: per target, the entry saved last
    raced       \* ghost: two servers were between load and rename at once

vars == <<clock, state, making, total, file, saved, raced>>

Init ==
    /\ clock = 1
    /\ state = [s \in Servers |-> "down"]
    /\ making = [s \in Servers |-> Empty]
    /\ total = [s \in Servers |-> Empty]
    /\ file = Empty
    /\ saved = Empty
    /\ raced = FALSE

Tick ==
    /\ clock < MaxTime
    /\ clock' = clock + 1
    /\ UNCHANGED <<state, making, total, file, saved, raced>>

Start(s) ==
    /\ state[s] = "down"
    /\ state' = [state EXCEPT ![s] = "running"]
    /\ UNCHANGED <<clock, making, total, file, saved, raced>>

(* The process ends, and with it what it had in memory.                    *)
End(s) ==
    /\ state' = [state EXCEPT ![s] = "down"]
    /\ making' = [making EXCEPT ![s] = Empty]
    /\ total' = [total EXCEPT ![s] = Empty]

(* update: an existing entry is replaced.                                  *)
Update(s, t) ==
    /\ state[s] = "running"
    /\ making' = [making EXCEPT ![s][t] = clock]
    /\ UNCHANGED <<clock, state, total, file, saved, raced>>

TruncateInPlace == file' = Empty                                    \* mutant
CreateTemp == UNCHANGED file

(* ServerState::shutdown: nothing is written unless there is an entry.     *)
Shutdown(s) ==
    /\ state[s] = "running"
    /\ \/ /\ making[s] = Empty
          /\ End(s)
          /\ UNCHANGED file
       \/ /\ making[s] # Empty
          /\ state' = [state EXCEPT ![s] = "saving"]
          /\ CreateTemp
          /\ UNCHANGED <<making, total>>
    /\ UNCHANGED <<clock, saved, raced>>

(* merge: entries of the incoming history replace those of h.              *)
Merge(h, incoming) ==
    [t \in Targets |-> IF incoming[t] # NoEntry THEN incoming[t] ELSE h[t]]

(* Entries of half a year and more are dropped.                            *)
Purge(h) ==
    [t \in Targets |-> IF h[t] > clock - Retention THEN h[t] ELSE NoEntry]

(* Load the file (a missing one is empty), merge and filter.               *)
LoadAndMerge(s) ==
    /\ state[s] = "saving"
    /\ state' = [state EXCEPT ![s] = "merged"]
    /\ total' = [total EXCEPT ![s] = Purge(Merge(file, making[s]))]
    /\ raced' = (raced \/ \E r \in Servers \ {s} : state[r] = "merged")
    /\ UNCHANGED <<clock, making, file, saved>>

(* The temporary file is written, and renamed over the history.            *)
Persist(s) ==
    /\ state[s] = "merged"
    /\ End(s)
    /\ file' = total[s]
    /\ saved' = [t \in Targets |-> IF making[s][t] # NoEntry THEN making[s][t] ELSE saved[t]]
    /\ UNCHANGED <<clock, raced>>

(* Killed, ended by an error before shutdown, or an error creating or      *)
(* writing the temporary file: what was to be added is lost.               *)
Crash(s) ==
    /\ state[s] # "down"
    /\ End(s)
    /\ UNCHANGED <<clock, file, saved, raced>>

Next ==
    \/ Tick
    \/ \E s \in Servers :
          \/ Start(s)
          \/ \E t \in Targets : Update(s, t)
          \/ Shutdown(s)
          \/ LoadAndMerge(s)
          \/ Persist(s)
          \/ Crash(s)

Spec == Init /\ [][Next]_vars

-----------------------------------------------------------------------------
(* What a server saved for a target is in the file until it is too old or  *)
(* another one saves that target: whatever other servers add, in whichever *)
(* order they start, record and save, and wherever they crash; unless two  *)
(* of them were between loading the file and renaming it at the same time. *)
EntrySurvives ==
    raced \/ \A t \in Targets : saved[t] > clock - Retention => file[t] = saved[t]
=============================================================================
