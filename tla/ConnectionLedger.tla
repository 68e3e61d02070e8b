-------------------------- MODULE ConnectionLedger --------------------------
(***************************************************************************)
(* src/connection_ledger.py: the JSON file Cache/connections.txt in which  *)
(* the host records every transfer it has accepted and not finished, so    *)
(* that a restart can resume them.  Transfer threads register and          *)
(* unregister entries; a semaphore shared through NodeConfig serialises    *)
(* the read-modify-write cycles.  Rewriting the file is not atomic:        *)
(* open(path, "w") truncates it, and the entries reach it later.           *)
(*                                                                         *)
(* The JSON list is abstracted to the number of times it holds each entry: *)
(* equal dicts are interchangeable and no caller relies on their order.    *)
(***************************************************************************)
EXTENDS Naturals

CONSTANTS Threads,    \* the threads that call the ledger
          Entries,    \* the transfer requests they record
          Faults,     \* may the disk fail and the process crash?
          MaxCopies   \* bound: no register call for an entry held that often

ASSUME FaultsAssumption == Faults \in BOOLEAN
ASSUME MaxCopiesAssumption == MaxCopies \in Nat

VARIABLES readable,  \* the file exists and holds a JSON document
          stored,    \* the entries of that document
          sem,       \* the value of config.semaphore
          pc,        \* pc[t]: where t is in the call it makes
          op, arg,   \* op[t], arg[t]: the method t called and its argument
          entries,   \* entries[t]: the local variable `entries` of the call
          answer     \* answer[t]: the value the call is about to return

vars == <<readable, stored, sem, pc, op, arg, entries, answer>>

Operations == {"register", "unregister", "list"}
NoEntries == [e \in Entries |-> 0]
Inside == {"read", "open", "dump", "release"}

Init ==
  /\ readable = FALSE
  /\ stored = NoEntries
  /\ sem = 1
  /\ pc = [t \in Threads |-> "idle"]
  /\ op = [t \in Threads |-> "list"]
  /\ arg \in [Threads -> Entries]
  /\ entries = [t \in Threads |-> NoEntries]
  /\ answer = [t \in Threads |-> "none"]

-----------------------------------------------------------------------------
(* What the ledger holds as far as its callers can tell.  While a thread   *)
(* is between truncating the file and filling it, that is what the file    *)
(* held before: its `entries` with its own change taken back.              *)

Undone(t) ==
  [entries[t] EXCEPT ![arg[t]] = IF op[t] = "register" THEN @ - 1 ELSE @ + 1]

pending ==
  IF \E t \in Threads : pc[t] = "dump"
    THEN Undone(CHOOSE t \in Threads : pc[t] = "dump")
    ELSE stored

-----------------------------------------------------------------------------

Call(t) ==
  /\ pc[t] = "idle"
  /\ pc' = [pc EXCEPT ![t] = "acquire"]
  /\ \E o \in Operations, e \in Entries :
       /\ o = "register" => pending[e] < MaxCopies
       /\ op' = [op EXCEPT ![t] = o]
       /\ arg' = [arg EXCEPT ![t] = e]
  /\ UNCHANGED <<readable, stored, sem, entries, answer>>

(* Mutant: the cycle is not guarded by the semaphore.                      *)
Acquire_Unguarded(t) ==
  /\ pc[t] = "acquire"
  /\ sem' = 0
  /\ pc' = [pc EXCEPT ![t] = "read"]
  /\ UNCHANGED <<readable, stored, op, arg, entries, answer>>

Acquire(t) ==
  /\ pc[t] = "acquire"
  /\ sem > 0
  /\ sem' = sem - 1
  /\ pc' = [pc EXCEPT ![t] = "read"]
  /\ UNCHANGED <<readable, stored, op, arg, entries, answer>>

(* _read_entries: a missing file or one that is not JSON reads as [].      *)
ReadEntries == IF readable THEN stored ELSE NoEntries

ReadToRegister(t) ==
  /\ pc[t] = "read"
  /\ op[t] = "register"
  /\ entries' = [entries EXCEPT ![t] = [ReadEntries EXCEPT ![arg[t]] = @ + 1]]
  /\ pc' = [pc EXCEPT ![t] = "open"]
  /\ UNCHANGED <<readable, stored, sem, op, arg, answer>>

ReadToUnregister(t) ==
  /\ pc[t] = "read"
  /\ op[t] = "unregister"
  /\ ReadEntries[arg[t]] > 0
  /\ entries' = [entries EXCEPT ![t] = [ReadEntries EXCEPT ![arg[t]] = @ - 1]]
  /\ pc' = [pc EXCEPT ![t] = "open"]
  /\ UNCHANGED <<readable, stored, sem, op, arg, answer>>

(* Mutant: the handler of ValueError releases, and so does finally.        *)
ReadMissing_ReleasesTwice(t) ==
  /\ pc[t] = "read"
  /\ op[t] = "unregister"
  /\ ReadEntries[arg[t]] = 0
  /\ sem' = sem + 1
  /\ answer' = [answer EXCEPT ![t] = "false"]
  /\ pc' = [pc EXCEPT ![t] = "release"]
  /\ UNCHANGED <<readable, stored, op, arg, entries>>

(* Mutant: ValueError leaves the method before the release.                *)
ReadMissing_KeepsSemaphore(t) ==
  /\ pc[t] = "read"
  /\ op[t] = "unregister"
  /\ ReadEntries[arg[t]] = 0
  /\ pc' = [pc EXCEPT ![t] = "idle"]
  /\ UNCHANGED <<readable, stored, sem, op, arg, entries, answer>>

(* entries.remove raises ValueError: the call fails and writes nothing.    *)
ReadMissing(t) ==
  /\ pc[t] = "read"
  /\ op[t] = "unregister"
  /\ ReadEntries[arg[t]] = 0
  /\ answer' = [answer EXCEPT ![t] = "false"]
  /\ pc' = [pc EXCEPT ![t] = "release"]
  /\ UNCHANGED <<readable, stored, sem, op, arg, entries>>

ReadToList(t) ==
  /\ pc[t] = "read"
  /\ op[t] = "list"
  /\ entries' = [entries EXCEPT ![t] = ReadEntries]
  /\ answer' = [answer EXCEPT ![t] = "true"]
  /\ pc' = [pc EXCEPT ![t] = "release"]
  /\ UNCHANGED <<readable, stored, sem, op, arg>>

(* Opening the file, to read it or to rewrite it, raises OSError: the call *)
(* returns False, or, from list_all, raises.                               *)
OpenFails(t) ==
  /\ Faults
  /\ pc[t] \in {"read", "open"}
  /\ answer' = [answer EXCEPT ![t] = "false"]
  /\ entries' = [entries EXCEPT ![t] = NoEntries]
  /\ pc' = [pc EXCEPT ![t] = "release"]
  /\ UNCHANGED <<readable, stored, sem, op, arg>>

(* open(path, "w"): from here until the dump the file is empty.            *)
OpenTruncates(t) ==
  /\ pc[t] = "open"
  /\ readable' = FALSE
  /\ stored' = NoEntries
  /\ pc' = [pc EXCEPT ![t] = "dump"]
  /\ UNCHANGED <<sem, op, arg, entries, answer>>

Dump(t) ==
  /\ pc[t] = "dump"
  /\ readable' = TRUE
  /\ stored' = entries[t]
  /\ entries' = [entries EXCEPT ![t] = NoEntries]
  /\ answer' = [answer EXCEPT ![t] = "true"]
  /\ pc' = [pc EXCEPT ![t] = "release"]
  /\ UNCHANGED <<sem, op, arg>>

(* Mutant: the caller is not told.                                         *)
DumpFails_Unnoticed(t) ==
  /\ Faults
  /\ pc[t] = "dump"
  /\ entries' = [entries EXCEPT ![t] = NoEntries]
  /\ answer' = [answer EXCEPT ![t] = "true"]
  /\ pc' = [pc EXCEPT ![t] = "release"]
  /\ UNCHANGED <<readable, stored, sem, op, arg>>

(* The disk is full: the file is left empty or cut short, and the call     *)
(* returns False.                                                          *)
DumpFails(t) ==
  /\ Faults
  /\ pc[t] = "dump"
  /\ entries' = [entries EXCEPT ![t] = NoEntries]
  /\ answer' = [answer EXCEPT ![t] = "false"]
  /\ pc' = [pc EXCEPT ![t] = "release"]
  /\ UNCHANGED <<readable, stored, sem, op, arg>>

(* The finally clause, and the return that follows it.                     *)
Release(t) ==
  /\ pc[t] = "release"
  /\ sem' = sem + 1
  /\ pc' = [pc EXCEPT ![t] = "idle"]
  /\ entries' = [entries EXCEPT ![t] = NoEntries]
  /\ answer' = [answer EXCEPT ![t] = "none"]
  /\ UNCHANGED <<readable, stored, op, arg>>

(* The process dies and is started again: a new semaphore, no threads, and *)
(* the file as it was left.                                                *)
Crash ==
  /\ Faults
  /\ sem' = 1
  /\ pc' = [t \in Threads |-> "idle"]
  /\ entries' = [t \in Threads |-> NoEntries]
  /\ answer' = [t \in Threads |-> "none"]
  /\ UNCHANGED <<readable, stored, op, arg>>

Critical(t) ==
  \/ ReadToRegister(t) \/ ReadToUnregister(t) \/ ReadMissing(t) \/ ReadToList(t)
  \/ OpenFails(t) \/ OpenTruncates(t) \/ Dump(t) \/ DumpFails(t) \/ Release(t)

Next ==
  \/ \E t \in Threads : Call(t) \/ Acquire(t) \/ Critical(t)
  \/ Crash

Spec == Init /\ [][Next]_vars

(* A thread that holds the semaphore runs no code that waits, so it is     *)
(* scheduled until it has released it.                                     *)
FairSpec == Spec /\ \A t \in Threads : WF_vars(Critical(t))

-----------------------------------------------------------------------------

TypeOK ==
  /\ readable \in BOOLEAN
  /\ stored \in [Entries -> Nat]
  /\ sem \in {0, 1}
  /\ pc \in [Threads -> Inside \cup {"idle", "acquire"}]
  /\ op \in [Threads -> Operations]
  /\ arg \in [Threads -> Entries]
  /\ entries \in [Threads -> [Entries -> Nat]]
  /\ answer \in [Threads -> {"none", "true", "false"}]

(* Mutual exclusion: at most one thread is between the acquire and the     *)
(* release of any ledger call, and the semaphore is free exactly when      *)
(* none is, so it can neither be leaked nor released twice.                *)
OneInside ==
  /\ \A t, u \in Threads : pc[t] \in Inside /\ pc[u] \in Inside => t = u
  /\ sem = 0 <=> \E t \in Threads : pc[t] \in Inside

(* The file is never rewritten from a stale read: what a thread is about to *)
(* write is what the file holds at that moment with its one change made, so *)
(* no other thread's change is lost.                                        *)
FreshWrite == \A t \in Threads : pc[t] = "open" => Undone(t) = stored

(* The inductive invariant behind the three above: what the locals of a    *)
(* call hold at each point of it.                                          *)
Locals ==
  /\ \A t \in Threads : pc[t] \in {"open", "dump"} =>
       /\ op[t] \in {"register", "unregister"}
       /\ op[t] = "register" => entries[t][arg[t]] > 0
  /\ \A t \in Threads : pc[t] \in {"idle", "acquire", "read"} => entries[t] = NoEntries
  /\ \A t \in Threads : pc[t] = "dump" => ~readable
  /\ ~readable => stored = NoEntries

IInv == TypeOK /\ OneInside /\ FreshWrite /\ Locals

(* No failure of the disk and no interleaving leaves the semaphore taken   *)
(* for ever: every path out of register, unregister and list_all releases  *)
(* it, the ones that raise included.                                       *)
SemaphoreReturns == sem = 0 ~> sem = 1

(* Seen from its callers the ledger is an atomic multiset of pending       *)
(* transfers: a call takes effect in one step between its acquire and its  *)
(* release, True is returned exactly when it did, and a failure loses      *)
(* either nothing or everything.                                           *)
Phase(t) ==
  CASE pc[t] = "idle" -> "idle"
    [] pc[t] = "release" -> "answered"
    [] OTHER -> "asked"

View(t) == IF pc[t] = "release" THEN entries[t] ELSE NoEntries

Abstract == INSTANCE PendingTransfers
  WITH Lossy <- Faults,
       phase <- [t \in Threads |-> Phase(t)],
       view <- [t \in Threads |-> View(t)]

Promise == Abstract!Spec
=============================================================================
