----------------------- MODULE ConnectionLedgerProofs -----------------------
(* Proofs about ConnectionLedger, for any set of threads and of entries.   *)
EXTENDS ConnectionLedger, TLAPS

USE DEF Operations, Inside

-----------------------------------------------------------------------------
(* IInv is inductive: one lemma per group of actions.                      *)

LEMMA InitIInv == Init => IInv
<1> SUFFICES ASSUME Init PROVE IInv
  OBVIOUS
<1>1. NoEntries \in [Entries -> Nat]
  BY DEF NoEntries
<1>2. TypeOK
  BY <1>1 DEF Init, TypeOK
<1>3. OneInside /\ FreshWrite
  BY DEF Init, OneInside, FreshWrite
<1>4. Locals
  BY DEF Init, Locals
<1>5. QED
  BY <1>2, <1>3, <1>4 DEF IInv

\* The semaphore is taken from a free state only, so nobody else is inside.
LEMMA AcquireIInv ==
  ASSUME NEW t \in Threads, IInv,
         Call(t) \/ Acquire(t)
  PROVE  IInv'
<1> USE DEF IInv, TypeOK, NoEntries, Undone
<1>1. CASE Call(t)
  <2>1. TypeOK'
    BY <1>1 DEF Call, Locals
  <2>2. OneInside'
    BY <1>1 DEF Call, OneInside
  <2>3. FreshWrite'
    BY <1>1 DEF Call, OneInside, FreshWrite, Locals
  <2>4. Locals'
    BY <1>1 DEF Call, OneInside, Locals
  <2>5. QED
    BY <2>1, <2>2, <2>3, <2>4
<1>2. CASE Acquire(t)
  <2>1. TypeOK'
    BY <1>2 DEF Acquire, Locals
  <2>2. OneInside'
    BY <1>2 DEF Acquire, OneInside
  <2>3. FreshWrite'
    BY <1>2 DEF Acquire, OneInside, FreshWrite, Locals
  <2>4. Locals'
    BY <1>2 DEF Acquire, OneInside, Locals
  <2>5. QED
    BY <2>1, <2>2, <2>3, <2>4
<1>3. QED
  BY <1>1, <1>2

\* Inside the critical section, before the file is touched.
LEMMA ReadIInv ==
  ASSUME NEW t \in Threads, IInv,
         ReadToRegister(t) \/ ReadToUnregister(t) \/ ReadMissing(t)
           \/ ReadToList(t) \/ OpenFails(t)
  PROVE  IInv'
<1> USE DEF IInv, TypeOK, NoEntries, Undone, ReadEntries
<1>1. CASE ReadToRegister(t)
  <2>1. TypeOK'
    BY <1>1 DEF ReadToRegister, Locals
  <2>2. OneInside'
    BY <1>1 DEF ReadToRegister, OneInside
  <2>3. FreshWrite'
    BY <1>1 DEF ReadToRegister, OneInside, FreshWrite, Locals
  <2>4. Locals'
    BY <1>1 DEF ReadToRegister, OneInside, Locals
  <2>5. QED
    BY <2>1, <2>2, <2>3, <2>4
<1>2. CASE ReadToUnregister(t)
  <2>1. TypeOK'
    BY <1>2 DEF ReadToUnregister, Locals
  <2>2. OneInside'
    BY <1>2 DEF ReadToUnregister, OneInside
  <2>3. FreshWrite'
    BY <1>2 DEF ReadToUnregister, OneInside, FreshWrite, Locals
  <2>4. Locals'
    BY <1>2 DEF ReadToUnregister, OneInside, Locals
  <2>5. QED
    BY <2>1, <2>2, <2>3, <2>4
<1>3. CASE ReadMissing(t)
  <2>1. TypeOK'
    BY <1>3 DEF ReadMissing, Locals
  <2>2. OneInside'
    BY <1>3 DEF ReadMissing, OneInside
  <2>3. FreshWrite'
    BY <1>3 DEF ReadMissing, OneInside, FreshWrite, Locals
  <2>4. Locals'
    BY <1>3 DEF ReadMissing, OneInside, Locals
  <2>5. QED
    BY <2>1, <2>2, <2>3, <2>4
<1>4. CASE ReadToList(t)
  <2>1. TypeOK'
    BY <1>4 DEF ReadToList, Locals
  <2>2. OneInside'
    BY <1>4 DEF ReadToList, OneInside
  <2>3. FreshWrite'
    BY <1>4 DEF ReadToList, OneInside, FreshWrite, Locals
  <2>4. Locals'
    BY <1>4 DEF ReadToList, OneInside, Locals
  <2>5. QED
    BY <2>1, <2>2, <2>3, <2>4
<1>5. CASE OpenFails(t)
  <2>1. TypeOK'
    BY <1>5 DEF OpenFails, Locals
  <2>2. OneInside'
    BY <1>5 DEF OpenFails, OneInside
  <2>3. FreshWrite'
    BY <1>5 DEF OpenFails, OneInside, FreshWrite, Locals
  <2>4. Locals'
    BY <1>5 DEF OpenFails, OneInside, Locals
  <2>5. QED
    BY <2>1, <2>2, <2>3, <2>4
<1>6. QED
  BY <1>1, <1>2, <1>3, <1>4, <1>5

\* Rewriting the file, and leaving the critical section.
LEMMA WriteIInv ==
  ASSUME NEW t \in Threads, IInv,
         OpenTruncates(t) \/ Dump(t) \/ DumpFails(t)
           \/ Release(t)
  PROVE  IInv'
<1> USE DEF IInv, TypeOK, NoEntries, Undone
<1>1. CASE OpenTruncates(t)
  <2>1. TypeOK'
    BY <1>1 DEF OpenTruncates, Locals
  <2>2. OneInside'
    BY <1>1 DEF OpenTruncates, OneInside
  <2>3. FreshWrite'
    BY <1>1 DEF OpenTruncates, OneInside, FreshWrite, Locals
  <2>4. Locals'
    BY <1>1 DEF OpenTruncates, OneInside, Locals
  <2>5. QED
    BY <2>1, <2>2, <2>3, <2>4
<1>2. CASE Dump(t)
  <2>1. TypeOK'
    BY <1>2 DEF Dump, Locals
  <2>2. OneInside'
    BY <1>2 DEF Dump, OneInside
  <2>3. FreshWrite'
    BY <1>2 DEF Dump, OneInside, FreshWrite, Locals
  <2>4. Locals'
    BY <1>2 DEF Dump, OneInside, Locals
  <2>5. QED
    BY <2>1, <2>2, <2>3, <2>4
<1>3. CASE DumpFails(t)
  <2>1. TypeOK'
    BY <1>3 DEF DumpFails, Locals
  <2>2. OneInside'
    BY <1>3 DEF DumpFails, OneInside
  <2>3. FreshWrite'
    BY <1>3 DEF DumpFails, OneInside, FreshWrite, Locals
  <2>4. Locals'
    BY <1>3 DEF DumpFails, OneInside, Locals
  <2>5. QED
    BY <2>1, <2>2, <2>3, <2>4
<1>4. CASE Release(t)
  <2>1. TypeOK'
    BY <1>4 DEF Release, OneInside
  <2>2. OneInside'
    BY <1>4 DEF Release, OneInside
  <2>3. FreshWrite'
    BY <1>4 DEF Release, OneInside, FreshWrite, Locals
  <2>4. Locals'
    BY <1>4 DEF Release, OneInside, Locals
  <2>5. QED
    BY <2>1, <2>2, <2>3, <2>4
<1>5. QED
  BY <1>1, <1>2, <1>3, <1>4

LEMMA CrashIInv == IInv /\ Crash => IInv'
  BY DEF Crash, IInv, TypeOK, OneInside, FreshWrite, Locals, NoEntries

LEMMA StepIInv == IInv /\ [Next]_vars => IInv'
<1> SUFFICES ASSUME IInv, [Next]_vars PROVE IInv'
  OBVIOUS
<1>1. CASE UNCHANGED vars
  BY <1>1 DEF vars, IInv, TypeOK, OneInside, FreshWrite, Locals, Undone
<1>2. CASE Crash
  BY <1>2, CrashIInv
<1>3. ASSUME NEW t \in Threads, Call(t) \/ Acquire(t) \/ Critical(t)
      PROVE  IInv'
  BY <1>3, AcquireIInv, ReadIInv, WriteIInv DEF Critical
<1>4. QED
  BY <1>1, <1>2, <1>3 DEF Next

\* The invariant of every behaviour; the theorems below are its parts.
LEMMA Invariance == Spec => []IInv
  BY InitIInv, StepIInv, PTL DEF Spec

(* The ledger's state is well typed, its semaphore never above one.        *)
THEOREM TypeCorrect == Spec => []TypeOK
  BY Invariance, PTL DEF IInv

(* At most one thread is inside a ledger call, and the semaphore is taken  *)
(* exactly while one is: register, unregister and list_all exclude each    *)
(* other and release once, whatever path they take.                        *)
THEOREM MutualExclusion == Spec => []OneInside
  BY Invariance, PTL DEF IInv

(* No update is lost: what a thread writes is what the file held when it   *)
(* opened it, with its own change made.                                    *)
THEOREM NoLostUpdate == Spec => []FreshWrite
  BY Invariance, PTL DEF IInv

-----------------------------------------------------------------------------
(* The ledger implements PendingTransfers.  First, what `pending` is.      *)

LEMMA PendingWhileWriting ==
  ASSUME IInv, NEW t \in Threads, pc[t] = "dump"
  PROVE  pending = Undone(t)
  BY DEF IInv, OneInside, pending

LEMMA PendingWhileWritingNext ==
  ASSUME IInv', NEW t \in Threads, pc'[t] = "dump"
  PROVE  pending' = Undone(t)'
  BY DEF IInv, OneInside, pending

LEMMA PendingOtherwise ==
  ASSUME \A t \in Threads : pc[t] # "dump"
  PROVE  pending = stored
  BY DEF pending

\* Every call but the one that rewrites the file leaves `pending` alone.
LEMMA PendingUnchanged ==
  ASSUME IInv, IInv', UNCHANGED <<stored, op, arg>>,
         \A t \in Threads : (pc[t] = "dump") = (pc'[t] = "dump"),
         \A t \in Threads : pc[t] = "dump" => entries'[t] = entries[t]
  PROVE  UNCHANGED pending
<1>1. CASE \E t \in Threads : pc[t] = "dump"
  <2>1. PICK t \in Threads : pc[t] = "dump"
    BY <1>1
  <2>2. pending = Undone(t)
    BY <2>1, PendingWhileWriting
  <2>3. pending' = Undone(t)'
    BY <2>1, PendingWhileWritingNext
  <2>4. QED
    BY <2>1, <2>2, <2>3 DEF Undone
<1>2. CASE \A t \in Threads : pc[t] # "dump"
  BY <1>2 DEF pending
<1>3. QED
  BY <1>1, <1>2

\* Taking back the addition of one entry gives what there was before it.
LEMMA TakenBack ==
  ASSUME NEW f \in [Entries -> Nat], NEW e \in Entries
  PROVE  /\ f = [[f EXCEPT ![e] = @ + 1] EXCEPT ![e] = @ - 1]
         /\ [f EXCEPT ![e] = @ + 1][e] > 0
<1> DEFINE g == [f EXCEPT ![e] = @ + 1]
<1>1. g[e] = f[e] + 1 /\ \A d \in Entries : d # e => g[d] = f[d]
  OBVIOUS
<1>2. g[e] - 1 = f[e] /\ g[e] > 0
  BY <1>1
<1>3. QED
  BY <1>1, <1>2

\* And so does putting one back that was taken out.
LEMMA PutBack ==
  ASSUME NEW f \in [Entries -> Nat], NEW e \in Entries
  PROVE  f = [[f EXCEPT ![e] = @ - 1] EXCEPT ![e] = @ + 1]
<1> DEFINE g == [f EXCEPT ![e] = @ - 1]
<1>1. g[e] = f[e] - 1 /\ \A d \in Entries : d # e => g[d] = f[d]
  OBVIOUS
<1>2. g[e] + 1 = f[e]
  BY <1>1
<1>3. QED
  BY <1>1, <1>2

LEMMA PendingTyped == IInv => pending \in [Entries -> Nat]
<1> SUFFICES ASSUME IInv PROVE pending \in [Entries -> Nat]
  OBVIOUS
<1>1. CASE \E t \in Threads : pc[t] = "dump"
  <2>1. PICK t \in Threads : pc[t] = "dump"
    BY <1>1
  <2>2. Undone(t) \in [Entries -> Nat]
    BY <2>1 DEF IInv, TypeOK, Locals, Undone
  <2>3. QED
    BY <2>1, <2>2, PendingWhileWriting
<1>2. CASE \A t \in Threads : pc[t] # "dump"
  BY <1>2, PendingOtherwise DEF IInv, TypeOK
<1>3. QED
  BY <1>1, <1>2

-----------------------------------------------------------------------------
(* Then every step maps to a step of PendingTransfers or to a stutter.     *)

LEMMA InitRefines == Init => Abstract!Init
<1> SUFFICES ASSUME Init PROVE Abstract!Init
  OBVIOUS
<1>1. pending = NoEntries
  BY PendingOtherwise DEF Init
<1>2. QED
  BY <1>1 DEF Init, Abstract!Init, Abstract!NoEntries, NoEntries, Phase, View

LEMMA CallRefines ==
  ASSUME NEW t \in Threads, IInv, IInv', Call(t)
  PROVE  Abstract!Ask(t)
<1> USE DEF IInv, TypeOK
<1>1. UNCHANGED pending
  <2>1. \A u \in Threads : pc[u] = "dump" => u # t
    BY DEF Call
  <2>2. ASSUME NEW u \in Threads, pc[u] = "dump"
        PROVE  Undone(u)' = Undone(u)
    <3>1. entries'[u] = entries[u] /\ op'[u] = op[u] /\ arg'[u] = arg[u]
      BY <2>1, <2>2 DEF Call
    <3>2. QED
      BY <3>1 DEF Undone
  <2>3. \A u \in Threads : (pc[u] = "dump") = (pc'[u] = "dump")
    BY DEF Call
  <2>4. CASE \E u \in Threads : pc[u] = "dump"
    <3>1. PICK u \in Threads : pc[u] = "dump"
      BY <2>4
    <3>2. pending = Undone(u)
      BY <3>1, PendingWhileWriting
    <3>3. pending' = Undone(u)'
      BY <3>1, <2>3, PendingWhileWritingNext
    <3>4. Undone(u)' = Undone(u)
      BY <3>1, <2>2
    <3>5. QED
      BY <3>2, <3>3, <3>4
  <2>5. CASE \A u \in Threads : pc[u] # "dump"
    BY <2>5, <2>3 DEF Call, pending
  <2>6. QED
    BY <2>4, <2>5
<1>2. [u \in Threads |-> Phase(u)]' = [[u \in Threads |-> Phase(u)] EXCEPT ![t] = "asked"]
  BY DEF Call, Phase
<1>3. UNCHANGED [u \in Threads |-> View(u)]
  BY DEF Call, View
<1>4. QED
  BY <1>1, <1>2, <1>3 DEF Call, Abstract!Ask, Abstract!Operations, Phase

\* The steps that read the file: `pending` is `stored`, and stays it.
LEMMA ReadRefines ==
  ASSUME NEW t \in Threads, IInv, IInv',
         ReadToRegister(t) \/ ReadToUnregister(t) \/ ReadMissing(t)
           \/ ReadToList(t) \/ OpenFails(t)
  PROVE  Abstract!Next \/ UNCHANGED Abstract!vars
<1> DEFINE phases == [u \in Threads |-> Phase(u)]
           views == [u \in Threads |-> View(u)]
<1> USE DEF IInv, TypeOK
<1>1. \A u \in Threads : pc[u] # "dump" /\ pc'[u] # "dump"
  BY DEF ReadToRegister, ReadToUnregister, ReadMissing, ReadToList, OpenFails, OneInside
<1>2. pending = stored /\ ReadEntries = stored
  BY <1>1, PendingOtherwise DEF ReadEntries, Locals
<1>3. UNCHANGED pending
  BY <1>1 DEF pending, ReadToRegister, ReadToUnregister, ReadMissing, ReadToList, OpenFails
<1>4. CASE ReadToRegister(t) \/ ReadToUnregister(t)
  <2>1. UNCHANGED phases
    BY <1>4 DEF ReadToRegister, ReadToUnregister, Phase
  <2>2. UNCHANGED views
    BY <1>4 DEF ReadToRegister, ReadToUnregister, View
  <2>3. UNCHANGED Abstract!vars
    BY <1>3, <1>4, <2>1, <2>2 DEF ReadToRegister, ReadToUnregister, Abstract!vars
  <2>4. QED
    BY <2>3
<1>5. CASE ReadMissing(t)
  <2>1. phases' = [phases EXCEPT ![t] = "answered"] /\ phases[t] = "asked"
    BY <1>5 DEF ReadMissing, Phase
  <2>2. UNCHANGED views
    BY <1>5 DEF ReadMissing, View, Locals
  <2>3. Abstract!Miss(t)
    BY <1>2, <1>3, <1>5, <2>1, <2>2
       DEF ReadMissing, Abstract!Miss, Abstract!Answer
  <2>4. QED
    BY <2>3 DEF Abstract!Next
<1>6. CASE ReadToList(t)
  <2>1. phases' = [phases EXCEPT ![t] = "answered"] /\ phases[t] = "asked"
    BY <1>6 DEF ReadToList, Phase
  <2>2. views' = [views EXCEPT ![t] = pending]
    BY <1>2, <1>6 DEF ReadToList, View
  <2>3. Abstract!Show(t)
    BY <1>3, <1>6, <2>1, <2>2 DEF ReadToList, Abstract!Show, Abstract!Answer
  <2>4. QED
    BY <2>3 DEF Abstract!Next
<1>7. CASE OpenFails(t)
  <2>1. phases' = [phases EXCEPT ![t] = "answered"] /\ phases[t] = "asked"
    BY <1>7 DEF OpenFails, Phase
  <2>2. UNCHANGED views
    BY <1>7 DEF OpenFails, View
  <2>3. Abstract!Refuse(t)
    BY <1>3, <1>7, <2>1, <2>2 DEF OpenFails, Abstract!Refuse, Abstract!Answer
  <2>4. QED
    BY <2>3 DEF Abstract!Next
<1>8. QED
  BY <1>4, <1>5, <1>6, <1>7

\* Truncating the file is invisible; filling it is when the call takes effect.
LEMMA WriteRefines ==
  ASSUME NEW t \in Threads, IInv, IInv', OpenTruncates(t) \/ Dump(t) \/ DumpFails(t)
  PROVE  Abstract!Next \/ UNCHANGED Abstract!vars
<1> DEFINE phases == [u \in Threads |-> Phase(u)]
           views == [u \in Threads |-> View(u)]
<1> USE DEF IInv, TypeOK
<1>1. CASE OpenTruncates(t)
  <2>1. pending = stored
    BY <1>1, PendingOtherwise DEF OpenTruncates, OneInside
  <2>2. pending' = Undone(t)'
    BY <1>1, PendingWhileWritingNext DEF OpenTruncates
  <2>3. Undone(t)' = stored
    BY <1>1 DEF OpenTruncates, Undone, FreshWrite
  <2>4. UNCHANGED phases
    BY <1>1 DEF OpenTruncates, Phase
  <2>5. UNCHANGED views
    BY <1>1 DEF OpenTruncates, View
  <2>6. QED
    BY <1>1, <2>1, <2>2, <2>3, <2>4, <2>5 DEF OpenTruncates, Abstract!vars
<1>2. ASSUME Dump(t) \/ DumpFails(t)
      PROVE  /\ pending = Undone(t)
             /\ pending' = stored'
             /\ phases[t] = "asked"
             /\ phases' = [phases EXCEPT ![t] = "answered"]
             /\ UNCHANGED views
  <2>1. pending = Undone(t)
    BY <1>2, PendingWhileWriting DEF Dump, DumpFails
  <2>2. \A u \in Threads : pc'[u] # "dump"
    BY <1>2 DEF Dump, DumpFails, OneInside
  <2>3. pending' = stored'
    BY <2>2 DEF pending
  <2>4. phases[t] = "asked" /\ phases' = [phases EXCEPT ![t] = "answered"]
    <3>1. pc[t] = "dump" /\ pc' = [pc EXCEPT ![t] = "release"]
      BY <1>2 DEF Dump, DumpFails
    <3>2. QED
      BY <3>1 DEF Phase
  <2>5. UNCHANGED views
    BY <1>2 DEF Dump, DumpFails, View
  <2>6. QED
    BY <2>1, <2>3, <2>4, <2>5
<1>3. CASE Dump(t)
  <2>1. CASE op[t] = "register"
    <3>1. /\ arg[t] \in Entries
          /\ stored' = entries[t]
          /\ entries[t] \in [Entries -> Nat]
          /\ pending = [entries[t] EXCEPT ![arg[t]] = @ - 1]
      BY <1>2, <1>3, <2>1 DEF Dump, Undone
    <3>2. entries[t] = [pending EXCEPT ![arg[t]] = @ + 1]
      BY <1>2, <3>1, PutBack
    <3>3. Abstract!Add(t)
      BY <1>2, <1>3, <2>1, <3>1, <3>2 DEF Dump, Abstract!Add, Abstract!Answer
    <3>4. QED
      BY <3>3 DEF Abstract!Next
  <2>2. CASE op[t] = "unregister"
    <3>1. /\ arg[t] \in Entries
          /\ stored' = entries[t]
          /\ entries[t] \in [Entries -> Nat]
          /\ pending = [entries[t] EXCEPT ![arg[t]] = @ + 1]
      BY <1>2, <1>3, <2>2 DEF Dump, Undone
    <3>2. pending' = [pending EXCEPT ![arg[t]] = @ - 1] /\ pending[arg[t]] > 0
      BY <1>2, <3>1, TakenBack
    <3>3. Abstract!Remove(t)
      BY <1>2, <1>3, <2>2, <3>2 DEF Dump, Abstract!Remove, Abstract!Answer
    <3>4. QED
      BY <3>3 DEF Abstract!Next
  <2>3. QED
    BY <1>3, <2>1, <2>2 DEF Dump, Locals
<1>4. CASE DumpFails(t)
  <2>1. pending' = NoEntries
    BY <1>2, <1>4 DEF DumpFails, Locals
  <2>2. Abstract!Wipe(t)
    BY <1>2, <1>4, <2>1
       DEF DumpFails, Locals, NoEntries, Abstract!Wipe, Abstract!Answer, Abstract!NoEntries
  <2>3. QED
    BY <2>2 DEF Abstract!Next
<1>5. QED
  BY <1>1, <1>3, <1>4

LEMMA ReleaseRefines ==
  ASSUME NEW t \in Threads, IInv, IInv', Release(t)
  PROVE  Abstract!Return(t)
<1> DEFINE phases == [u \in Threads |-> Phase(u)]
           views == [u \in Threads |-> View(u)]
<1> USE DEF IInv, TypeOK
<1>1. UNCHANGED pending
  <2>1. \A u \in Threads : pc[u] # "dump" /\ pc'[u] # "dump"
    BY DEF Release, OneInside
  <2>2. QED
    BY <2>1 DEF pending, Release
<1>2. phases[t] = "answered" /\ phases' = [phases EXCEPT ![t] = "idle"]
  BY DEF Release, Phase
<1>3. views' = [views EXCEPT ![t] = NoEntries]
  BY DEF Release, View, NoEntries
<1>4. QED
  BY <1>1, <1>2, <1>3 DEF Release, Abstract!Return, Abstract!NoEntries, NoEntries

LEMMA CrashRefines ==
  ASSUME IInv, IInv', Crash
  PROVE  Abstract!Crash
<1> DEFINE phases == [u \in Threads |-> Phase(u)]
           views == [u \in Threads |-> View(u)]
<1> USE DEF IInv, TypeOK
<1>1. pending' = stored
  BY DEF Crash, pending
<1>2. phases' = [u \in Threads |-> "idle"]
  BY DEF Crash, Phase
<1>3. views' = [u \in Threads |-> NoEntries]
  BY DEF Crash, View
<1>4. \/ pending' = pending
      \/ /\ \E u \in Threads : phases[u] = "asked"
         /\ pending' = NoEntries
  <2>1. CASE \E u \in Threads : pc[u] = "dump"
    BY <1>1, <2>1 DEF Locals, Phase
  <2>2. CASE \A u \in Threads : pc[u] # "dump"
    BY <1>1, <2>2, PendingOtherwise
  <2>3. QED
    BY <2>1, <2>2
<1>5. QED
  BY <1>2, <1>3, <1>4 DEF Crash, Abstract!Crash, Abstract!NoEntries, NoEntries

LEMMA AcquireRefines ==
  ASSUME NEW t \in Threads, IInv, IInv', Acquire(t)
  PROVE  UNCHANGED Abstract!vars
<1> USE DEF IInv, TypeOK
<1>1. \A u \in Threads : pc[u] # "dump" /\ pc'[u] # "dump"
  BY DEF Acquire, OneInside
<1>2. UNCHANGED pending
  BY <1>1 DEF pending, Acquire
<1>3. UNCHANGED [u \in Threads |-> Phase(u)]
  BY DEF Acquire, Phase
<1>4. UNCHANGED [u \in Threads |-> View(u)]
  BY DEF Acquire, View
<1>5. QED
  BY <1>2, <1>3, <1>4 DEF Acquire, Abstract!vars

LEMMA StepRefines == IInv /\ IInv' /\ [Next]_vars => [Abstract!Next]_(Abstract!vars)
<1> SUFFICES ASSUME IInv, IInv', [Next]_vars
             PROVE  Abstract!Next \/ UNCHANGED Abstract!vars
  OBVIOUS
<1>1. CASE UNCHANGED vars
  BY <1>1 DEF vars, Abstract!vars, pending, Undone, Phase, View
<1>2. CASE Crash
  BY <1>2, CrashRefines DEF Abstract!Next
<1>3. ASSUME NEW t \in Threads, Call(t) \/ Acquire(t) \/ Critical(t)
      PROVE  Abstract!Next \/ UNCHANGED Abstract!vars
  <2>1. CASE Call(t)
    BY <2>1, CallRefines DEF Abstract!Next
  <2>2. CASE Acquire(t)
    BY <2>2, AcquireRefines
  <2>3. CASE Release(t)
    BY <2>3, ReleaseRefines DEF Abstract!Next
  <2>4. QED
    BY <1>3, <2>1, <2>2, <2>3, ReadRefines, WriteRefines DEF Critical
<1>4. QED
  BY <1>1, <1>2, <1>3 DEF Next

(* The ledger implements its promise: whatever the threads' interleaving,  *)
(* and whatever fails, its callers see an atomic multiset of transfers.    *)
THEOREM LedgerKeepsPromise == Spec => Promise
<1>1. Spec => Abstract!Init
  BY InitRefines, PTL DEF Spec
<1>2. Spec => [][Abstract!Next]_(Abstract!vars)
  BY Invariance, StepRefines, PTL DEF Spec
<1>3. QED
  BY <1>1, <1>2, PTL DEF Promise, Abstract!Spec
=============================================================================
