-------------------------- MODULE PendingTransfers --------------------------
(***************************************************************************)
(* What the connection ledger promises its callers, with no file and no    *)
(* semaphore in sight: a multiset of transfers that have been accepted and *)
(* not finished.  A call made by a thread takes effect in one step, some   *)
(* time between the moment it is made and the moment it returns, and its   *)
(* answer tells whether it did.                                            *)
(*                                                                         *)
(* The promise is only as good as the disk: when Lossy is TRUE, one call   *)
(* that fails half way, or one crash, may lose every pending transfer at   *)
(* once.  It never loses some of them, and never invents one.              *)
(***************************************************************************)
EXTENDS Naturals

CONSTANTS Threads,  \* the callers
          Entries,  \* the transfer requests that may be recorded
          Lossy     \* may a failure lose the whole multiset?

VARIABLES pending,  \* pending[e]: how many times transfer e is recorded
          phase,    \* phase[t]: "idle", "asked" or "answered"
          op,       \* op[t]: the operation t asked for
          arg,      \* arg[t]: the transfer it asked it about
          answer,   \* answer[t]: what t is told: "none" until it is answered
          view      \* view[t]: the transfers a "list" showed to t

vars == <<pending, phase, op, arg, answer, view>>

Operations == {"register", "unregister", "list"}
NoEntries == [e \in Entries |-> 0]

Init ==
  /\ pending = NoEntries
  /\ phase = [t \in Threads |-> "idle"]
  /\ op \in [Threads -> {"list"}]
  /\ arg \in [Threads -> Entries]
  /\ answer = [t \in Threads |-> "none"]
  /\ view = [t \in Threads |-> NoEntries]

Ask(t) ==
  /\ phase[t] = "idle"
  /\ phase' = [phase EXCEPT ![t] = "asked"]
  /\ \E o \in Operations, e \in Entries :
       /\ op' = [op EXCEPT ![t] = o]
       /\ arg' = [arg EXCEPT ![t] = e]
  /\ UNCHANGED <<pending, answer, view>>

Answer(t, what) ==
  /\ phase[t] = "asked"
  /\ phase' = [phase EXCEPT ![t] = "answered"]
  /\ answer' = [answer EXCEPT ![t] = what]
  /\ UNCHANGED <<op, arg>>

Add(t) ==
  /\ op[t] = "register"
  /\ Answer(t, "true")
  /\ pending' = [pending EXCEPT ![arg[t]] = @ + 1]
  /\ UNCHANGED view

Remove(t) ==
  /\ op[t] = "unregister"
  /\ pending[arg[t]] > 0
  /\ Answer(t, "true")
  /\ pending' = [pending EXCEPT ![arg[t]] = @ - 1]
  /\ UNCHANGED view

\* A transfer that is not recorded cannot be removed, and t is told so.
Miss(t) ==
  /\ op[t] = "unregister"
  /\ pending[arg[t]] = 0
  /\ Answer(t, "false")
  /\ UNCHANGED <<pending, view>>

Show(t) ==
  /\ op[t] = "list"
  /\ Answer(t, "true")
  /\ view' = [view EXCEPT ![t] = pending]
  /\ UNCHANGED pending

\* The disk refuses the call: nothing changed, and t is told so.
Refuse(t) ==
  /\ Lossy
  /\ Answer(t, "false")
  /\ UNCHANGED <<pending, view>>

\* The disk fails in the middle of the call: t is told that its call failed,
\* and every pending transfer is lost.
Wipe(t) ==
  /\ Lossy
  /\ op[t] \in {"register", "unregister"}
  /\ Answer(t, "false")
  /\ pending' = NoEntries
  /\ UNCHANGED view

Return(t) ==
  /\ phase[t] = "answered"
  /\ phase' = [phase EXCEPT ![t] = "idle"]
  /\ answer' = [answer EXCEPT ![t] = "none"]
  /\ view' = [view EXCEPT ![t] = NoEntries]
  /\ UNCHANGED <<pending, op, arg>>

\* The process dies: every call is forgotten, and what was pending survives,
\* unless a call was outstanding, in which case all of it may be lost.
Crash ==
  /\ Lossy
  /\ phase' = [t \in Threads |-> "idle"]
  /\ answer' = [t \in Threads |-> "none"]
  /\ view' = [t \in Threads |-> NoEntries]
  /\ \/ pending' = pending
     \/ /\ \E t \in Threads : phase[t] = "asked"
        /\ pending' = NoEntries
  /\ UNCHANGED <<op, arg>>

Next ==
  \/ \E t \in Threads :
       Ask(t) \/ Add(t) \/ Remove(t) \/ Miss(t) \/ Show(t)
         \/ Refuse(t) \/ Wipe(t) \/ Return(t)
  \/ Crash

Spec == Init /\ [][Next]_vars
=============================================================================
