-------------------------- MODULE RuntimeContract --------------------------
(***************************************************************************)
(* What the asynchronous runtime promises to the threads that use it, with  *)
(* no queue, lock or condition variable: tasks finish one at a time in the   *)
(* order they were accepted, the first failure is remembered for ever, and   *)
(* sync() ends well only when everything accepted before the call finished   *)
(* and nothing has failed so far.                                            *)
(***************************************************************************)
EXTENDS Integers

CONSTANT Clients

VARIABLES
  accepted,  \* how many tasks were accepted
  finished,  \* the tasks that ran to their end
  error,     \* the first task that failed, 0 if none has
  call,      \* what each client's sync() is doing: "none", "sync", "ok", "error"
  since      \* accepted, when a client called sync()

vars == <<accepted, finished, error, call, since>>

Init ==
  /\ accepted = 0 /\ finished = {} /\ error = 0
  /\ call = [c \in Clients |-> "none"]
  /\ since = [c \in Clients |-> 0]

Accept ==
  /\ accepted' = accepted + 1
  /\ UNCHANGED <<finished, error, call, since>>

\* The tasks finish in the order they were accepted.
Turn(t) == t \in 1..accepted /\ t \notin finished /\ 1..(t - 1) \subseteq finished

Finish(t) ==
  /\ Turn(t)
  /\ finished' = finished \cup {t}
  /\ error' \in {error, IF error = 0 THEN t ELSE error}
  /\ UNCHANGED <<accepted, call, since>>

SyncCall(c) ==
  /\ call[c] = "none"
  /\ call' = [call EXCEPT ![c] = "sync"]
  /\ since' = [since EXCEPT ![c] = accepted]
  /\ UNCHANGED <<accepted, finished, error>>

SyncOk(c) ==
  /\ call[c] = "sync" /\ error = 0
  /\ 1..since[c] \subseteq finished
  /\ call' = [call EXCEPT ![c] = "ok"]
  /\ UNCHANGED <<accepted, finished, error, since>>

SyncError(c) ==
  /\ call[c] = "sync" /\ error # 0
  /\ 1..since[c] \subseteq finished
  /\ call' = [call EXCEPT ![c] = "error"]
  /\ UNCHANGED <<accepted, finished, error, since>>

SyncEnd(c) ==
  /\ call[c] \in {"ok", "error"}
  /\ call' = [call EXCEPT ![c] = "none"]
  /\ UNCHANGED <<accepted, finished, error, since>>

Next == \/ Accept
        \/ \E t \in 1..accepted : Finish(t)
        \/ \E c \in Clients : SyncCall(c) \/ SyncOk(c) \/ SyncError(c) \/ SyncEnd(c)

Spec == Init /\ [][Next]_vars
=============================================================================
