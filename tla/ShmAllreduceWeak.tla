-------------------------- MODULE ShmAllreduceWeak --------------------------
(***************************************************************************)
(* ShmAllreduce on processors that execute loads out of order.  wait_fence   *)
(* puts its load fence before the load of the flag and none behind it, so   *)
(* that the loads which follow the loop may be executed before the flag is   *)
(* loaded for the last time, though not before the fence in front of it.    *)
(***************************************************************************)
EXTENDS ShmAllreduce

VARIABLE early  \* what a thread has loaded ahead of the flag it waits for

weakVars == <<vars, early>>
NoLoads  == [x \in {} |-> {}]

Following(r, t) == IF Step(r, t) \in DOMAIN WaitSteps THEN Program[at[r][t] + 1] ELSE "none"

WeakInit == Init /\ early = [r \in Ranks |-> [t \in Tids |-> NoLoads]]

\* Behind the load fence, before the load of the flag.
LoadEarly(r, t) ==
  /\ early[r][t] = NoLoads
  /\ \E X \in (SUBSET Reads(r, t, Following(r, t))) \ {{}} :
       early' = [early EXCEPT ![r][t] = [x \in X |-> mem[x]]]
  /\ UNCHANGED vars

\* The flag is not set: once more round the loop, past its load fence.
LoopAgain(r, t) ==
  /\ early[r][t] # NoLoads /\ Step(r, t) \in DOMAIN WaitSteps
  /\ flag[Fence(r, t, r, WaitSteps[Step(r, t)])] = 0
  /\ early' = [early EXCEPT ![r][t] = NoLoads]
  /\ UNCHANGED vars

WeakCompute(r, t) ==
  /\ Step(r, t) \in {"reduce", "collect", "spread", "copy"}
  /\ LET R    == Reads(r, t, Step(r, t))
         seen == [x \in R |-> IF x \in DOMAIN early[r][t] THEN early[r][t][x] ELSE mem[x]]
     IN  mem' = [x \in Places |-> IF x \in Writes(r, t, Step(r, t)) THEN Sum(seen, R) ELSE mem[x]]
  /\ early' = [early EXCEPT ![r][t] = NoLoads]
  /\ Advance(r, t)
  /\ UNCHANGED <<world, call, pc, gate, flag>>

WeakNext ==
  \E r \in Ranks :
    \/ Rank(r) /\ UNCHANGED early
    \/ \E t \in Tids : \/ LoadEarly(r, t) \/ LoopAgain(r, t) \/ WeakCompute(r, t)
                       \/ (SetFence(r, t) \/ WaitFence(r, t)) /\ UNCHANGED early

WeakSpec == WeakInit /\ [][WeakNext]_weakVars
=============================================================================
