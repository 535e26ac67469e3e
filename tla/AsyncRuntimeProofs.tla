------------------------- MODULE AsyncRuntimeProofs -------------------------
(***************************************************************************)
(* Theorems about AsyncRuntime, for any clients, weights and number of      *)
(* tasks.  IInv is the inductive invariant; the safety invariants and the   *)
(* refinement of RuntimeContract follow from it.                            *)
(***************************************************************************)
EXTENDS AsyncRuntime, TLAPS

\* How many tasks have run to their end.
Over == Len(log) - Len(q) - (IF wpc = "run" THEN 1 ELSE 0)

\* The queue holds the last ids, in order; the worker holds the one before.
Ids ==
  /\ Len(q) <= Len(log)
  /\ \A i \in 1..Len(q) : q[i] = Len(log) - Len(q) + i
  /\ (cur # 0) <=> wpc \in {"run", "mark", "dec", "notify", "free", "drop"}
  /\ cur # 0 => cur = Len(log) - Len(q)

\* Only tasks that are over have thrown or completed a handle.
Outcomes ==
  /\ failed \subseteq 1..Over /\ handles \subseteq 1..Over
  /\ err = 0 <=> failed = {}

\* A sync() about to return has seen the tasks before its mark run.
Syncs ==
  \A c \in Clients :
    /\ mark[c] <= Len(log)
    /\ res[c] # "none" => pc[c] = "regil"
    /\ pc[c] = "sync_err" \/ res[c] # "none" => mark[c] <= Over
    /\ res[c] = "ok" => \A t \in 1..mark[c] : t \notin failed

\* The worker left after every task submitted before the stop.
Stops ==
  /\ stopMark <= Len(log)
  /\ wpc = "exit" => stop /\ stopMark <= Over

IInv == /\ TypeOK /\ Ids /\ PendingCounts /\ Outcomes /\ Syncs /\ Stops
        /\ WorkerSleepsOnlyWhenIdle /\ NoLostHandle

-----------------------------------------------------------------------------
\* The tasks that have run to their end are the first Over ones.
LEMMA FinishedIsPrefix ==
  ASSUME TypeOK, Ids
  PROVE  /\ Over \in Nat
         /\ Over <= Len(log)
         /\ Finished = 1..Over
<1>1. /\ Len(log) \in Nat /\ Len(q) \in Nat
      /\ DOMAIN q = 1..Len(q)
  BY DEF TypeOK
<1>2. Over \in Nat /\ Over <= Len(log)
  BY <1>1 DEF Over, Ids, TypeOK
<1>3. \A t \in 1..Len(log) : t \in Queued <=> t > Len(log) - Len(q)
  <2> SUFFICES ASSUME NEW t \in 1..Len(log)
               PROVE  t \in Queued <=> t > Len(log) - Len(q)
    OBVIOUS
  <2>1. ASSUME t \in Queued PROVE t > Len(log) - Len(q)
    <3>1. PICK i \in DOMAIN q : q[i] = t
      BY <2>1 DEF Queued
    <3> QED
      BY <1>1, <3>1 DEF Ids
  <2>2. ASSUME t > Len(log) - Len(q) PROVE t \in Queued
    <3>1. t - (Len(log) - Len(q)) \in 1..Len(q)
      BY <1>1, <2>2 DEF Ids
    <3>2. q[t - (Len(log) - Len(q))] = t
      BY <1>1, <3>1 DEF Ids
    <3> QED
      BY <1>1, <3>1, <3>2 DEF Queued
  <2> QED
    BY <2>1, <2>2
<1>4. \A t : t \in Finished <=> t \in 1..Over
  <2>1. \A t \in 1..Len(log) : (wpc = "run" /\ cur = t) <=> (wpc = "run" /\ t = Len(log) - Len(q))
    BY <1>1 DEF Ids, TypeOK
  <2>2. 1..Over \subseteq 1..Len(log)
    BY <1>1, <1>2
  <2> QED
    BY <1>1, <1>2, <1>3, <2>1, <2>2 DEF Finished, Over
<1> QED
  BY <1>2, <1>4

LEMMA InitEstablishes == Init => IInv
<1> SUFFICES ASSUME Init PROVE IInv
  OBVIOUS
<1>1. TypeOK
  <2>1. Op \in Work
    BY DEF Op, Work
  <2>2. log \in Seq(Work) /\ q \in Seq(Nat)
    BY DEF Init
  <2>3. work \in [Clients -> Work]
    BY <2>1 DEF Init
  <2> QED
    BY <2>2, <2>3 DEF Init, TypeOK, WorkerPc, ClientPc
<1>2. Over = 0
  BY DEF Init, Over
<1> QED
  BY <1>1, <1>2 DEF Init, IInv, Ids, PendingCounts, Outcomes, Syncs, Stops,
                    InHand, WorkerSleepsOnlyWhenIdle, NoLostHandle
-----------------------------------------------------------------------------
(* A step of Next is a step of one of its actions. *)

Steps ==
  \/ \E c \in Clients :
       \/ \E w \in Submissions : Submit(c, w)
       \/ \E t \in 1..MaxTasks : HandleWait(c, t)
       \/ EnqCheckFails(c) \/ EnqCheckPasses(c) \/ EnqPush(c)
       \/ EnqNotify(c) \/ Sync(c) \/ SyncLock(c)
       \/ SyncCheck(c) \/ SyncBlock(c) \/ SyncErr(c)
       \/ Regil(c) \/ Shutdown(c) \/ ShutAgain(c)
       \/ ShutStop(c) \/ ShutNotify(c) \/ ShutJoin(c)
       \/ HandleCheck(c) \/ SpuriousClient(c)
  \/ WorkerBlock \/ WorkerReturn \/ WorkerTake \/ WorkerRun \/ WorkerThrow
  \/ WorkerMarkDone \/ WorkerMarkNotify \/ WorkerDec \/ WorkerNotify
  \/ WorkerFree \/ WorkerAsksGil \/ WorkerDrop
  \/ SpuriousWorker
  \/ \E w \in Weights : RaiseState(w)

LEMMA NextIsSteps == Next <=> Steps
  BY DEF Next, Steps, Client, Calling, Enqueueing, Syncing, Stopping, WorkerStep

LEMMA TypeStep ==
  ASSUME IInv, Next
  PROVE  TypeOK'
<1> USE RuntimeAssumption
<1>1. Steps /\ TypeOK
  BY NextIsSteps DEF IInv
<1> USE DEF TypeOK, ClientPc, WorkerPc, Goto, queueVars, workerVars, taskVars, clientVars
<1>2. ASSUME NEW c \in Clients, NEW w \in Submissions, Submit(c, w) PROVE TypeOK'
  <2>1. w \in Work
    BY DEF Submissions, Work, Op, Ready, Event
  <2> QED
    BY <1>1, <1>2, <2>1 DEF Submit
<1>3. ASSUME NEW c \in Clients, NEW t \in 1..MaxTasks, HandleWait(c, t) PROVE TypeOK'
  BY <1>1, <1>3 DEF HandleWait
<1>4. ASSUME NEW c \in Clients, EnqCheckFails(c) PROVE TypeOK'
  BY <1>1, <1>4 DEF EnqCheckFails
<1>5. ASSUME NEW c \in Clients, EnqCheckPasses(c) PROVE TypeOK'
  BY <1>1, <1>5 DEF EnqCheckPasses
<1>6. ASSUME NEW c \in Clients, EnqPush(c) PROVE TypeOK'
  BY <1>1, <1>6 DEF EnqPush, CountTask
<1>7. ASSUME NEW c \in Clients, EnqNotify(c) PROVE TypeOK'
  BY <1>1, <1>7 DEF EnqNotify, NotifyWorker
<1>8. ASSUME NEW c \in Clients, Sync(c) PROVE TypeOK'
  BY <1>1, <1>8 DEF Sync
<1>9. ASSUME NEW c \in Clients, SyncLock(c) PROVE TypeOK'
  BY <1>1, <1>9 DEF SyncLock
<1>10. ASSUME NEW c \in Clients, SyncCheck(c) PROVE TypeOK'
  BY <1>1, <1>10 DEF SyncCheck, NonePending
<1>11. ASSUME NEW c \in Clients, SyncBlock(c) PROVE TypeOK'
  BY <1>1, <1>11 DEF SyncBlock
<1>12. ASSUME NEW c \in Clients, SyncErr(c) PROVE TypeOK'
  BY <1>1, <1>12 DEF SyncErr
<1>13. ASSUME NEW c \in Clients, Regil(c) PROVE TypeOK'
  BY <1>1, <1>13 DEF Regil
<1>14. ASSUME NEW c \in Clients, Shutdown(c) PROVE TypeOK'
  BY <1>1, <1>14 DEF Shutdown
<1>15. ASSUME NEW c \in Clients, ShutAgain(c) PROVE TypeOK'
  BY <1>1, <1>15 DEF ShutAgain
<1>16. ASSUME NEW c \in Clients, ShutStop(c) PROVE TypeOK'
  BY <1>1, <1>16 DEF ShutStop
<1>17. ASSUME NEW c \in Clients, ShutNotify(c) PROVE TypeOK'
  BY <1>1, <1>17 DEF ShutNotify, NotifyWorker
<1>18. ASSUME NEW c \in Clients, ShutJoin(c) PROVE TypeOK'
  BY <1>1, <1>18 DEF ShutJoin
<1>19. ASSUME NEW c \in Clients, HandleCheck(c) PROVE TypeOK'
  BY <1>1, <1>19 DEF HandleCheck
<1>20. ASSUME NEW c \in Clients, SpuriousClient(c) PROVE TypeOK'
  BY <1>1, <1>20 DEF SpuriousClient
<1>21. ASSUME WorkerBlock PROVE TypeOK'
  BY <1>1, <1>21 DEF WorkerBlock
<1>22. ASSUME WorkerReturn PROVE TypeOK'
  BY <1>1, <1>22 DEF WorkerReturn, ReturnDrained
<1>23. ASSUME WorkerTake PROVE TypeOK'
  BY <1>1, <1>23 DEF WorkerTake, TakeFront
<1>24. ASSUME WorkerRun PROVE TypeOK'
  BY <1>1, <1>24 DEF WorkerRun
<1>25. ASSUME WorkerThrow PROVE TypeOK'
  BY <1>1, <1>25 DEF WorkerThrow, KeepFirst
<1>26. ASSUME WorkerMarkDone PROVE TypeOK'
  BY <1>1, <1>26 DEF WorkerMarkDone
<1>27. ASSUME WorkerMarkNotify PROVE TypeOK'
  BY <1>1, <1>27 DEF WorkerMarkNotify, WakeHandle, Wake
<1>28. ASSUME WorkerDec PROVE TypeOK'
  BY <1>1, <1>28 DEF WorkerDec, IInv, PendingCounts, InHand
<1>29. ASSUME WorkerNotify PROVE TypeOK'
  BY <1>1, <1>29 DEF WorkerNotify, Wake
<1>30. ASSUME SpuriousWorker PROVE TypeOK'
  BY <1>1, <1>30 DEF SpuriousWorker
<1>31. ASSUME NEW w \in Weights, RaiseState(w) PROVE TypeOK'
  BY <1>1, <1>31 DEF RaiseState
<1>32. ASSUME WorkerFree PROVE TypeOK'
  BY <1>1, <1>32 DEF WorkerFree
<1>33. ASSUME WorkerAsksGil PROVE TypeOK'
  BY <1>1, <1>33 DEF WorkerAsksGil
<1>34. ASSUME WorkerDrop PROVE TypeOK'
  BY <1>1, <1>34 DEF WorkerDrop
<1> QED
  BY <1>1, <1>2, <1>3, <1>4, <1>5, <1>6, <1>7, <1>8, <1>9, <1>10, <1>11, <1>12, <1>13, <1>14, <1>15, <1>16, <1>17, <1>18, <1>19, <1>20, <1>21, <1>22, <1>23, <1>24, <1>25, <1>26, <1>27, <1>28, <1>29, <1>30, <1>31, <1>32, <1>33, <1>34 DEF Steps

-----------------------------------------------------------------------------
(* What a step does to the queue, the worker and the outcomes of tasks. *)

LEMMA Effects ==
  ASSUME Next
  PROVE  \/ UNCHANGED <<queueVars, workerVars, taskVars>>
         \/ \E c \in Clients : EnqPush(c)
         \/ \E c \in Clients : EnqNotify(c) \/ ShutNotify(c)
         \/ \E c \in Clients : ShutStop(c)
         \/ WorkerBlock \/ WorkerReturn \/ WorkerTake \/ WorkerRun \/ WorkerThrow
         \/ WorkerMarkDone \/ WorkerMarkNotify \/ WorkerDec \/ WorkerNotify
         \/ WorkerFree \/ WorkerAsksGil \/ WorkerDrop
         \/ SpuriousWorker
  BY NextIsSteps
     DEF Steps, Submit, HandleWait, EnqCheckFails, EnqCheckPasses, Sync, SyncLock,
         SyncCheck, SyncBlock, SyncErr, Regil, Shutdown, ShutAgain, ShutJoin,
         HandleCheck, SpuriousClient, RaiseState

LEMMA IdsStep ==
  ASSUME IInv, Next
  PROVE  Ids' /\ PendingCounts' /\ Over' \in Nat /\ Over <= Over'
<1>1. TypeOK /\ Ids /\ PendingCounts /\ Over \in Nat
  BY FinishedIsPrefix DEF IInv
<1>2. Len(log) \in Nat /\ Len(q) \in Nat /\ cur \in Nat /\ pending \in Nat
  BY <1>1 DEF TypeOK
<1>3. CASE /\ UNCHANGED <<log, q, pending, cur>>
           /\ \/ wpc' = wpc
              \/ /\ wpc \in {"loop", "wait", "exit"}
                 /\ wpc' \in {"loop", "wait", "exit"}
  BY <1>1, <1>2, <1>3 DEF Ids, PendingCounts, InHand, Over
<1>4. CASE UNCHANGED <<queueVars, workerVars, taskVars>>
  BY <1>1, <1>2, <1>4 DEF Ids, PendingCounts, InHand, Over, queueVars, workerVars
<1>5. ASSUME NEW c \in Clients, EnqPush(c)
      PROVE  Ids' /\ PendingCounts' /\ Over' \in Nat /\ Over <= Over'
  <2>1. /\ Len(log') = Len(log) + 1 /\ Len(q') = Len(q) + 1
        /\ \A i \in 1..Len(q) : q'[i] = q[i]
        /\ q'[Len(q) + 1] = Len(log) + 1
        /\ UNCHANGED <<wpc, cur>> /\ pending' = pending + 1
    BY <1>1, <1>5 DEF EnqPush, CountTask, TypeOK, workerVars
  <2>2. \A i \in 1..Len(q') : q'[i] = Len(log') - Len(q') + i
    <3>1. \A i \in 1..Len(q) : q[i] = Len(log) - Len(q) + i
      BY <1>1 DEF Ids
    <3>2. Len(log') - Len(q') = Len(log) - Len(q)
      BY <1>2, <2>1
    <3> QED
      BY <1>2, <2>1, <3>1, <3>2
  <2> QED
    BY <1>1, <1>2, <2>1, <2>2 DEF Ids, PendingCounts, InHand, Over
<1>6. ASSUME NEW c \in Clients, EnqNotify(c) \/ ShutNotify(c) \/ ShutStop(c)
      PROVE  Ids' /\ PendingCounts' /\ Over' \in Nat /\ Over <= Over'
  <2>1. /\ UNCHANGED <<log, q, pending, cur>>
        /\ wpc' = wpc \/ (wpc' = "loop" /\ wpc = "wait")
    BY <1>6 DEF EnqNotify, ShutNotify, ShutStop, NotifyWorker, queueVars, workerVars
  <2> QED
    BY <1>3, <2>1
<1>7. CASE WorkerTake
  <2>1. /\ Len(q') = Len(q) - 1 /\ cur' = q[1] /\ Len(q) > 0
        /\ \A i \in 1..Len(q') : q'[i] = q[i + 1]
        /\ UNCHANGED <<log, pending>> /\ wpc = "loop" /\ wpc' = "run"
    BY <1>1, <1>7 DEF WorkerTake, TakeFront, TypeOK
  <2> QED
    BY <1>1, <1>2, <2>1 DEF Ids, PendingCounts, InHand, Over
<1>8. CASE WorkerBlock \/ WorkerReturn \/ SpuriousWorker
  <2>1. /\ UNCHANGED <<log, q, pending, cur>>
        /\ wpc \in {"loop", "wait"} /\ wpc' \in {"loop", "wait", "exit"}
    BY <1>8 DEF WorkerBlock, WorkerReturn, SpuriousWorker, queueVars
  <2> QED
    BY <1>3, <2>1
<1>9. CASE WorkerRun \/ WorkerThrow \/ WorkerMarkDone \/ WorkerMarkNotify
  <2>1. /\ UNCHANGED <<log, q, pending, cur>>
        /\ wpc \in {"run", "mark"} /\ wpc' \in {"mark", "dec"}
    BY <1>9 DEF WorkerRun, WorkerThrow, WorkerMarkDone, WorkerMarkNotify, queueVars
  <2> QED
    BY <1>1, <1>2, <2>1 DEF Ids, PendingCounts, InHand, Over
<1>10. CASE WorkerDec
  BY <1>1, <1>2, <1>10 DEF WorkerDec, Ids, PendingCounts, InHand, Over
<1>11. CASE WorkerNotify \/ WorkerAsksGil
  <2>1. /\ UNCHANGED <<log, q, pending, cur>>
        /\ wpc \in {"notify", "free"} /\ wpc' \in {"free", "drop"}
    BY <1>11 DEF WorkerNotify, WorkerAsksGil, queueVars
  <2> QED
    BY <1>1, <1>2, <2>1 DEF Ids, PendingCounts, InHand, Over
<1>12. CASE WorkerFree \/ WorkerDrop
  <2>1. /\ UNCHANGED <<log, q, pending>> /\ cur' = 0
        /\ wpc \in {"free", "drop"} /\ wpc' = "loop"
    BY <1>12 DEF WorkerFree, WorkerDrop, queueVars
  <2> QED
    BY <1>1, <1>2, <2>1 DEF Ids, PendingCounts, InHand, Over
<1> QED
  BY <1>4, <1>5, <1>6, <1>7, <1>8, <1>9, <1>10, <1>11, <1>12, Effects

LEMMA OutcomesStep ==
  ASSUME IInv, Next
  PROVE  Outcomes'
<1>1. /\ TypeOK /\ Ids /\ Outcomes
      /\ Over \in Nat /\ Over' \in Nat /\ Over <= Over'
      /\ Len(log) \in Nat /\ Len(q) \in Nat
  BY FinishedIsPrefix, IdsStep DEF IInv, TypeOK
<1>2. 1..Over \subseteq 1..Over'
  BY <1>1
<1>3. CASE UNCHANGED taskVars
  BY <1>1, <1>2, <1>3 DEF Outcomes, taskVars
<1>4. CASE WorkerThrow \/ WorkerMarkDone
  <2>1. cur \in 1..Over' /\ cur # 0
    BY <1>1, <1>4 DEF WorkerThrow, WorkerMarkDone, Ids, Over, TypeOK, queueVars
  <2>2. CASE WorkerThrow
    BY <1>1, <1>2, <2>1, <2>2 DEF WorkerThrow, KeepFirst, Outcomes
  <2>3. CASE WorkerMarkDone
    BY <1>1, <1>2, <2>1, <2>3 DEF WorkerMarkDone, Outcomes
  <2> QED
    BY <1>4, <2>2, <2>3
<1> QED
  BY <1>3, <1>4, Effects
     DEF EnqPush, EnqNotify, ShutNotify, ShutStop, WorkerBlock, WorkerReturn,
         WorkerTake, WorkerRun, WorkerMarkNotify, WorkerDec, WorkerNotify,
         WorkerFree, WorkerAsksGil, WorkerDrop, SpuriousWorker

LEMMA StopsStep ==
  ASSUME IInv, Next
  PROVE  Stops'
<1>1. /\ TypeOK /\ Ids /\ Stops
      /\ Over \in Nat /\ Over' \in Nat /\ Over <= Over'
      /\ Len(log) \in Nat /\ Len(q) \in Nat /\ stopMark \in Nat
  BY FinishedIsPrefix, IdsStep DEF IInv, TypeOK
<1>2. CASE UNCHANGED <<log, stop, stopMark>> /\ (wpc' = "exit" => wpc = "exit")
  BY <1>1, <1>2 DEF Stops
<1>3. ASSUME NEW c \in Clients, EnqPush(c) PROVE Stops'
  <2>1. Len(log') = Len(log) + 1
    BY <1>1, <1>3 DEF EnqPush, TypeOK
  <2> QED
    BY <1>1, <1>3, <2>1 DEF EnqPush, Stops, workerVars
<1>4. ASSUME NEW c \in Clients, ShutStop(c) PROVE Stops'
  BY <1>1, <1>4 DEF ShutStop, Stops, workerVars
<1>5. CASE WorkerReturn
  BY <1>1, <1>5 DEF WorkerReturn, ReturnDrained, Stops, Ids, Over, queueVars
<1> QED
  BY <1>2, <1>3, <1>4, <1>5, Effects
     DEF EnqNotify, ShutNotify, NotifyWorker, WorkerBlock, WorkerTake, WorkerRun,
         WorkerThrow, WorkerMarkDone, WorkerMarkNotify, WorkerDec, WorkerNotify,
         WorkerFree, WorkerAsksGil, WorkerDrop, SpuriousWorker, queueVars, workerVars

LEMMA SyncsStep ==
  ASSUME IInv, Next
  PROVE  Syncs'
<1>1. /\ TypeOK /\ Ids /\ PendingCounts /\ Syncs /\ TypeOK'
      /\ Over \in Nat /\ Over' \in Nat /\ Over <= Over'
      /\ Len(log) \in Nat /\ Len(q) \in Nat
  <2>1. TypeOK /\ Ids /\ PendingCounts /\ Syncs /\ TypeOK'
    BY TypeStep DEF IInv
  <2>2. Len(log) \in Nat /\ Len(q) \in Nat
    BY DEF IInv, TypeOK
  <2> QED
    BY <2>1, <2>2, FinishedIsPrefix, IdsStep
<1>2. Len(log') \in Nat /\ Len(log) <= Len(log')
  <2>1. ASSUME NEW c \in Clients, EnqPush(c) PROVE Len(log') = Len(log) + 1
    BY <1>1, <2>1 DEF EnqPush, TypeOK
  <2>2. log' = log \/ \E c \in Clients : EnqPush(c)
    BY Effects
       DEF EnqNotify, ShutNotify, ShutStop, WorkerBlock, WorkerReturn, WorkerTake,
           WorkerRun, WorkerThrow, WorkerMarkDone, WorkerMarkNotify, WorkerDec,
           WorkerNotify, WorkerFree, WorkerAsksGil, WorkerDrop, SpuriousWorker, queueVars
  <2> QED
    BY <1>1, <2>1, <2>2
<1> SUFFICES ASSUME NEW d \in Clients
             PROVE  /\ mark'[d] <= Len(log')
                    /\ res'[d] # "none" => pc'[d] = "regil"
                    /\ pc'[d] = "sync_err" \/ res'[d] # "none" => mark'[d] <= Over'
                    /\ res'[d] = "ok" => \A t \in 1..mark'[d] : t \notin failed'
  BY DEF Syncs
<1>3. /\ mark[d] \in Nat /\ mark[d] <= Len(log)
      /\ res[d] # "none" => pc[d] = "regil"
      /\ pc[d] = "sync_err" \/ res[d] # "none" => mark[d] <= Over
      /\ res[d] = "ok" => \A t \in 1..mark[d] : t \notin failed
  BY <1>1 DEF Syncs, TypeOK
<1>4. \A t \in failed' : t \in failed \/ t > Over
  <2>1. CASE WorkerThrow
    BY <1>1, <2>1 DEF WorkerThrow, Ids, Over
  <2> QED
    BY <2>1, Effects
       DEF EnqPush, EnqNotify, ShutNotify, ShutStop, WorkerBlock, WorkerReturn,
           WorkerTake, WorkerRun, WorkerMarkDone, WorkerMarkNotify, WorkerDec,
           WorkerNotify, WorkerFree, WorkerAsksGil, WorkerDrop, SpuriousWorker, taskVars
\* Nothing happens to client d, or it goes on from a point outside sync().
<1>5. CASE /\ mark'[d] = mark[d] /\ res'[d] = res[d]
           /\ pc'[d] # "sync_err" \/ pc[d] = "sync_err"
           /\ pc'[d] = pc[d] \/ pc[d] # "regil"
  <2>1. mark'[d] <= Len(log') /\ (res'[d] # "none" => pc'[d] = "regil")
    BY <1>1, <1>2, <1>3, <1>5
  <2>2. pc'[d] = "sync_err" \/ res'[d] # "none" => mark'[d] <= Over'
    BY <1>1, <1>3, <1>5
  <2>3. ASSUME res'[d] = "ok", NEW t \in 1..mark'[d] PROVE t \notin failed'
    BY <1>1, <1>3, <1>4, <1>5, <2>3
  <2> QED
    BY <2>1, <2>2, <2>3
<1>6. CASE Sync(d)
  BY <1>1, <1>2, <1>3, <1>6 DEF Sync, Goto, TypeOK, queueVars
<1>7. CASE SyncCheck(d)
  <2>1. /\ mark' = mark /\ res' = res /\ pc[d] = "sync_check"
        /\ pc'[d] = IF pending = 0 THEN "sync_err" ELSE "sync_block"
    BY <1>1, <1>7 DEF SyncCheck, NonePending, Goto, TypeOK
  <2>2. pending = 0 => Over = Len(log)
    BY <1>1 DEF PendingCounts, InHand, Ids, Over
  <2> QED
    BY <1>1, <1>2, <1>3, <2>1, <2>2
<1>8. CASE SyncErr(d)
  <2>1. /\ mark' = mark /\ pc[d] = "sync_err" /\ pc'[d] = "regil"
        /\ res'[d] = IF err # 0 THEN "error" ELSE "ok"
        /\ failed' = failed
    BY <1>1, <1>8 DEF SyncErr, Goto, TypeOK, taskVars
  <2>2. err = 0 => failed = {}
    BY DEF IInv, Outcomes
  <2> QED
    BY <1>1, <1>2, <1>3, <2>1, <2>2
<1>9. CASE Regil(d)
  BY <1>1, <1>2, <1>3, <1>9 DEF Regil, Goto, TypeOK
<1>10. CASE Steps /\ ~Sync(d) /\ ~SyncCheck(d) /\ ~SyncErr(d) /\ ~Regil(d)
  <2>1. ASSUME NEW c \in Clients, Sync(c) \/ SyncCheck(c) \/ SyncErr(c) \/ Regil(c)
        PROVE  mark'[d] = mark[d] /\ res'[d] = res[d] /\ pc'[d] = pc[d]
    BY <1>1, <1>10, <2>1 DEF Sync, SyncCheck, SyncErr, Regil, Goto, TypeOK
  <2>2. ASSUME NEW c \in Clients,
               \/ \E w \in Submissions : Submit(c, w)
               \/ \E t \in 1..MaxTasks : HandleWait(c, t)
               \/ EnqCheckFails(c) \/ EnqCheckPasses(c) \/ EnqPush(c) \/ EnqNotify(c)
               \/ SyncLock(c) \/ SyncBlock(c) \/ Shutdown(c) \/ ShutAgain(c)
               \/ ShutStop(c) \/ ShutNotify(c) \/ ShutJoin(c) \/ HandleCheck(c)
               \/ SpuriousClient(c)
        PROVE  /\ mark' = mark /\ res' = res
               /\ pc'[d] = pc[d] \/ (pc'[d] # "sync_err" /\ pc[d] # "regil")
    BY <1>1, <2>2
       DEF Submit, HandleWait, EnqCheckFails, EnqCheckPasses, EnqPush, EnqNotify,
           SyncLock, SyncBlock, Shutdown, ShutAgain, ShutStop, ShutNotify, ShutJoin,
           HandleCheck, SpuriousClient, Goto, TypeOK
  <2>3. ASSUME WorkerMarkNotify \/ WorkerNotify
        PROVE  /\ mark' = mark /\ res' = res
               /\ pc'[d] = pc[d] \/ (pc'[d] # "sync_err" /\ pc[d] # "regil")
    BY <2>3 DEF WorkerMarkNotify, WakeHandle, WorkerNotify, Wake, At
  <2>4. ASSUME \/ WorkerBlock \/ WorkerReturn \/ WorkerTake \/ WorkerRun
               \/ WorkerThrow \/ WorkerMarkDone \/ WorkerDec \/ WorkerFree
               \/ WorkerAsksGil \/ WorkerDrop \/ SpuriousWorker
               \/ \E w \in Weights : RaiseState(w)
        PROVE  UNCHANGED <<mark, res, pc>>
    BY <2>4 DEF WorkerBlock, WorkerReturn, WorkerTake, WorkerRun, WorkerThrow,
                WorkerMarkDone, WorkerDec, WorkerFree, WorkerAsksGil, WorkerDrop,
                SpuriousWorker, RaiseState, clientVars
  <2> QED
    BY <1>5, <1>10, <2>1, <2>2, <2>3, <2>4 DEF Steps
<1> QED
  BY <1>6, <1>7, <1>8, <1>9, <1>10, NextIsSteps

\* Nobody blocks on a done handle: the worker's store is followed by its notify.
LEMMA NoLostHandleStep ==
  ASSUME IInv, Next
  PROVE  NoLostHandle'
<1>1. Steps /\ TypeOK /\ NoLostHandle
  BY NextIsSteps DEF IInv
<1> USE DEF NoLostHandle, Goto, TypeOK
<1>2. ASSUME NEW c \in Clients,
             \/ \E w \in Submissions : Submit(c, w)
             \/ EnqCheckFails(c) \/ EnqCheckPasses(c) \/ EnqPush(c)
             \/ Sync(c) \/ SyncLock(c) \/ SyncCheck(c) \/ SyncBlock(c) \/ SyncErr(c)
             \/ Regil(c) \/ Shutdown(c) \/ ShutAgain(c) \/ ShutStop(c) \/ ShutJoin(c)
             \/ SpuriousClient(c)
      PROVE  NoLostHandle'
  <2>1. /\ handles' = handles /\ hid' = hid /\ wpc' = wpc /\ cur' = cur
        /\ \A d \in Clients : pc'[d] = "h_wait" => pc[d] = "h_wait"
    BY <1>1, <1>2
       DEF Submit, EnqCheckFails, EnqCheckPasses, EnqPush, Sync, SyncLock, SyncCheck,
           SyncBlock, SyncErr, Regil, Shutdown, ShutAgain, ShutStop, ShutJoin,
           SpuriousClient, workerVars, taskVars
  <2> QED
    BY <1>1, <2>1
<1>3. ASSUME NEW c \in Clients, EnqNotify(c) \/ ShutNotify(c) PROVE NoLostHandle'
  <2>1. /\ handles' = handles /\ hid' = hid /\ cur' = cur
        /\ wpc = "mark" => wpc' = "mark"
        /\ \A d \in Clients : pc'[d] = "h_wait" => pc[d] = "h_wait"
    BY <1>1, <1>3 DEF EnqNotify, ShutNotify, NotifyWorker, taskVars
  <2> QED
    BY <1>1, <2>1
<1>4. ASSUME NEW c \in Clients, NEW t \in 1..MaxTasks, HandleWait(c, t)
      PROVE  NoLostHandle'
  <2>1. /\ handles' = handles /\ wpc' = wpc /\ cur' = cur
        /\ \A d \in Clients : pc'[d] = "h_wait" => pc[d] = "h_wait" /\ hid'[d] = hid[d]
    BY <1>1, <1>4 DEF HandleWait, workerVars, taskVars
  <2> QED
    BY <1>1, <2>1
<1>5. ASSUME NEW c \in Clients, HandleCheck(c) PROVE NoLostHandle'
  BY <1>1, <1>5 DEF HandleCheck, workerVars, taskVars
<1>6. CASE WorkerMarkDone
  <2>1. /\ handles' = handles \cup {cur} /\ wpc' = "mark" /\ wpc = "run"
        /\ cur' = cur /\ hid' = hid /\ pc' = pc
    BY <1>6 DEF WorkerMarkDone, clientVars
  <2> QED
    BY <1>1, <2>1
<1>7. CASE WorkerMarkNotify
  <2>1. \A d \in Clients : pc'[d] = "h_wait" => pc[d] = "h_wait" /\ hid[d] # cur
    BY <1>7 DEF WorkerMarkNotify, WakeHandle, Wake, At
  <2>2. hid' = hid /\ handles' = handles
    BY <1>7 DEF WorkerMarkNotify, taskVars
  <2> QED
    BY <1>1, <2>1, <2>2
<1>8. CASE WorkerNotify
  <2>1. \A d \in Clients : pc'[d] = "h_wait" => pc[d] = "h_wait"
    BY <1>8 DEF WorkerNotify, Wake, At
  <2>2. hid' = hid /\ handles' = handles /\ wpc # "mark"
    BY <1>8 DEF WorkerNotify, taskVars
  <2> QED
    BY <1>1, <2>1, <2>2
<1>9. ASSUME \/ WorkerBlock \/ WorkerReturn \/ WorkerTake \/ WorkerRun \/ WorkerThrow
             \/ WorkerDec \/ WorkerFree \/ WorkerAsksGil \/ WorkerDrop
             \/ SpuriousWorker \/ \E w \in Weights : RaiseState(w)
      PROVE  NoLostHandle'
  <2>1. /\ hid' = hid /\ handles' = handles /\ pc' = pc
        /\ wpc # "mark" \/ (wpc' = wpc /\ cur' = cur)
    BY <1>9 DEF WorkerBlock, WorkerReturn, WorkerTake, WorkerRun, WorkerThrow,
                WorkerDec, WorkerFree, WorkerAsksGil, WorkerDrop, SpuriousWorker,
                RaiseState, clientVars, taskVars, workerVars
  <2> QED
    BY <1>1, <2>1
<1> QED
  BY <1>1, <1>2, <1>3, <1>4, <1>5, <1>6, <1>7, <1>8, <1>9 DEF Steps

\* What gave the sleeping worker something to do is still about to notify it.
LEMMA SleepsStep ==
  ASSUME IInv, Next
  PROVE  WorkerSleepsOnlyWhenIdle'
<1>1. Steps /\ TypeOK /\ WorkerSleepsOnlyWhenIdle
  BY NextIsSteps DEF IInv
<1> DEFINE Notifying(c) == pc[c] \in {"enq_notify", "shut_notify"}
<1> USE DEF WorkerSleepsOnlyWhenIdle, Goto, TypeOK
<1>2. ASSUME NEW c \in Clients,
             \/ \E w \in Submissions : Submit(c, w)
             \/ \E t \in 1..MaxTasks : HandleWait(c, t)
             \/ EnqCheckFails(c) \/ EnqCheckPasses(c)
             \/ Sync(c) \/ SyncLock(c) \/ SyncCheck(c) \/ SyncBlock(c) \/ SyncErr(c)
             \/ Regil(c) \/ Shutdown(c) \/ ShutAgain(c) \/ ShutJoin(c)
             \/ HandleCheck(c) \/ SpuriousClient(c)
      PROVE  WorkerSleepsOnlyWhenIdle'
  <2>1. /\ q' = q /\ stop' = stop /\ wpc' = wpc
        /\ \A d \in Clients : Notifying(d) => pc'[d] = pc[d]
    BY <1>1, <1>2
       DEF Submit, HandleWait, EnqCheckFails, EnqCheckPasses, Sync, SyncLock, SyncCheck,
           SyncBlock, SyncErr, Regil, Shutdown, ShutAgain, ShutJoin, HandleCheck,
           SpuriousClient, queueVars, workerVars
  <2> QED
    BY <1>1, <2>1
<1>3. ASSUME NEW c \in Clients, EnqPush(c) \/ ShutStop(c)
      PROVE  WorkerSleepsOnlyWhenIdle'
  <2>1. pc'[c] \in {"enq_notify", "shut_notify"}
    BY <1>1, <1>3 DEF EnqPush, ShutStop
  <2> QED
    BY <2>1
<1>4. ASSUME NEW c \in Clients, EnqNotify(c) \/ ShutNotify(c)
      PROVE  WorkerSleepsOnlyWhenIdle'
  BY <1>4 DEF EnqNotify, ShutNotify, NotifyWorker
<1>5. CASE WorkerBlock
  BY <1>5 DEF WorkerBlock, queueVars
<1>6. ASSUME \/ WorkerReturn \/ WorkerTake \/ WorkerRun \/ WorkerThrow \/ WorkerMarkDone
             \/ WorkerMarkNotify \/ WorkerDec \/ WorkerNotify \/ WorkerFree
             \/ WorkerAsksGil \/ WorkerDrop \/ SpuriousWorker
      PROVE  WorkerSleepsOnlyWhenIdle'
  <2>1. wpc' # "wait"
    BY <1>6 DEF WorkerReturn, WorkerTake, WorkerRun, WorkerThrow, WorkerMarkDone,
                WorkerMarkNotify, WorkerDec, WorkerNotify, WorkerFree, WorkerAsksGil,
                WorkerDrop, SpuriousWorker
  <2> QED
    BY <2>1
<1>7. ASSUME NEW w \in Weights, RaiseState(w) PROVE WorkerSleepsOnlyWhenIdle'
  BY <1>1, <1>7 DEF RaiseState, queueVars, workerVars, clientVars
<1> QED
  BY <1>1, <1>2, <1>3, <1>4, <1>5, <1>6, <1>7 DEF Steps

-----------------------------------------------------------------------------
\* IInv holds of every reachable state.
LEMMA Invariance == Spec => []IInv
<1>1. IInv /\ [Next]_vars => IInv'
  <2>1. CASE Next
    BY <2>1, TypeStep, IdsStep, OutcomesStep, SyncsStep, StopsStep, SleepsStep,
       NoLostHandleStep DEF IInv
  <2>2. CASE UNCHANGED vars
    BY <2>2 DEF IInv, TypeOK, Ids, PendingCounts, Outcomes, Syncs, Stops, Over,
                InHand, WorkerSleepsOnlyWhenIdle, NoLostHandle, vars, queueVars, workerVars,
                taskVars, clientVars
  <2> QED
    BY <2>1, <2>2
<1> QED
  BY InitEstablishes, <1>1, PTL DEF Spec

\* Every variable of the runtime keeps its type, for any number of clients.
THEOREM TypeCorrect == Spec => []TypeOK
<1>1. IInv => TypeOK
  BY DEF IInv
<1> QED
  BY <1>1, Invariance, PTL

\* pending_ never drifts from the tasks that are queued or running.
THEOREM PendingCorrect == Spec => []PendingCounts
<1>1. IInv => PendingCounts
  BY DEF IInv
<1> QED
  BY <1>1, Invariance, PTL

\* A sync() that returns normally vouches for every task submitted before it.
THEOREM SyncCorrect == Spec => []SyncOkMeansDone
<1>1. IInv => SyncOkMeansDone
  <2> SUFFICES ASSUME IInv, NEW c \in Clients, res[c] = "ok", NEW t \in 1..mark[c]
               PROVE  t \in Finished /\ t \notin failed
    BY DEF SyncOkMeansDone
  <2>1. Finished = 1..Over /\ Over \in Nat
    BY FinishedIsPrefix DEF IInv
  <2>2. mark[c] \in Nat /\ mark[c] <= Over
    BY DEF IInv, Syncs, TypeOK
  <2> QED
    BY <2>1, <2>2 DEF IInv, Syncs
<1> QED
  BY <1>1, Invariance, PTL

\* A done handle vouches for every task submitted before its own.
THEOREM HandleCorrect == Spec => []HandleAfterPredecessors
<1>1. IInv => HandleAfterPredecessors
  <2> SUFFICES ASSUME IInv, NEW t \in handles PROVE 1..t \subseteq Finished
    BY DEF HandleAfterPredecessors
  <2>1. Finished = 1..Over /\ Over \in Nat /\ t \in 1..Over
    BY FinishedIsPrefix DEF IInv, Outcomes
  <2> QED
    BY <2>1
<1> QED
  BY <1>1, Invariance, PTL

\* The hand-over of a task or of the stop to a sleeping worker is never lost.
THEOREM WakeupCorrect == Spec => []WorkerSleepsOnlyWhenIdle
<1>1. IInv => WorkerSleepsOnlyWhenIdle
  BY DEF IInv
<1> QED
  BY <1>1, Invariance, PTL

\* A thread that waits for a ready handle is woken although mark_done notifies
\* after it has released the handle's mutex.
THEOREM HandleWakeupCorrect == Spec => []NoLostHandle
<1>1. IInv => NoLostHandle
  BY DEF IInv
<1> QED
  BY <1>1, Invariance, PTL

\* The worker drains what was queued before shutdown().
THEOREM DrainCorrect == Spec => []DrainBeforeExit
<1>1. IInv => DrainBeforeExit
  <2> SUFFICES ASSUME IInv, wpc = "exit" PROVE 1..stopMark \subseteq Finished
    BY DEF DrainBeforeExit
  <2>1. Finished = 1..Over /\ Over \in Nat
    BY FinishedIsPrefix DEF IInv
  <2>2. stopMark \in Nat /\ stopMark <= Over
    BY DEF IInv, Stops, TypeOK
  <2> QED
    BY <2>1, <2>2
<1> QED
  BY <1>1, Invariance, PTL

-----------------------------------------------------------------------------
(* AsyncRuntime implements RuntimeContract. *)

LEMMA FinishedIsPrefixNext ==
  (TypeOK /\ Ids)' => (Over \in Nat /\ Over <= Len(log) /\ Finished = 1..Over)'
<1>1. TypeOK /\ Ids => Over \in Nat /\ Over <= Len(log) /\ Finished = 1..Over
  BY FinishedIsPrefix
<1> QED
  BY <1>1, PTL

\* The call of each client that the contract sees.
Call == [c \in Clients |-> IF InSync(c) THEN "sync" ELSE res[c]]

\* What a step does to the tasks and to the outcome of the first to fail.
LEMMA TaskEffects ==
  ASSUME IInv, Next
  PROVE  \/ Len(log') = Len(log) /\ Over' = Over /\ err' = err
         \/ /\ Len(log') = Len(log) + 1 /\ Over' = Over /\ err' = err
            /\ \E c \in Clients : EnqPush(c)
         \/ /\ Len(log') = Len(log) /\ Over' = Over + 1
            /\ err' \in {err, IF err = 0 THEN Over' ELSE err}
            /\ WorkerRun \/ WorkerThrow \/ WorkerMarkDone
<1>1. TypeOK /\ Ids /\ Len(log) \in Nat /\ Len(q) \in Nat
  BY DEF IInv, TypeOK
<1>2. ASSUME NEW c \in Clients, EnqPush(c)
      PROVE  Len(log') = Len(log) + 1 /\ Over' = Over /\ err' = err
  <2>1. Len(log') = Len(log) + 1 /\ Len(q') = Len(q) + 1
    BY <1>1, <1>2 DEF EnqPush, TypeOK
  <2> QED
    BY <1>1, <1>2, <2>1 DEF EnqPush, Over, workerVars, taskVars
<1>3. CASE WorkerTake
  <2>1. Len(q') = Len(q) - 1 /\ log' = log /\ err' = err
    BY <1>1, <1>3 DEF WorkerTake, TakeFront, TypeOK, taskVars
  <2> QED
    BY <1>1, <1>3, <2>1 DEF WorkerTake, Over
<1>4. CASE WorkerRun \/ WorkerThrow \/ WorkerMarkDone
  <2>1. log' = log /\ q' = q /\ wpc = "run" /\ wpc' # "run" /\ cur = Len(log) - Len(q)
    BY <1>1, <1>4 DEF WorkerRun, WorkerThrow, WorkerMarkDone, Ids, queueVars
  <2>2. Over' = Over + 1 /\ Over' = cur
    BY <1>1, <2>1 DEF Over
  <2>3. err' \in {err, IF err = 0 THEN cur ELSE err}
    BY <1>4 DEF WorkerRun, WorkerThrow, KeepFirst, WorkerMarkDone, taskVars
  <2> QED
    BY <1>4, <2>1, <2>2, <2>3
<1>5. CASE /\ UNCHANGED <<log, q, err>>
           /\ wpc' = wpc \/ (wpc # "run" /\ wpc' # "run")
  BY <1>5 DEF Over
<1>6. ASSUME NEW c \in Clients, EnqNotify(c) \/ ShutNotify(c) \/ ShutStop(c)
      PROVE  /\ UNCHANGED <<log, q, err>>
             /\ wpc' = wpc \/ (wpc # "run" /\ wpc' # "run")
  BY <1>6 DEF EnqNotify, ShutNotify, ShutStop, NotifyWorker, queueVars, workerVars, taskVars
<1>7. ASSUME \/ WorkerBlock \/ WorkerReturn \/ WorkerMarkNotify \/ WorkerDec
             \/ WorkerNotify \/ WorkerFree \/ WorkerAsksGil \/ WorkerDrop
             \/ SpuriousWorker
      PROVE  UNCHANGED <<log, q, err>> /\ wpc # "run" /\ wpc' # "run"
  BY <1>7 DEF WorkerBlock, WorkerReturn, WorkerMarkNotify, WorkerDec, WorkerNotify,
              WorkerFree, WorkerAsksGil, WorkerDrop, SpuriousWorker, queueVars, taskVars
<1>8. CASE UNCHANGED <<queueVars, workerVars, taskVars>>
  BY <1>5, <1>8 DEF queueVars, workerVars, taskVars
<1> QED
  BY <1>2, <1>3, <1>4, <1>5, <1>6, <1>7, <1>8, Effects

\* What a step does to the calls of sync(): at most one client begins, ends or
\* leaves one.
LEMMA CallEffects ==
  ASSUME IInv, Next
  PROVE  \/ Call' = Call /\ mark' = mark
         \/ \E c \in Clients :
              \/ /\ Sync(c) /\ Call[c] = "none"
                 /\ Call' = [Call EXCEPT ![c] = "sync"]
                 /\ mark' = [mark EXCEPT ![c] = Len(log)]
              \/ /\ SyncErr(c) /\ Call[c] = "sync"
                 /\ Call' = [Call EXCEPT ![c] = IF err # 0 THEN "error" ELSE "ok"]
                 /\ mark' = mark
              \/ /\ Regil(c) /\ Call' = [Call EXCEPT ![c] = "none"]
                 /\ mark' = mark /\ res[c] = Call[c]
<1>1. /\ pc \in [Clients -> ClientPc] /\ res \in [Clients -> {"none", "ok", "error"}]
      /\ mark \in [Clients -> Nat]
      /\ \A c \in Clients : res[c] # "none" => pc[c] = "regil"
  BY DEF IInv, TypeOK, Syncs
<1>2. Steps
  BY NextIsSteps
<1>3. CASE /\ mark' = mark /\ res' = res
           /\ \A d \in Clients : InSync(d)' = InSync(d)
  BY <1>3 DEF Call
<1>4. ASSUME NEW c \in Clients, Sync(c)
      PROVE  /\ Call[c] = "none" /\ Call' = [Call EXCEPT ![c] = "sync"]
             /\ mark' = [mark EXCEPT ![c] = Len(log)]
  BY <1>1, <1>4 DEF Sync, Goto, Call, InSync
<1>5. ASSUME NEW c \in Clients, SyncErr(c)
      PROVE  /\ Call[c] = "sync" /\ mark' = mark
             /\ Call' = [Call EXCEPT ![c] = IF err # 0 THEN "error" ELSE "ok"]
  BY <1>1, <1>5 DEF SyncErr, Goto, Call, InSync
<1>6. ASSUME NEW c \in Clients, Regil(c)
      PROVE  /\ Call' = [Call EXCEPT ![c] = "none"] /\ mark' = mark
             /\ res[c] = Call[c]
  BY <1>1, <1>6 DEF Regil, Goto, Call, InSync
<1>7. ASSUME NEW c \in Clients,
             \/ \E w \in Submissions : Submit(c, w)
             \/ \E t \in 1..MaxTasks : HandleWait(c, t)
             \/ EnqCheckFails(c) \/ EnqCheckPasses(c) \/ EnqPush(c) \/ EnqNotify(c)
             \/ SyncLock(c) \/ SyncCheck(c) \/ SyncBlock(c) \/ Shutdown(c)
             \/ ShutAgain(c) \/ ShutStop(c) \/ ShutNotify(c) \/ ShutJoin(c)
             \/ HandleCheck(c) \/ SpuriousClient(c)
      PROVE  /\ mark' = mark /\ res' = res
             /\ \A d \in Clients : InSync(d)' = InSync(d)
  BY <1>1, <1>7
     DEF Submit, HandleWait, EnqCheckFails, EnqCheckPasses, EnqPush, EnqNotify,
         SyncLock, SyncCheck, SyncBlock, Shutdown, ShutAgain, ShutStop, ShutNotify,
         ShutJoin, HandleCheck, SpuriousClient, Goto, InSync
<1>8. ASSUME WorkerMarkNotify \/ WorkerNotify
      PROVE  /\ mark' = mark /\ res' = res
             /\ \A d \in Clients : InSync(d)' = InSync(d)
  BY <1>8 DEF WorkerMarkNotify, WakeHandle, WorkerNotify, Wake, At, InSync
<1>9. ASSUME \/ WorkerBlock \/ WorkerReturn \/ WorkerTake \/ WorkerRun
             \/ WorkerThrow \/ WorkerMarkDone \/ WorkerDec \/ WorkerFree
             \/ WorkerAsksGil \/ WorkerDrop \/ SpuriousWorker
             \/ \E w \in Weights : RaiseState(w)
      PROVE  UNCHANGED <<mark, res, pc>>
  BY <1>9 DEF WorkerBlock, WorkerReturn, WorkerTake, WorkerRun, WorkerThrow,
              WorkerMarkDone, WorkerDec, WorkerFree, WorkerAsksGil, WorkerDrop,
              SpuriousWorker, RaiseState, clientVars
<1>10. CASE UNCHANGED <<mark, res, pc>>
  BY <1>10 DEF Call, InSync
<1> QED
  BY <1>2, <1>3, <1>4, <1>5, <1>6, <1>7, <1>8, <1>9, <1>10 DEF Steps

\* A step of the runtime is a step of the contract, or changes nothing it sees.
LEMMA StepSimulation ==
  ASSUME IInv, IInv', [Next]_vars
  PROVE  [Contract!Next]_(Contract!vars)
<1>1. /\ Over \in Nat /\ Finished = 1..Over
      /\ Over' \in Nat /\ Finished' = 1..Over'
      /\ Over <= Len(log) /\ Len(log) \in Nat
  <2>1. TypeOK /\ Ids /\ (TypeOK /\ Ids)'
    BY DEF IInv
  <2>2. Len(log) \in Nat
    BY DEF IInv, TypeOK
  <2> QED
    BY <2>1, <2>2, FinishedIsPrefix, FinishedIsPrefixNext
<1>2. Call = [c \in Clients |-> IF InSync(c) THEN "sync" ELSE res[c]]
  BY DEF Call
<1>3. CASE UNCHANGED vars
  BY <1>1, <1>3 DEF Contract!vars, Finished, Queued, InSync, vars, queueVars,
                    workerVars, taskVars, clientVars
<1> SUFFICES ASSUME Next PROVE [Contract!Next]_(Contract!vars)
  BY <1>3
<1>4. CASE /\ Len(log') = Len(log) /\ Over' = Over /\ err' = err
           /\ Call' = Call /\ mark' = mark
  BY <1>1, <1>4 DEF Call, Contract!vars
<1>5. ASSUME NEW c \in Clients, EnqPush(c), Len(log') = Len(log) + 1, Over' = Over,
             err' = err
      PROVE  Contract!Next
  <2>1. Call' = Call /\ mark' = mark
    <3>1. mark' = mark /\ log' # log
      BY <1>1, <1>5 DEF EnqPush
    <3> QED
      BY <3>1, CallEffects DEF Sync, SyncErr, Regil, queueVars
  <2>2. Contract!Accept
    BY <1>1, <1>5, <2>1 DEF Contract!Accept, Call
  <2> QED
    BY <2>2 DEF Contract!Next
<1>6. ASSUME WorkerRun \/ WorkerThrow \/ WorkerMarkDone, Len(log') = Len(log),
             Over' = Over + 1, err' \in {err, IF err = 0 THEN Over' ELSE err}
      PROVE  Contract!Next
  <2>1. Call' = Call /\ mark' = mark
    <3>1. mark' = mark /\ res' = res /\ pc' = pc
      BY <1>6 DEF WorkerRun, WorkerThrow, WorkerMarkDone, clientVars
    <3> QED
      BY <3>1 DEF Call, InSync
  <2>2. Over' \in 1..Len(log) /\ Finished' = Finished \cup {Over'}
    <3>1. Over' <= Len(log)
      BY <1>6, FinishedIsPrefixNext DEF IInv
    <3> QED
      BY <1>1, <1>6, <3>1
  <2>3. Contract!Turn(Over')
    BY <1>1, <1>6, <2>2 DEF Contract!Turn
  <2>4. Contract!Finish(Over')
    BY <1>6, <2>1, <2>2, <2>3 DEF Contract!Finish, Call
  <2> QED
    BY <2>2, <2>4 DEF Contract!Next
<1>7. ASSUME NEW c \in Clients, Sync(c) \/ SyncErr(c) \/ Regil(c)
      PROVE  /\ Len(log') = Len(log) /\ Finished' = Finished /\ err' = err
  BY <1>7 DEF Sync, SyncErr, Regil, queueVars, workerVars, taskVars, Finished, Queued
<1>8. ASSUME NEW c \in Clients, Sync(c), Call[c] = "none",
             Call' = [Call EXCEPT ![c] = "sync"],
             mark' = [mark EXCEPT ![c] = Len(log)]
      PROVE  Contract!Next
  <2>1. Contract!SyncCall(c)
    BY <1>7, <1>8 DEF Contract!SyncCall, Call
  <2> QED
    BY <2>1 DEF Contract!Next
<1>9. ASSUME NEW c \in Clients, SyncErr(c), Call[c] = "sync",
             Call' = [Call EXCEPT ![c] = IF err # 0 THEN "error" ELSE "ok"],
             mark' = mark
      PROVE  Contract!Next
  <2>1. mark[c] \in Nat /\ mark[c] <= Over
    BY <1>9 DEF SyncErr, IInv, Syncs, TypeOK
  <2>2. 1..mark[c] \subseteq Finished
    BY <1>1, <2>1
  <2>3. Contract!SyncOk(c) \/ Contract!SyncError(c)
    BY <1>7, <1>9, <2>2 DEF Contract!SyncOk, Contract!SyncError, Call
  <2> QED
    BY <2>3 DEF Contract!Next
<1>10. ASSUME NEW c \in Clients, Regil(c), Call' = [Call EXCEPT ![c] = "none"],
              mark' = mark, res[c] = Call[c]
       PROVE  [Contract!Next]_(Contract!vars)
  <2>1. Call \in [Clients -> {"none", "sync", "ok", "error"}]
    BY DEF Call, IInv, TypeOK
  <2>2. res[c] \in {"none", "ok", "error"}
    BY DEF IInv, TypeOK
  <2>3. CASE Call[c] = "none"
    <3>1. Call' = Call
      BY <1>10, <2>1, <2>3
    <3> QED
      BY <1>7, <1>10, <3>1 DEF Call, Contract!vars
  <2>4. CASE Call[c] \in {"ok", "error"}
    <3>1. Contract!SyncEnd(c)
      BY <1>7, <1>10, <2>4 DEF Contract!SyncEnd, Call
    <3> QED
      BY <3>1 DEF Contract!Next
  <2> QED
    BY <1>10, <2>2, <2>3, <2>4
<1>11. CASE \E c \in Clients : Sync(c) \/ SyncErr(c) \/ Regil(c)
  <2>1. PICK c \in Clients : Sync(c) \/ SyncErr(c) \/ Regil(c)
    BY <1>11
  <2>2. pc[c] \in {"py", "sync_err", "regil"}
    BY <2>1 DEF Sync, SyncErr, Regil
  <2>3. UNCHANGED <<Len(log), Over, err>>
    BY <1>7, <2>1 DEF Sync, SyncErr, Regil, Over, queueVars, workerVars
  <2> QED
    BY <1>4, <1>8, <1>9, <1>10, <2>3, CallEffects
<1>12. CASE ~\E c \in Clients : Sync(c) \/ SyncErr(c) \/ Regil(c)
  <2>1. Call' = Call /\ mark' = mark
    BY <1>12, CallEffects
  <2> QED
    BY <1>4, <1>5, <1>6, <2>1, TaskEffects
<1> QED
  BY <1>11, <1>12

\* Whatever the clients do, the runtime keeps the promises of RuntimeContract:
\* one task at a time in order, the first failure kept, sync() honest.
THEOREM RuntimeImplementsContract == Spec => ImplementsContract
<1>1. Init => Contract!Init
  <2> SUFFICES ASSUME Init PROVE Contract!Init
    OBVIOUS
  <2>1. Finished = {} /\ Len(log) = 0
    BY DEF Init, Finished
  <2>2. \A c \in Clients : ~InSync(c) /\ res[c] = "none"
    BY DEF Init, InSync
  <2> QED
    BY <2>1, <2>2 DEF Init, Contract!Init
<1>2. IInv /\ IInv' /\ [Next]_vars => [Contract!Next]_(Contract!vars)
  BY StepSimulation
<1> QED
  BY <1>1, <1>2, Invariance, PTL DEF Spec, ImplementsContract, Contract!Spec
=============================================================================
