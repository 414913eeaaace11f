--------------------------- MODULE HeadlessProofs ---------------------------
(***************************************************************************)
(* Proofs about Headless, for every set of calls and every bound.          *)
(***************************************************************************)
EXTENDS Headless, TLAPS

\* The frame of a step: the groups of variables, spelt out.
USE DEF vars, claims, tracked, processes, interrupt, history, bounds

\* Where a call can be (pc).
Places == {"idle", "lock", "list", "merge", "spawn", "queued", "wait", "stop", "post", "done"}

\* The part of TypeOK that the proofs use.
Typed ==
  /\ pc \in [Calls -> Places]
  /\ stopping \in [Calls -> {"no", "kill", "after"}]
  /\ proc \in [Calls -> {"none", "starting", "running", "ended"}]
  /\ found \in [Calls -> SUBSET Calls]
  /\ runs \subseteq Calls

\* No call, run or stop exists at first.
LEMMA TypedInit == Init => Typed
BY DEF Init, Typed, Places

\* What the actions of one call do to its type.
LEMMA TypedCall ==
  ASSUME Typed, NEW c \in Calls,
         \/ Begin(c) \/ Handler(c) \/ ClaimedInVain(c) \/ Cancel(c) \/ ClientGone(c)
         \/ AsyncInVain(c) \/ Timeout(c) \/ Stop(c) \/ Appears(c) \/ ProcEnds(c)
  PROVE  Typed'
<1> USE DEF Typed, Places, Goto
<1>1. CASE Begin(c) BY <1>1 DEF Begin
<1>2. CASE TakeLock(c) BY <1>2 DEF TakeLock
<1>3. CASE List(c) BY <1>3 DEF List, Listed
<1>4. CASE Refused(c) BY <1>4 DEF Refused, Unlock
<1>5. CASE Claimed(c) BY <1>5 DEF Claimed, Unlock, Exec
<1>6. CASE InFlight(c) BY <1>6 DEF InFlight
<1>7. CASE AsyncSpawn(c) BY <1>7 DEF AsyncSpawn, Exec
<1>8. CASE AsyncNotStarted(c) BY <1>8 DEF AsyncNotStarted, ForgetRun
<1>9. CASE WaitEnds(c) BY <1>9 DEF WaitEnds, ForgetRun
<1>10. CASE Callback(c) BY <1>10 DEF Callback
<1>11. CASE ClaimedInVain(c) BY <1>11 DEF ClaimedInVain, ForgetRun
<1>12. CASE Cancel(c) BY <1>12 DEF Cancel, Unlock, ForgetRun
<1>13. CASE ClientGone(c) BY <1>13 DEF ClientGone, StopOfGone
<1>14. CASE AsyncInVain(c) BY <1>14 DEF AsyncInVain
<1>15. CASE Timeout(c) BY <1>15 DEF Timeout
<1>16. CASE StopKill(c) BY <1>16 DEF StopKill, KillTagged
<1>17. CASE StopDone(c) BY <1>17 DEF StopDone, StopEnds, ForgetRun, AfterStop
<1>18. CASE StopFails(c) BY <1>18 DEF StopFails, StopEnds, ForgetRun, AfterStop
<1>19. CASE Appears(c) BY <1>19 DEF Appears
<1>20. CASE ProcEnds(c) BY <1>20 DEF ProcEnds
<1> QED BY <1>1, <1>2, <1>3, <1>4, <1>5, <1>6, <1>7, <1>8, <1>9, <1>10, <1>11, <1>12, <1>13,
           <1>14, <1>15, <1>16, <1>17, <1>18, <1>19, <1>20 DEF Handler, Stop

\* What the interrupts, kills and restarts do to the types.
LEMMA TypedRest ==
  ASSUME Typed, Interrupt \/ Kill \/ ForgetSession \/ Restart \/ UNCHANGED vars
  PROVE  Typed'
<1> USE DEF Typed, Places
<1>1. CASE Interrupt
  BY <1>1 DEF Interrupt, InterruptBegin, InterruptList, InterruptStop, InterruptReport, KillTagged
<1>2. CASE Kill BY <1>2 DEF Kill, Event
<1>3. CASE ForgetSession BY <1>3 DEF ForgetSession
<1>4. CASE Restart BY <1>4 DEF Restart
<1>5. CASE UNCHANGED vars BY <1>5
<1> QED BY <1>1, <1>2, <1>3, <1>4, <1>5

\* Every step keeps the types.
LEMMA TypedStep == ASSUME Typed, [Next]_vars PROVE Typed'
BY TypedCall, TypedRest DEF Next

\* The rare events under which two runs can be up at once are left out.
Tame == Faults \subseteq {"earlygone"}

\* A call that has not claimed the slot has no run and no stop.
Fresh ==
  \A c \in Calls :
    pc[c] \in {"idle", "lock", "list", "merge"} => proc[c] = "none" /\ stopping[c] = "no"

\* A session_invoke_async whose task has not started its docker exec holds the slot alone.
QueuedAlone ==
  \A c \in Calls : pc[c] = "queued" =>
    /\ proc[c] = "none" /\ stopping[c] = "no" /\ c \in runs
    /\ \A d \in Calls : ~Live(d) /\ (pc[d] = "queued" => d = c)

\* The docker exec of a run that starts is up, and nothing stops it yet.
SpawnUp ==
  \A c \in Calls : pc[c] = "spawn" => stopping[c] = "no" /\ (Live(c) => c \in host)

\* A stop that docker carried out left nothing.
StopKilled == \A c \in Calls : stopping[c] = "after" => ~Live(c)

\* What the listing cannot show is tracked, and so is a run whose docker exec is up.
StartingTracked == \A c \in Calls : proc[c] = "starting" => c \in runs
WaitTracked == \A c \in Calls : pc[c] = "wait" /\ Live(c) /\ c \notin host => c \notin runs

\* The call that is about to claim knows of every run: from the listing, or as tracked.
Seen == \A c \in Calls : pc[c] = "merge" => \A d \in Calls : Live(d) => d \in runs \cup found[c]

\* The inductive invariant of the slot.
SlotInv ==
  /\ Typed /\ Fresh /\ QueuedAlone /\ SpawnUp /\ StopKilled
  /\ StartingTracked /\ WaitTracked /\ Seen /\ OneRun

\* At first no run is up and nothing is tracked.
LEMMA SlotInit == Init => SlotInv
BY TypedInit DEF Init, SlotInv, Fresh, QueuedAlone, SpawnUp, StopKilled, StartingTracked,
   WaitTracked, Seen, OneRun, Live

\* One step of a call, its stop or its run keeps the slot.
LEMMA SlotCall ==
  ASSUME SlotInv, Tame, Typed', NEW c \in Calls,
         \/ Begin(c) \/ Handler(c) \/ ClaimedInVain(c) \/ Cancel(c) \/ ClientGone(c)
         \/ AsyncInVain(c) \/ Timeout(c) \/ Stop(c) \/ Appears(c) \/ ProcEnds(c)
  PROVE  SlotInv'
<1> USE DEF SlotInv, Typed, Places, Live, Goto, Fresh, QueuedAlone, SpawnUp, StopKilled,
  StartingTracked, WaitTracked, Seen, OneRun
<1>1. CASE Begin(c) BY <1>1 DEF Begin
<1>2. CASE TakeLock(c) BY <1>2 DEF TakeLock
<1>3. CASE List(c) BY <1>3 DEF List, Listed, Tame
<1>4. CASE Refused(c) BY <1>4 DEF Refused, Unlock
<1>5. CASE Claimed(c) BY <1>5 DEF Claimed, Unlock, Exec, Running
<1>6. CASE InFlight(c) BY <1>6 DEF InFlight
<1>7. CASE AsyncSpawn(c) BY <1>7 DEF AsyncSpawn, Exec
<1>8. CASE AsyncNotStarted(c) BY <1>8 DEF AsyncNotStarted, ForgetRun
<1>9. CASE WaitEnds(c) BY <1>9 DEF WaitEnds, ForgetRun
<1>10. CASE Callback(c) BY <1>10 DEF Callback
<1>11. CASE ClaimedInVain(c) BY <1>11 DEF ClaimedInVain, ForgetRun
<1>12. CASE Cancel(c) BY <1>12 DEF Cancel, Tame, Unlock, ForgetRun
<1>13. CASE ClientGone(c) BY <1>13 DEF ClientGone, StopOfGone
<1>14. CASE AsyncInVain(c) BY <1>14 DEF AsyncInVain
<1>15. CASE Timeout(c) BY <1>15 DEF Timeout
<1>16. CASE StopKill(c) BY <1>16 DEF StopKill, KillTagged, Tame
<1>17. CASE StopDone(c) BY <1>17 DEF StopDone, StopEnds, ForgetRun, AfterStop
<1>18. CASE StopFails(c) BY <1>18 DEF StopFails, StopEnds, ForgetRun, AfterStop, Tame
<1>19. CASE Appears(c) BY <1>19 DEF Appears
<1>20. CASE ProcEnds(c) BY <1>20 DEF ProcEnds
<1> QED BY <1>1, <1>2, <1>3, <1>4, <1>5, <1>6, <1>7, <1>8, <1>9, <1>10, <1>11, <1>12, <1>13,
           <1>14, <1>15, <1>16, <1>17, <1>18, <1>19, <1>20 DEF Handler, Stop

\* The steps that are of no one call keep the slot.
LEMMA SlotRest ==
  ASSUME SlotInv, Tame, Typed', Interrupt \/ Kill \/ ForgetSession \/ Restart \/ UNCHANGED vars
  PROVE  SlotInv'
<1> USE DEF SlotInv, Typed, Places, Live, Fresh, QueuedAlone, SpawnUp, StopKilled,
  StartingTracked, WaitTracked, Seen, OneRun
<1>1. CASE Interrupt
  <2>1. CASE InterruptBegin \/ InterruptList \/ InterruptReport
    BY <2>1 DEF InterruptBegin, InterruptList, InterruptReport
  <2>2. CASE InterruptStop BY <2>2 DEF InterruptStop, KillTagged, Tame
  <2> QED BY <1>1, <2>1, <2>2 DEF Interrupt
<1>2. CASE Kill BY <1>2 DEF Kill, Event
<1>3. CASE ForgetSession BY <1>3 DEF ForgetSession
<1>4. CASE Restart BY <1>4 DEF Restart, Tame
<1>5. CASE UNCHANGED vars BY <1>5
<1> QED BY <1>1, <1>2, <1>3, <1>4, <1>5

\* The slot's invariant is inductive.
LEMMA SlotStep == ASSUME SlotInv, Tame, [Next]_vars PROVE SlotInv'
<1>1. Typed' BY TypedStep DEF SlotInv
<1> QED BY <1>1, SlotCall, SlotRest DEF Next

\* MCP-42: however calls claim, wait, are cancelled, time out and are interrupted, and
\* however often the session is killed and the server restarted, at most one run is up.
\* Assumed is what the code cannot enforce: that docker lists the container, carries a stop
\* out and starts what it was told to.
THEOREM OneRunAtATime == ASSUME Tame PROVE Spec => []OneRun
<1>1. SlotInv => OneRun BY DEF SlotInv
<1> QED BY <1>1, SlotInit, SlotStep, PTL DEF Spec

\* Every entry of _runs has a call or a stop that takes it out, whatever docker does.
OwnedInv == Typed /\ SlotHasOwner

\* A step of a call that leaves the slot, or ends a stop, takes its run out.
LEMMA OwnedCall ==
  ASSUME OwnedInv, NEW c \in Calls,
         \/ Begin(c) \/ Handler(c) \/ ClaimedInVain(c) \/ Cancel(c) \/ ClientGone(c)
         \/ AsyncInVain(c) \/ Timeout(c) \/ Stop(c) \/ Appears(c) \/ ProcEnds(c)
  PROVE  SlotHasOwner'
<1> USE DEF OwnedInv, Typed, Places, Goto, SlotHasOwner
<1>1. CASE Begin(c) BY <1>1 DEF Begin
<1>2. CASE TakeLock(c) BY <1>2 DEF TakeLock
<1>3. CASE List(c) BY <1>3 DEF List
<1>4. CASE Refused(c) BY <1>4 DEF Refused, Unlock
<1>5. CASE Claimed(c) BY <1>5 DEF Claimed, Unlock, Exec, Running
<1>6. CASE InFlight(c) BY <1>6 DEF InFlight
<1>7. CASE AsyncSpawn(c) BY <1>7 DEF AsyncSpawn, Exec
<1>8. CASE AsyncNotStarted(c) BY <1>8 DEF AsyncNotStarted, ForgetRun
<1>9. CASE WaitEnds(c) BY <1>9 DEF WaitEnds, ForgetRun
<1>10. CASE Callback(c) BY <1>10 DEF Callback
<1>11. CASE ClaimedInVain(c) BY <1>11 DEF ClaimedInVain, ForgetRun
<1>12. CASE Cancel(c) BY <1>12 DEF Cancel, Unlock, ForgetRun
<1>13. CASE ClientGone(c) BY <1>13 DEF ClientGone, StopOfGone
<1>14. CASE AsyncInVain(c) BY <1>14 DEF AsyncInVain
<1>15. CASE Timeout(c) BY <1>15 DEF Timeout
<1>16. CASE StopKill(c) BY <1>16 DEF StopKill
<1>17. CASE StopDone(c) BY <1>17 DEF StopDone, StopEnds, ForgetRun, AfterStop
<1>18. CASE StopFails(c) BY <1>18 DEF StopFails, StopEnds, ForgetRun, AfterStop
<1>19. CASE Appears(c) BY <1>19 DEF Appears
<1>20. CASE ProcEnds(c) BY <1>20 DEF ProcEnds
<1> QED BY <1>1, <1>2, <1>3, <1>4, <1>5, <1>6, <1>7, <1>8, <1>9, <1>10, <1>11, <1>12, <1>13,
           <1>14, <1>15, <1>16, <1>17, <1>18, <1>19, <1>20 DEF Handler, Stop

\* No other step leaves a run without its owner.
LEMMA OwnedRest ==
  ASSUME OwnedInv, Interrupt \/ Kill \/ ForgetSession \/ Restart \/ UNCHANGED vars
  PROVE  SlotHasOwner'
<1> USE DEF OwnedInv, Typed, SlotHasOwner
<1>1. CASE Interrupt
  BY <1>1 DEF Interrupt, InterruptBegin, InterruptList, InterruptStop, InterruptReport
<1>2. CASE Kill BY <1>2 DEF Kill
<1>3. CASE ForgetSession BY <1>3 DEF ForgetSession
<1>4. CASE Restart BY <1>4 DEF Restart
<1>5. CASE UNCHANGED vars BY <1>5
<1> QED BY <1>1, <1>2, <1>3, <1>4, <1>5

\* At first nothing is tracked.
LEMMA OwnedInit == Init => OwnedInv
BY TypedInit DEF Init, OwnedInv, SlotHasOwner

\* OwnedInv is inductive.
LEMMA OwnedStep == ASSUME OwnedInv, [Next]_vars PROVE OwnedInv'
BY TypedStep, OwnedCall, OwnedRest DEF Next, OwnedInv

\* The session's slot never leaks: no sequence of calls, cancellations, failed starts, failed
\* stops, kills and restarts leaves a run in _runs that nothing will take out, with every
\* rare event allowed.
THEOREM SlotNeverLeaks == Spec => []SlotHasOwner
<1>1. OwnedInv => SlotHasOwner BY DEF OwnedInv
<1> QED BY <1>1, OwnedInit, OwnedStep, PTL DEF Spec

\* A run that is over and cannot start any more.
StoppedForGood(c) ==
  /\ ~Live(c) /\ pc[c] \notin {"idle", "lock", "list", "merge"}
  /\ pc[c] = "queued" => c \in stopped

\* What a session_interrupt found had claimed the slot; what it has dealt with is over.
InterruptInv ==
  /\ ilist \subseteq Calls /\ itodo \subseteq ilist /\ told \subseteq Calls
  /\ \A c \in ilist : pc[c] \notin {"idle", "lock", "list", "merge"}
  /\ ~ifailed => \A c \in ilist \ itodo : StoppedForGood(c)
  /\ \A c \in told : StoppedForGood(c)

\* No step of a call brings a stopped run back.
LEMMA InterruptCall ==
  ASSUME SlotInv, OwnedInv, InterruptInv, Tame, NEW c \in Calls,
         \/ Begin(c) \/ Handler(c) \/ ClaimedInVain(c) \/ Cancel(c) \/ ClientGone(c)
         \/ AsyncInVain(c) \/ Timeout(c) \/ Stop(c) \/ Appears(c) \/ ProcEnds(c)
  PROVE  InterruptInv'
<1> USE DEF InterruptInv, StoppedForGood, SlotInv, Typed, Places, Live, Goto, Fresh, QueuedAlone
<1>1. CASE Begin(c) BY <1>1 DEF Begin
<1>2. CASE TakeLock(c) BY <1>2 DEF TakeLock
<1>3. CASE List(c) BY <1>3 DEF List
<1>4. CASE Refused(c) BY <1>4 DEF Refused, Unlock
<1>5. CASE Claimed(c) BY <1>5 DEF Claimed, Unlock, Exec, Running
<1>6. CASE InFlight(c) BY <1>6 DEF InFlight
<1>7. CASE AsyncSpawn(c) BY <1>7 DEF AsyncSpawn, Exec, MayStart
<1>8. CASE AsyncNotStarted(c) BY <1>8 DEF AsyncNotStarted, ForgetRun
<1>9. CASE WaitEnds(c) BY <1>9 DEF WaitEnds, ForgetRun
<1>10. CASE Callback(c) BY <1>10 DEF Callback
<1>11. CASE ClaimedInVain(c) BY <1>11 DEF ClaimedInVain, ForgetRun
<1>12. CASE Cancel(c) BY <1>12 DEF Cancel, Unlock, ForgetRun, Tame
<1>13. CASE ClientGone(c) BY <1>13 DEF ClientGone, StopOfGone
<1>14. CASE AsyncInVain(c) BY <1>14 DEF AsyncInVain
<1>15. CASE Timeout(c) BY <1>15 DEF Timeout
<1>16. CASE StopKill(c) BY <1>16 DEF StopKill, KillTagged, MarkStopped, Tame
<1>17. CASE StopDone(c) BY <1>17 DEF StopDone, StopEnds, ForgetRun, AfterStop
<1>18. CASE StopFails(c) BY <1>18 DEF StopFails, StopEnds, ForgetRun, AfterStop
<1>19. CASE Appears(c) BY <1>19 DEF Appears
<1>20. CASE ProcEnds(c) BY <1>20 DEF ProcEnds
<1> QED BY <1>1, <1>2, <1>3, <1>4, <1>5, <1>6, <1>7, <1>8, <1>9, <1>10, <1>11, <1>12, <1>13,
           <1>14, <1>15, <1>16, <1>17, <1>18, <1>19, <1>20 DEF Handler, Stop

\* An interrupt finds runs that have claimed, and ends or marks each.
LEMMA InterruptRest ==
  ASSUME SlotInv, OwnedInv, InterruptInv, Tame,
         Interrupt \/ Kill \/ ForgetSession \/ Restart \/ UNCHANGED vars
  PROVE  InterruptInv'
<1> USE DEF InterruptInv, StoppedForGood, SlotInv, Typed, Places, Live
<1>1. CASE InterruptBegin BY <1>1 DEF InterruptBegin
<1>2. CASE InterruptList
  <2>1. \A c \in runs \cup Listed : c \in Calls /\ pc[c] \notin {"idle", "lock", "list", "merge"}
    BY DEF OwnedInv, SlotHasOwner, Fresh, Listed
  <2> QED BY <1>2, <2>1 DEF InterruptList, Running
<1>3. CASE InterruptStop
  BY <1>3 DEF InterruptStop, MarkStopped, KillTagged, QueuedAlone, Tame
<1>4. CASE InterruptReport BY <1>4 DEF InterruptReport
<1>5. CASE Kill BY <1>5 DEF Kill
<1>6. CASE ForgetSession BY <1>6 DEF ForgetSession
<1>7. CASE Restart BY <1>7 DEF Restart
<1>8. CASE UNCHANGED vars BY <1>8
<1> QED BY <1>1, <1>2, <1>3, <1>4, <1>5, <1>6, <1>7, <1>8 DEF Interrupt

\* MCP-43: a run that a session_interrupt said it stopped is over and stays so, also one
\* whose docker exec had not started when it was marked.
THEOREM InterruptTellsTheTruth == ASSUME Tame PROVE Spec => []InterruptMeansStopped
<1>1. Init => SlotInv /\ OwnedInv /\ InterruptInv
  BY SlotInit, OwnedInit DEF Init, InterruptInv
<1>2. SlotInv /\ OwnedInv /\ InterruptInv /\ [Next]_vars => (SlotInv /\ OwnedInv /\
  InterruptInv)'
  BY SlotStep, OwnedStep, InterruptCall, InterruptRest DEF Next
<1>3. InterruptInv => InterruptMeansStopped BY DEF InterruptInv, StoppedForGood,
  InterruptMeansStopped
<1> QED BY <1>1, <1>2, <1>3, PTL DEF Spec

\* The rare events under which a caller's run can outlive it are left out; docker may still
\* fail to list the container, or to stop a run that it is starting.
Caught == Faults \subseteq {"nolist", "slowstart"}

\* A session_invoke_async that has not started its docker exec is not being stopped.
QueuedUnstopped ==
  \A c \in Calls : pc[c] = "queued" => proc[c] = "none" /\ stopping[c] = "no"

\* A call whose client left is over, or waits for the docker exec that is being stopped.
LeftStops ==
  /\ left \subseteq Calls \ Async
  /\ \A c \in left : pc[c] \in {"wait", "done"}

\* The inductive invariant of the callers that left.
GoneInv == Typed /\ Fresh /\ QueuedUnstopped /\ StopKilled /\ LeftStops /\ NoRunWithoutCaller

\* A call whose client leaves is ended with no run, or stopped.
LEMMA GoneCall ==
  ASSUME GoneInv, Caught, Typed', NEW c \in Calls,
         \/ Begin(c) \/ Handler(c) \/ ClaimedInVain(c) \/ Cancel(c) \/ ClientGone(c)
         \/ AsyncInVain(c) \/ Timeout(c) \/ Stop(c) \/ Appears(c) \/ ProcEnds(c)
  PROVE  GoneInv'
<1> USE DEF GoneInv, Typed, Places, Live, Goto, Fresh, QueuedUnstopped, StopKilled, LeftStops,
  NoRunWithoutCaller
<1>1. CASE Begin(c) BY <1>1 DEF Begin
<1>2. CASE TakeLock(c) BY <1>2 DEF TakeLock
<1>3. CASE List(c) BY <1>3 DEF List
<1>4. CASE Refused(c) BY <1>4 DEF Refused, Unlock
<1>5. CASE Claimed(c) BY <1>5 DEF Claimed, Unlock, Exec, Running
<1>6. CASE InFlight(c) BY <1>6 DEF InFlight
<1>7. CASE AsyncSpawn(c) BY <1>7 DEF AsyncSpawn, Exec
<1>8. CASE AsyncNotStarted(c) BY <1>8 DEF AsyncNotStarted, ForgetRun
<1>9. CASE WaitEnds(c) BY <1>9 DEF WaitEnds, ForgetRun, Calls
<1>10. CASE Callback(c) BY <1>10 DEF Callback
<1>11. CASE ClaimedInVain(c) BY <1>11 DEF ClaimedInVain, ForgetRun
<1>12. CASE Cancel(c) BY <1>12, CallsAssumption DEF Cancel, Unlock, ForgetRun, Calls, Caught
<1>13. CASE ClientGone(c) BY <1>13, CallsAssumption DEF ClientGone, StopOfGone, Calls, Caught
<1>14. CASE AsyncInVain(c) BY <1>14 DEF AsyncInVain
<1>15. CASE Timeout(c) BY <1>15 DEF Timeout
<1>16. CASE StopKill(c) BY <1>16 DEF StopKill, KillTagged, Caught
<1>17. CASE StopDone(c) BY <1>17 DEF StopDone, StopEnds, ForgetRun, AfterStop
<1>18. CASE StopFails(c) BY <1>18 DEF StopFails, StopEnds, ForgetRun, AfterStop
<1>19. CASE Appears(c) BY <1>19 DEF Appears
<1>20. CASE ProcEnds(c) BY <1>20 DEF ProcEnds
<1> QED BY <1>1, <1>2, <1>3, <1>4, <1>5, <1>6, <1>7, <1>8, <1>9, <1>10, <1>11, <1>12, <1>13,
           <1>14, <1>15, <1>16, <1>17, <1>18, <1>19, <1>20 DEF Handler, Stop

\* No other step takes the stop away from the run.
LEMMA GoneRest ==
  ASSUME GoneInv, Caught, Typed', Interrupt \/ Kill \/ ForgetSession \/ Restart \/ UNCHANGED vars
  PROVE  GoneInv'
<1> USE DEF GoneInv, Typed, Places, Live, Fresh, QueuedUnstopped, StopKilled, LeftStops,
            NoRunWithoutCaller
<1>1. CASE InterruptBegin \/ InterruptList \/ InterruptReport
  BY <1>1 DEF InterruptBegin, InterruptList, InterruptReport
<1>2. CASE InterruptStop BY <1>2 DEF InterruptStop, KillTagged
<1>3. CASE Kill BY <1>3 DEF Kill
<1>4. CASE ForgetSession BY <1>4 DEF ForgetSession
<1>5. CASE Restart BY <1>5 DEF Restart
<1>6. CASE UNCHANGED vars BY <1>6
<1> QED BY <1>1, <1>2, <1>3, <1>4, <1>5, <1>6 DEF Interrupt

\* MCP-43: the run of a session_invoke whose client cancelled or dropped the connection is
\* over, about to be stopped, or one that docker could not stop.
THEOREM CallerGoneRunStopped == ASSUME Caught PROVE Spec => []NoRunWithoutCaller
<1>1. Init => GoneInv
  BY TypedInit DEF Init, GoneInv, Fresh, QueuedUnstopped, StopKilled, LeftStops, NoRunWithoutCaller, Live
<1>2. GoneInv /\ [Next]_vars => GoneInv'
  <2> SUFFICES ASSUME GoneInv, [Next]_vars PROVE GoneInv' OBVIOUS
  <2>1. Typed' BY TypedStep DEF GoneInv
  <2> QED BY <2>1, GoneCall, GoneRest DEF Next
<1>3. GoneInv => NoRunWithoutCaller BY DEF GoneInv
<1> QED BY <1>1, <1>2, <1>3, PTL DEF Spec

-----------------------------------------------------------------------------
(* TypeOK.                                                                 *)

\* What is marked stopped is tracked, and what an interrupt has yet to stop it has found.
Tracks ==
  /\ stopped \subseteq runs /\ host \subseteq Calls
  /\ ipc \in {"idle", "list", "stop"} /\ ilist \subseteq Calls /\ itodo \subseteq ilist
  /\ ifailed \in BOOLEAN
  /\ left \subseteq Sync /\ unstopped \subseteq Calls /\ told \subseteq Calls

\* The lock is made anew once for each kill that the server notices, and so has a number
\* for every event there can be.
LocksNumbered ==
  /\ unnoticed \in BOOLEAN /\ events \in 0..MaxEvents /\ lock \in Nat
  /\ lock <= events /\ (unnoticed => lock < events)
  /\ locks \in [0..MaxEvents -> Calls \cup {None}]
  /\ at \in [Calls -> 0..MaxEvents]

\* The inductive invariant of TypeOK.
HeadlessTypeInv == Typed /\ Tracks /\ LocksNumbered

LEMMA HeadlessTypeInit == Init => HeadlessTypeInv
<1> SUFFICES ASSUME Init PROVE HeadlessTypeInv OBVIOUS
<1>1. Tracks BY DEF Init, Tracks
<1>2. locks \in [0..MaxEvents -> Calls \cup {None}] /\ at \in [Calls -> 0..MaxEvents]
  BY CallsAssumption DEF Init
<1>3. unnoticed \in BOOLEAN /\ ~unnoticed BY Zenon DEF Init
<1>4. lock = 0 /\ events = 0 BY DEF Init
<1>5. LocksNumbered BY <1>2, <1>3, <1>4, CallsAssumption DEF LocksNumbered
<1> QED BY <1>1, <1>5, TypedInit DEF HeadlessTypeInv

\* What a call, its stop and its run do to the tracking.
LEMMA TracksCall ==
  ASSUME Typed, Tracks, NEW c \in Calls,
         \/ Begin(c) \/ Handler(c) \/ ClaimedInVain(c) \/ Cancel(c) \/ ClientGone(c)
         \/ AsyncInVain(c) \/ Timeout(c) \/ Stop(c) \/ Appears(c) \/ ProcEnds(c)
  PROVE  Tracks'
<1> USE DEF Typed, Tracks
<1>1. CASE Begin(c) BY <1>1 DEF Begin
<1>2. CASE TakeLock(c) \/ List(c) \/ Refused(c) \/ InFlight(c) \/ Callback(c)
  BY <1>2 DEF TakeLock, List, Refused, InFlight, Callback
<1>3. CASE Claimed(c) BY <1>3 DEF Claimed, Exec
<1>4. CASE AsyncSpawn(c) \/ AsyncInVain(c) \/ Timeout(c) \/ Appears(c) \/ ProcEnds(c)
  BY <1>4 DEF AsyncSpawn, Exec, AsyncInVain, Timeout, Appears, ProcEnds
<1>5. CASE AsyncNotStarted(c) \/ WaitEnds(c) \/ ClaimedInVain(c)
  BY <1>5 DEF AsyncNotStarted, WaitEnds, ClaimedInVain, ForgetRun
<1>6. CASE Cancel(c) BY <1>6 DEF Cancel, ForgetRun
<1>7. CASE ClientGone(c) BY <1>7 DEF ClientGone
<1>8. CASE StopKill(c) BY <1>8 DEF StopKill, MarkStopped
<1>9. CASE StopDone(c) \/ StopFails(c) BY <1>9 DEF StopDone, StopFails, StopEnds, ForgetRun
<1> QED BY <1>1, <1>2, <1>3, <1>4, <1>5, <1>6, <1>7, <1>8, <1>9 DEF Handler, Stop

\* What the interrupts, kills and restarts do to it.
LEMMA TracksRest ==
  ASSUME Typed, Tracks, Interrupt \/ Kill \/ ForgetSession \/ Restart \/ UNCHANGED vars
  PROVE  Tracks'
<1> USE DEF Typed, Tracks
<1>1. CASE InterruptBegin BY <1>1 DEF InterruptBegin
<1>2. CASE InterruptList BY <1>2 DEF InterruptList, Running, Listed
<1>3. CASE InterruptStop
  <2>1. PICK c \in itodo :
          /\ itodo' = itodo \ {c} /\ MarkStopped(c)
          /\ \/ host' = host \/ host' = host \ {c}
          /\ ifailed' \in BOOLEAN
    BY <1>3 DEF InterruptStop
  <2> QED BY <1>3, <2>1 DEF InterruptStop, MarkStopped
<1>4. CASE InterruptReport BY <1>4 DEF InterruptReport
<1>5. CASE Kill \/ ForgetSession \/ UNCHANGED vars BY <1>5 DEF Kill, ForgetSession
<1>6. CASE Restart BY <1>6 DEF Restart
<1> QED BY <1>1, <1>2, <1>3, <1>4, <1>5, <1>6 DEF Interrupt

\* What a call does to the locks: it takes the one there is, and lets it go.
LEMMA LocksCall ==
  ASSUME Typed, LocksNumbered, NEW c \in Calls,
         \/ Begin(c) \/ Handler(c) \/ ClaimedInVain(c) \/ Cancel(c) \/ ClientGone(c)
         \/ AsyncInVain(c) \/ Timeout(c) \/ Stop(c) \/ Appears(c) \/ ProcEnds(c)
  PROVE  LocksNumbered'
<1>1. lock \in 0..MaxEvents /\ 0 \in 0..MaxEvents BY CallsAssumption DEF LocksNumbered
<1>2. UNCHANGED <<lock, unnoticed, events>>
  BY DEF Begin, Handler, TakeLock, List, Refused, Claimed, InFlight, AsyncSpawn, AsyncNotStarted,
         WaitEnds, Callback, ClaimedInVain, Cancel, ClientGone, AsyncInVain, Timeout, Stop,
         StopKill, StopDone, StopFails, Appears, ProcEnds
<1>3. \/ locks' = locks \/ locks' = [locks EXCEPT ![lock] = c]
      \/ locks' = [locks EXCEPT ![at[c]] = c] \/ locks' = [locks EXCEPT ![at[c]] = None]
  BY DEF Begin, Handler, TakeLock, List, Refused, Claimed, InFlight, AsyncSpawn, AsyncNotStarted,
         WaitEnds, Callback, ClaimedInVain, Cancel, ClientGone, AsyncInVain, Timeout, Stop,
         StopKill, StopDone, StopFails, Appears, ProcEnds, Unlock
<1>4. at' = at \/ at' = [at EXCEPT ![c] = lock] \/ at' = [at EXCEPT ![c] = 0]
  BY DEF Begin, Handler, TakeLock, List, Refused, Claimed, InFlight, AsyncSpawn, AsyncNotStarted,
         WaitEnds, Callback, ClaimedInVain, Cancel, ClientGone, AsyncInVain, Timeout, Stop,
         StopKill, StopDone, StopFails, Appears, ProcEnds, Unlock
<1>5. locks' \in [0..MaxEvents -> Calls \cup {None}] BY <1>3 DEF LocksNumbered
<1>6. at' \in [Calls -> 0..MaxEvents] BY <1>1, <1>4 DEF LocksNumbered
<1> QED BY <1>2, <1>5, <1>6 DEF LocksNumbered

\* A kill counts an event, and the lock it may replace is replaced once.
LEMMA LocksRest ==
  ASSUME LocksNumbered, Interrupt \/ Kill \/ ForgetSession \/ Restart \/ UNCHANGED vars
  PROVE  LocksNumbered'
<1> USE CallsAssumption DEF LocksNumbered
<1>1. CASE Interrupt
  BY <1>1 DEF Interrupt, InterruptBegin, InterruptList, InterruptStop, InterruptReport, Event
<1>2. CASE Kill BY <1>2 DEF Kill, Event
<1>3. CASE ForgetSession
  <2>1. unnoticed' \in BOOLEAN /\ ~unnoticed' /\ unnoticed BY <1>3, Zenon DEF ForgetSession
  <2>2. lock' \in {lock, lock + 1} /\ UNCHANGED <<locks, at, events>> BY <1>3 DEF ForgetSession
  <2> QED BY <2>1, <2>2
<1>4. CASE Restart
  <2>1. locks' \in [0..MaxEvents -> Calls \cup {None}] /\ at' \in [Calls -> 0..MaxEvents]
    BY <1>4 DEF Restart
  <2> QED BY <1>4, <2>1 DEF Restart, Event
<1>5. CASE UNCHANGED vars BY <1>5
<1> QED BY <1>1, <1>2, <1>3, <1>4, <1>5

\* Every variable has its type whatever goes wrong; among them, that a stopped run is one the
\* server tracks, and that there is a lock object for every kill it notices.
THEOREM HeadlessTypes == Spec => []TypeOK
<1>1. ASSUME HeadlessTypeInv, [Next]_vars PROVE HeadlessTypeInv'
  BY <1>1, TypedStep, TracksCall, TracksRest, LocksCall, LocksRest DEF HeadlessTypeInv, Next
<1>2. ASSUME HeadlessTypeInv PROVE TypeOK
  <2>1. lock \in 0..MaxEvents BY <1>2, CallsAssumption DEF HeadlessTypeInv, LocksNumbered
  <2> QED BY <1>2, <2>1 DEF HeadlessTypeInv, Typed, Places, Tracks, LocksNumbered, TypeOK
<1> QED BY <1>1, <1>2, HeadlessTypeInit, PTL DEF Spec
=============================================================================
