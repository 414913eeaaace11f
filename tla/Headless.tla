------------------------------ MODULE Headless ------------------------------
(***************************************************************************)
(* Headless runs of a session (mcp/src/aidc_mcp/headless.py and tools.py): *)
(* session_invoke, which blocks, and session_invoke_async, which calls     *)
(* back; the claim of the session's one slot, the stop of a run whose      *)
(* caller has gone, session_interrupt with target "headless", and what a   *)
(* restart of the server or a kill of the session does to them.            *)
(*                                                                         *)
(* One session. A call makes at most one run, which is named after it. An  *)
(* action is the code between two awaits of one task.                      *)
(***************************************************************************)
EXTENDS Integers, FiniteSets

CONSTANTS
  Sync, Async,    \* calls of session_invoke, of session_invoke_async
  None,           \* no call
  MaxEvents,      \* bound: kills of the session, restarts of the server and calls of
                  \* session_interrupt together
  Faults          \* which rare events the run lets happen, see FaultKinds

\* "nolist"     docker does not list the container's processes
\* "lateexec"   a stop looks for a run's processes before docker has started them
\* "slowstart"  a stop fails, or the server restarts, while docker is starting a run or
\*              a listing that has not seen it is on its way
\* "earlygone"  the client drops the connection before its run is in flight
\* "earlycancel" the client cancels the call while the docker exec is being started
FaultKinds == {"nolist", "lateexec", "slowstart", "earlygone", "earlycancel"}

Calls == Sync \cup Async

ASSUME CallsAssumption ==
  /\ Sync \cap Async = {} /\ None \notin Calls
  /\ MaxEvents \in Nat /\ Faults \subseteq FaultKinds

VARIABLES
  pc,        \* where a call is
  locks,     \* the holder of each invoke lock object there has been
  lock,      \* the one in _invoke_locks
  at,        \* the one a call took or waits for
  found,     \* what the listing of a claim found
  runs,      \* headless._runs
  stopped,   \* runs marked stopped
  stopping,  \* _stop_headless of a run: "no", "kill", "after"
  host,      \* runs whose docker exec on the host is alive
  proc,      \* a run in the container: "none", "starting", "running", "ended"
  ipc,       \* session_interrupt: "idle", "list", "stop"
  ilist,     \* the runs it found
  itodo,     \* those it has yet to stop
  ifailed,   \* a stop failed
  left,      \* history: calls whose client cancelled or is gone, or that failed
  unstopped, \* history: runs whose stop docker could not carry out
  told,      \* history: runs an interrupt said it stopped
  unnoticed, \* the session was killed and the server has not noticed yet
  events

claims     == <<pc, locks, lock, at, found>>
tracked    == <<runs, stopped, stopping>>
processes  == <<host, proc>>
interrupt  == <<ipc, ilist, itodo, ifailed>>
history    == <<left, unstopped, told>>
bounds     == <<unnoticed, events>>
vars == <<claims, tracked, processes, interrupt, history, bounds>>

Event == events < MaxEvents /\ events' = events + 1

Live(c) == proc[c] \in {"starting", "running"}
Goto(c, l) == pc' = [pc EXCEPT ![c] = l]

\* What a listing of the container shows: a run once its claude is there.
Listed == {c \in Calls : proc[c] = "running"}

-----------------------------------------------------------------------------
(* The claim of the slot (_claim_headless).                                *)

\* A call takes a free lock at once, or waits for its turn.
Begin(c) ==
  /\ pc[c] = "idle"
  /\ at' = [at EXCEPT ![c] = lock]
  /\ IF locks[lock] = None /\ \A d \in Calls : pc[d] = "lock" => at[d] # lock
     THEN Goto(c, "list") /\ locks' = [locks EXCEPT ![lock] = c]
     ELSE Goto(c, "lock") /\ UNCHANGED locks
  /\ UNCHANGED <<lock, found, tracked, processes, interrupt, history, bounds>>

TakeLock(c) ==
  /\ pc[c] = "lock" /\ locks[at[c]] = None
  /\ locks' = [locks EXCEPT ![at[c]] = c] /\ Goto(c, "list")
  /\ UNCHANGED <<lock, at, found, tracked, processes, interrupt, history, bounds>>

\* container_runs, as docker saw the container. No answer counts as none found.
List(c) ==
  /\ pc[c] = "list" /\ Goto(c, "merge")
  /\ \/ found' = [found EXCEPT ![c] = Listed]
     \/ "nolist" \in Faults /\ found' = [found EXCEPT ![c] = {}]
  /\ UNCHANGED <<locks, lock, at, tracked, processes, interrupt, history, bounds>>

\* A slip: only the runs this server started count.
MineOnly(seen) == runs

\* merge: the runs the listing found and those this server is waiting on.
Running(seen) == seen \cup runs

Unlock(c) ==
  /\ locks' = [locks EXCEPT ![at[c]] = None]
  /\ at' = [at EXCEPT ![c] = 0] /\ found' = [found EXCEPT ![c] = {}]

Refused(c) ==
  /\ pc[c] = "merge" /\ Running(found[c]) # {}
  /\ Unlock(c) /\ Goto(c, "done")
  /\ UNCHANGED <<lock, tracked, processes, interrupt, history, bounds>>

\* A docker exec starts a run.
Exec(c) == host' = host \cup {c} /\ proc' = [proc EXCEPT ![c] = "starting"]

\* new_run. A session_invoke starts its docker exec in the same step; a
\* session_invoke_async returns and leaves that to a task.
Claimed(c) ==
  /\ pc[c] = "merge" /\ Running(found[c]) = {}
  /\ Unlock(c) /\ runs' = runs \cup {c}
  /\ IF c \in Sync THEN Goto(c, "spawn") /\ Exec(c)
                   ELSE Goto(c, "queued") /\ UNCHANGED processes
  /\ UNCHANGED <<lock, stopped, stopping, interrupt, history, bounds>>

\* A slip: a run that is over keeps its slot.
KeepRun(c) == UNCHANGED <<runs, stopped>>

\* A slip: the mark of a stop outlives the run.
KeepMark(c) == runs' = runs \ {c} /\ UNCHANGED stopped

\* headless.forget.
ForgetRun(c) == runs' = runs \ {c} /\ stopped' = stopped \ {c}

\* A session_invoke whose docker exec could not be started.
ClaimedInVain(c) ==
  /\ pc[c] = "spawn" /\ proc[c] = "starting" /\ Goto(c, "done")
  /\ proc' = [proc EXCEPT ![c] = "none"] /\ host' = host \ {c}
  /\ ForgetRun(c)
  /\ UNCHANGED <<locks, lock, at, found, stopping, interrupt, history, bounds>>

\* The call is in flight: from here a stop for its client finds it.
InFlight(c) ==
  /\ pc[c] = "spawn" /\ Goto(c, "wait")
  /\ UNCHANGED <<locks, lock, at, found, tracked, processes, interrupt, history, bounds>>

\* _exec: a run stopped before it started never starts.
MayStart(c) == c \notin stopped

AsyncSpawn(c) ==
  /\ pc[c] = "queued" /\ MayStart(c)
  /\ Goto(c, "wait") /\ Exec(c)
  /\ UNCHANGED <<locks, lock, at, found, tracked, interrupt, history, bounds>>

AsyncNotStarted(c) ==
  /\ pc[c] = "queued" /\ ~MayStart(c)
  /\ Goto(c, "post") /\ ForgetRun(c)
  /\ UNCHANGED <<locks, lock, at, found, stopping, processes, interrupt, history, bounds>>

\* Its docker exec could not be started: the task stops what there may be of the run.
AsyncInVain(c) ==
  /\ pc[c] = "queued" /\ MayStart(c)
  /\ Goto(c, "stop") /\ stopping' = [stopping EXCEPT ![c] = "kill"]
  /\ UNCHANGED <<locks, lock, at, found, runs, stopped, processes, interrupt, history, bounds>>

-----------------------------------------------------------------------------
(* The end of a run.                                                       *)

\* The docker exec ends with the run, or because it was killed.
WaitEnds(c) ==
  /\ pc[c] = "wait" /\ (proc[c] = "ended" \/ c \notin host)
  /\ host' = host \ {c} /\ ForgetRun(c)
  /\ Goto(c, IF c \in Sync THEN "done" ELSE "post")
  /\ UNCHANGED <<locks, lock, at, found, stopping, proc, interrupt, history, bounds>>

\* The one POST of a session_invoke_async's result.
Callback(c) ==
  /\ pc[c] = "post" /\ Goto(c, "done")
  /\ UNCHANGED <<locks, lock, at, found, tracked, processes, interrupt, history, bounds>>

\* The client cancels a session_invoke, or the call cannot read its answer: its run is
\* stopped by a task of its own.
Cancel(c) ==
  /\ c \in Sync \ left /\ left' = left \cup {c} /\ Goto(c, "done")
  /\ \/ /\ pc[c] = "lock"
        /\ at' = [at EXCEPT ![c] = 0] /\ UNCHANGED <<locks, found, tracked, processes>>
     \/ /\ pc[c] \in {"list", "merge"}
        /\ Unlock(c) /\ UNCHANGED <<tracked, processes>>
     \/ /\ "earlycancel" \in Faults /\ pc[c] = "spawn"
        /\ ForgetRun(c) /\ host' = host \ {c}
        /\ UNCHANGED <<locks, at, found, stopping, proc>>
     \/ /\ pc[c] = "wait"
        /\ stopping' = [stopping EXCEPT ![c] = "kill"]
        /\ UNCHANGED <<locks, at, found, runs, stopped, processes>>
  /\ UNCHANGED <<lock, interrupt, unstopped, told, bounds>>

\* A slip: the call is left to end with its docker exec.
StopNothing(c) == UNCHANGED stopping

\* stop_invoke_of_gone_client.
StopOfGone(c) == stopping' = [stopping EXCEPT ![c] = "kill"]

\* The client drops the connection. The call itself goes on.
ClientGone(c) ==
  /\ c \in Sync \ left /\ left' = left \cup {c}
  /\ \/ pc[c] \in {"lock", "list", "merge", "spawn"} /\ "earlygone" \in Faults
        /\ UNCHANGED stopping
     \/ pc[c] = "wait" /\ StopOfGone(c)
  /\ UNCHANGED <<claims, runs, stopped, processes, interrupt, unstopped, told, bounds>>

\* session_invoke_async's limit; the docker exec goes on.
Timeout(c) ==
  /\ c \in Async /\ pc[c] = "wait" /\ proc[c] # "ended"
  /\ Goto(c, "stop") /\ stopping' = [stopping EXCEPT ![c] = "kill"]
  /\ UNCHANGED <<locks, lock, at, found, runs, stopped, processes, interrupt, history, bounds>>

\* A slip: a run this server waits on is left to its own call.
MarkNothing(c) == UNCHANGED stopped

\* headless.stop marks a run this server tracks, so that it never starts.
MarkStopped(c) == stopped' = IF c \in runs THEN stopped \cup {c} ELSE stopped

\* headless.stop in the container: every process that carries the run's tag.
KillTagged(c) ==
  \/ proc' = [proc EXCEPT ![c] = IF Live(c) THEN "ended" ELSE @]
  \/ "lateexec" \in Faults /\ proc[c] = "starting" /\ UNCHANGED proc

StopKill(c) ==
  /\ stopping[c] = "kill" /\ stopping' = [stopping EXCEPT ![c] = "after"]
  /\ MarkStopped(c) /\ KillTagged(c)
  /\ UNCHANGED <<claims, runs, host, interrupt, history, bounds>>

\* A slip: the stop of a session_invoke_async is where its task ends.
StaysStopped(c) == pc[c]

\* A session_invoke_async goes on to its callback, another call knows nothing of the stop.
AfterStop(c) == IF pc[c] = "stop" THEN "post" ELSE pc[c]

\* The end of _stop_headless, also of one that failed.
StopEnds(c) ==
  /\ host' = host \ {c} /\ ForgetRun(c)
  /\ stopping' = [stopping EXCEPT ![c] = "no"]
  /\ Goto(c, AfterStop(c))

StopDone(c) ==
  /\ stopping[c] = "after" /\ StopEnds(c)
  /\ UNCHANGED <<locks, lock, at, found, proc, interrupt, history, bounds>>

\* docker cannot carry out the stop: the run goes on as an orphan.
StopFails(c) ==
  /\ stopping[c] = "kill" /\ StopEnds(c)
  /\ "slowstart" \in Faults \/ ( /\ proc[c] # "starting"
                                 /\ \A d \in Calls : pc[d] = "merge" => c \in found[d])
  /\ unstopped' = unstopped \cup {c}
  /\ UNCHANGED <<locks, lock, at, found, proc, interrupt, left, told, bounds>>

-----------------------------------------------------------------------------
(* session_interrupt with target "headless".                               *)

InterruptBegin ==
  /\ ipc = "idle" /\ ipc' = "list" /\ Event
  /\ UNCHANGED <<claims, tracked, processes, ilist, itodo, ifailed, history, unnoticed>>

InterruptList ==
  /\ ipc = "list"
  /\ \/ ilist' = Running(Listed)
     \/ "nolist" \in Faults /\ ilist' = runs
  /\ itodo' = ilist' /\ ifailed' = FALSE
  /\ ipc' = IF ilist' = {} THEN "idle" ELSE "stop"
  /\ UNCHANGED <<claims, tracked, processes, history, bounds>>

\* One run, and, when a session_invoke waits on it, its docker exec.
InterruptStop ==
  /\ ipc = "stop"
  /\ \E c \in itodo :
       /\ itodo' = itodo \ {c} /\ MarkStopped(c)
       /\ \/ /\ KillTagged(c) /\ UNCHANGED ifailed
             /\ host' = IF c \in runs \cap Sync /\ pc[c] = "wait" /\ c \notin left
                        THEN host \ {c} ELSE host
          \/ ifailed' = TRUE /\ UNCHANGED processes
  /\ UNCHANGED <<claims, runs, stopping, ipc, ilist, history, bounds>>

InterruptReport ==
  /\ ipc = "stop" /\ itodo = {}
  /\ told' = IF ifailed THEN told ELSE told \cup ilist
  /\ ipc' = "idle" /\ ilist' = {} /\ ifailed' = FALSE
  /\ UNCHANGED <<claims, tracked, processes, itodo, left, unstopped, bounds>>

-----------------------------------------------------------------------------
(* The container, the session and the server.                              *)

Appears(c) ==
  /\ proc[c] = "starting" /\ proc' = [proc EXCEPT ![c] = "running"]
  /\ UNCHANGED <<claims, tracked, host, interrupt, history, bounds>>

\* The run ends, or docker could not start it.
ProcEnds(c) ==
  /\ Live(c) /\ proc' = [proc EXCEPT ![c] = "ended"]
  /\ UNCHANGED <<claims, tracked, host, interrupt, history, bounds>>

\* aidc kill, or a create again: the container goes and everything in it.
Kill ==
  /\ Event /\ unnoticed' = TRUE
  /\ proc' = [c \in Calls |-> IF Live(c) THEN "ended" ELSE proc[c]]
  /\ UNCHANGED <<claims, tracked, host, interrupt, history>>

\* The lock may be deleted when nobody holds it, even if a call is about to take it.
Unheld == locks[lock] = None

\* _forget_session_send_state, once the server notices.
ForgetSession ==
  /\ unnoticed /\ unnoticed' = FALSE
  /\ lock' = IF Unheld THEN lock + 1 ELSE lock
  /\ UNCHANGED <<pc, locks, at, found, tracked, processes, interrupt, history, events>>

\* The calls and the tracking are gone; the processes in the container are not.
Restart ==
  /\ Event
  /\ "slowstart" \in Faults \/ \A c \in Calls : proc[c] # "starting"
  /\ pc' = [c \in Calls |-> IF pc[c] = "idle" THEN "idle" ELSE "done"]
  /\ locks' = [l \in DOMAIN locks |-> None] /\ lock' = 0 /\ at' = [c \in Calls |-> 0]
  /\ found' = [c \in Calls |-> {}]
  /\ runs' = {} /\ stopped' = {} /\ stopping' = [c \in Calls |-> "no"] /\ host' = {}
  /\ ipc' = "idle" /\ ilist' = {} /\ itodo' = {} /\ ifailed' = FALSE
  /\ unstopped' = unstopped \cup {c \in Calls : Live(c)}
  /\ UNCHANGED <<proc, left, told, unnoticed>>

-----------------------------------------------------------------------------
Init ==
  /\ pc = [c \in Calls |-> "idle"]
  /\ locks = [l \in 0..MaxEvents |-> None] /\ lock = 0 /\ at = [c \in Calls |-> 0]
  /\ found = [c \in Calls |-> {}]
  /\ runs = {} /\ stopped = {} /\ stopping = [c \in Calls |-> "no"]
  /\ host = {} /\ proc = [c \in Calls |-> "none"]
  /\ ipc = "idle" /\ ilist = {} /\ itodo = {} /\ ifailed = FALSE
  /\ left = {} /\ unstopped = {} /\ told = {}
  /\ unnoticed = FALSE /\ events = 0

Handler(c) ==
  \/ TakeLock(c) \/ List(c) \/ Refused(c) \/ Claimed(c) \/ InFlight(c)
  \/ AsyncSpawn(c) \/ AsyncNotStarted(c) \/ WaitEnds(c) \/ Callback(c)

Stop(c) == StopKill(c) \/ StopDone(c) \/ StopFails(c)

Interrupt == InterruptBegin \/ InterruptList \/ InterruptStop \/ InterruptReport

Next ==
  \/ \E c \in Calls :
       \/ Begin(c) \/ Handler(c) \/ ClaimedInVain(c) \/ Cancel(c) \/ ClientGone(c)
       \/ AsyncInVain(c) \/ Timeout(c) \/ Stop(c) \/ Appears(c) \/ ProcEnds(c)
  \/ Interrupt \/ Kill \/ ForgetSession \/ Restart

Spec == Init /\ [][Next]_vars

\* The event loop runs what can run, docker answers a stop in the end, and a
\* session_invoke_async's limit runs out. Nothing makes a run end by itself.
Fairness ==
  \A c \in Calls : WF_vars(Handler(c)) /\ WF_vars(Timeout(c)) /\ WF_vars(Stop(c))

LiveSpec == Spec /\ Fairness

-----------------------------------------------------------------------------
(* Properties                                                              *)

TypeOK ==
  /\ pc \in [Calls -> {"idle", "lock", "list", "merge", "spawn", "queued", "wait", "stop",
                       "post", "done"}]
  /\ lock \in 0..MaxEvents /\ locks \in [0..MaxEvents -> Calls \cup {None}]
  /\ at \in [Calls -> 0..MaxEvents] /\ found \in [Calls -> SUBSET Calls]
  /\ runs \subseteq Calls /\ stopped \subseteq runs /\ host \subseteq Calls
  /\ stopping \in [Calls -> {"no", "kill", "after"}]
  /\ proc \in [Calls -> {"none", "starting", "running", "ended"}]
  /\ ipc \in {"idle", "list", "stop"} /\ ilist \subseteq Calls /\ itodo \subseteq ilist
  /\ ifailed \in BOOLEAN
  /\ left \subseteq Sync /\ unstopped \subseteq Calls /\ told \subseteq Calls
  /\ unnoticed \in BOOLEAN /\ events \in 0..MaxEvents

\* MCP-42: "At most one MUST run per session at a time", counting one left in the
\* container by an earlier server.
OneRun == \A c, d \in Calls : Live(c) /\ Live(d) => c = d

\* headless._runs holds the slot: a run in it always has a call or a stop that will
\* take it out, or every later claim is refused.
SlotHasOwner ==
  \A c \in runs : pc[c] \in {"spawn", "queued", "wait", "stop"} \/ stopping[c] # "no"

\* MCP-43: the run of a session_invoke whose caller cancelled or dropped the connection
\* is stopped in the container, unless docker cannot.
NoRunWithoutCaller ==
  \A c \in left : Live(c) => stopping[c] = "kill" \/ c \in unstopped

\* MCP-43: a session_interrupt that says it stopped a run has stopped it.
InterruptMeansStopped == \A c \in told : ~Live(c)

\* A session_invoke_async calls back in the end, whatever its run does, as long as the
\* server stays up.
EveryCallAnswered ==
  \A c \in Async : pc[c] = "queued" ~> pc[c] = "done"
=============================================================================
