------------------------------ MODULE SendQueue ------------------------------
(***************************************************************************)
(* The send path of aidc-mcp for one session (mcp/src/aidc_mcp/tools.py):  *)
(* session_send, the per-session FIFO of prompts that wait, the drainer    *)
(* task that pastes them, session_queue_cancel, and the queue file that    *)
(* lets accepted prompts survive a restart of the server.                  *)
(*                                                                         *)
(* The server is one asyncio event loop, so an action here is the code     *)
(* between two awaits. The actors are one session_send call per prompt     *)
(* (the prompt names its call), the drainer, session_queue_cancel and the  *)
(* startup resume; they share the session's send lock. Around them the     *)
(* session itself moves: Claude's turns, the person at the keyboard, kill, *)
(* create, taint, and a crash of the server.                               *)
(***************************************************************************)
EXTENDS Integers, FiniteSets

CONSTANTS
  Prompts,     \* the prompts sent, each by a session_send call of its own
  Person,      \* stands for text in the input box that is no prompt as sent:
               \* typed by a person, or a paste on top of other text
  Depth,       \* _PENDING_MAX_DEPTH
  MaxInst,     \* bound: how often the session is created
  MaxCrashes,  \* bound: how often the server restarts
  MaxMoves,    \* bound: disturbances by Claude, the person and transient errors
  Faults       \* which rare events the run lets happen, see FaultKinds

\* "unknown"    docker does not answer an inspect, or the taint reading
\* "stale"      the session is created again between an inspect's answer and
\*              the use of it
\* "enter"      Enter does not arrive after the paste: the docker exec fails, or
\*              the session is killed first
\* "meddle"     the person presses Enter on a prompt the server pasted
\* "crashpaste" the server stops after the paste and before Enter
\* "crashsent"  the server stops after Enter and before the queue is saved
\* "cancelcall" the client cancels a session_send that is running
\* "cancelpaste" it cancels one that waits for the paste or for Enter
\* "failpaste"  an error strikes the drainer between its paste and its save
\* "canceltake" the client cancels a session_queue_cancel that is running
\* "nosave"     the queue file cannot be written
FaultKinds ==
  {"unknown", "stale", "enter", "meddle", "crashpaste", "crashsent", "cancelcall",
   "cancelpaste", "failpaste", "canceltake", "nosave"}

Workers == {"drainer", "canceller", "resumer"}
Actors  == Prompts \cup Workers
Free    == "free"

ASSUME PromptsAssumption ==
  /\ IsFiniteSet(Prompts)
  /\ Prompts \cap (Workers \cup {Free}) = {}
  /\ Person \notin Prompts
ASSUME BoundsAssumption ==
  /\ Depth \in Nat \ {0} /\ MaxInst \in Nat /\ MaxCrashes \in Nat
  /\ MaxMoves \in Nat /\ Faults \subseteq FaultKinds

VARIABLES
  \* memory of the server, lost in a crash
  pc,       \* where each actor is
  lock,     \* _session_send_locks[name]: Free or its holder
  queue,    \* _pending_sends[name]: the prompts in it, in order of ticket
  unsub,    \* _unsubmitted_paste[name]: the batch left in the box, {} for none
  loaded,   \* name \in _queue_loaded
  batch,    \* what an actor is pasting, or taking back
  seen,     \* the answer of an actor's last _session_instance
  \* files of the server
  file,     \* the prompts of <session>.send-queue.json
  fileBox,  \* those of them saved with in_box
  pasted,   \* the ids of record_pasted_ids
  dead,     \* why a prompt is in the send dead-letter dir, "none" if it is not
  ticket,   \* a queued prompt's place in the order of arrival, 0 before
  owner,    \* QueuedPrompt.session_instance, 0 for ""
  \* the session
  inst,     \* the instance of the session that exists, 0 for none
  made,     \* instances created so far
  turn,     \* Claude: "idle" at its prompt, "running" a turn, "away" from it
  box,      \* what the input box holds
  tainted,  \* the policy sidecar's flag
  \* history, read only by the properties and the bounds
  home,     \* the instance that existed when the prompt entered the queue
  given,    \* how often the prompt was submitted to Claude
  into,     \* the instance it was submitted to, 0 before
  held,     \* the prompts that came too late for a tainted session, see Hold
  crashes, moves

server  == <<pc, lock, queue, unsub, loaded, batch, seen>>
disk    == <<file, fileBox, pasted, dead, ticket, owner>>
session == <<inst, made, turn, box, tainted>>
history == <<home, given, into, held, crashes, moves>>
vars    == <<server, disk, session, history>>

Unknown == -1
Gone    == 0

-----------------------------------------------------------------------------
(* What the code reads.                                                    *)

\* _batch_in_box: the unsubmitted batch u, while it still opens the queue q.
InBox(q, u) ==
  IF u # {} /\ u \subseteq q /\ \A x \in u, y \in q \ u : ticket[x] < ticket[y]
  THEN u ELSE {}

\* _own_unsent_text: the box shows that batch and nothing else.
OwnText == InBox(queue, unsub) # {} /\ box = unsub

\* The accepted prompts that wait: until the server has read the file, there.
Waiting == IF loaded THEN queue ELSE file

\* _check_free: Claude is at its input box, no turn runs, and nothing is typed
\* there but what the server itself left.
IsFree == inst # Gone /\ turn = "idle" /\ (box = {} \/ OwnText)

\* _join_refusal and the taint check of _join_running_turn.
MayJoin == inst # Gone /\ turn = "running" /\ box = {} /\ ~tainted

\* A slip: everything that waits, on top of what the box holds already.
NextBatchAll(q, u) == q

\* _next_batch: alone the batch that is in the box already, or all that wait.
NextBatch(q, u) == IF InBox(q, u) # {} THEN InBox(q, u) ELSE q

\* _session_instance: what docker answers now.
Answers == {inst} \cup (IF "unknown" \in Faults THEN {Unknown} ELSE {})

\* A slip: a session created again under the name keeps the old queue.
RemovedWhenGone(answer) == IF answer = Gone THEN queue ELSE {}

\* _drop_prompts_of_removed_session: the prompts an answer removes. A prompt
\* accepted while docker did not answer has no owner and is never removed.
Removed(answer) ==
  IF answer = Unknown THEN {}
  ELSE IF answer = Gone THEN queue
  ELSE {p \in queue : owner[p] # 0 /\ owner[p] # answer}

-----------------------------------------------------------------------------
(* Steps shared by the handlers.                                           *)

\* A slip: the in_box marks are only ever added.
SaveQueueKeepsMarks == file' = queue' /\ fileBox' = fileBox \cup InBox(queue, unsub)'

\* _persist_queue: the queue as the step leaves it, and which of it is the
\* batch in the box. A write that fails is logged and nothing more.
SaveQueue ==
  \/ file' = queue' /\ fileBox' = InBox(queue, unsub)'
  \/ "nosave" \in Faults /\ UNCHANGED <<file, fileBox>>

At(a, l)     == pc[a] = l
GoTo(a, l)   == pc' = [pc EXCEPT ![a] = l]
Release(a)   == lock' = IF lock = a THEN Free ELSE lock

\* _spawn_drainer, by an actor that itself goes to l.
Spawning(a, l) ==
  pc' = [pc EXCEPT ![a] = l, !["drainer"] = IF @ = "off" THEN "loop" ELSE @]

DeadLetter(S, why) == dead' = [p \in Prompts |-> IF p \in S THEN why ELSE dead[p]]

\* An actor that has asked docker and not yet used the answer, or is between
\* its last free check and Enter.
Somewhere(places) == \E a \in Actors : pc[a] \in places
Pasting    == Somewhere({"drop2", "taint", "paste", "enter"})
Inspecting == Pasting \/ Somewhere({"drop", "append"})
BoxPasted  == Somewhere({"enter"})

\* The person does not type in the moments in which the server pastes: "the
\* narrow window this accepts" (_own_unsent_text).
HandsOff   == ~Pasting

\* Prompts whose paste was not confirmed and whose call has still to queue them.
Unqueued   == {p \in Prompts : pc[p] \in {"queue", "append"}}

Submitted  == pc["drainer"] \in {"sent", "save"}

\* In a tainted session S waits behind the taint from now on.
Hold(S) == held' = IF tainted THEN held \cup S ELSE held

Disturb == moves < MaxMoves /\ moves' = moves + 1

-----------------------------------------------------------------------------
(* session_send                                                            *)

\* A slip: the tool is not among those that look at the taint.
SendStartUnguarded(p) ==
  /\ At(p, "idle")
  /\ IF inst = Gone
     THEN GoTo(p, "refused") /\ unsub' = {}
     ELSE GoTo(p, "seek") /\ UNCHANGED unsub
  /\ UNCHANGED <<lock, queue, loaded, batch, seen, disk, session, history>>

\* A tainted session refuses the call (_untainted), and so does one that does
\* not exist, whose send state is then forgotten.
SendStart(p) ==
  /\ At(p, "idle")
  /\ \/ tainted /\ GoTo(p, "refused") /\ UNCHANGED unsub
     \/ /\ ~tainted \/ "unknown" \in Faults
        /\ \E answer \in Answers :
             IF answer = Gone
             THEN GoTo(p, "refused") /\ unsub' = {}
             ELSE GoTo(p, "seek") /\ UNCHANGED unsub
  /\ UNCHANGED <<lock, queue, loaded, batch, seen, disk, session, history>>

\* async with lock, for a session_send, a cancel or the startup resume.
NextAfterLoad(a) ==
  IF a \in Prompts THEN "decide" ELSE IF a = "canceller" THEN "take" ELSE "unlock"

Acquire(a) ==
  /\ At(a, "seek") /\ lock = Free
  /\ lock' = a
  /\ GoTo(a, IF loaded THEN NextAfterLoad(a) ELSE "load")
  /\ UNCHANGED <<queue, unsub, loaded, batch, seen, disk, session, history>>

\* _load_persisted_queue: the saved prompts go ahead of the queue, with the
\* batch they left in the box; those of a removed session are abandoned.
LoadQueue(a) ==
  /\ At(a, "load")
  /\ loaded' = TRUE
  /\ \E answer \in Answers :
       \/ /\ file = {}
          /\ GoTo(a, NextAfterLoad(a))
          /\ UNCHANGED <<queue, unsub, file, fileBox, dead>>
       \/ /\ file # {} /\ answer = Gone
          /\ DeadLetter(file, "killed") /\ unsub' = {}
          /\ UNCHANGED <<queue, ticket>> /\ SaveQueue
          /\ GoTo(a, NextAfterLoad(a))
       \/ /\ file # {} /\ answer # Gone
          /\ queue' = file \cup queue
          /\ unsub' = IF unsub = {} THEN fileBox ELSE unsub
          /\ UNCHANGED <<ticket, dead>>
          /\ SaveQueue
          /\ Spawning(a, NextAfterLoad(a))
  /\ UNCHANGED <<lock, batch, seen, pasted, ticket, owner, session, history>>

\* A slip: a free session is pasted into whether or not prompts wait.
SendDecideOvertakes(p) ==
  /\ At(p, "decide")
  /\ IF IsFree THEN GoTo(p, "paste") ELSE GoTo(p, "queue")
  /\ batch' = [batch EXCEPT ![p] = {p}]
  /\ UNCHANGED <<lock, queue, unsub, loaded, seen, disk, session, history>>

\* A prompt never overtakes one that waits. With nothing waiting it is pasted
\* into a free session, or joins the running turn; else it is queued.
SendDecide(p) ==
  /\ At(p, "decide")
  /\ IF queue = {} /\ (IsFree \/ MayJoin)
     THEN /\ batch' = [batch EXCEPT ![p] = {p}]
          /\ GoTo(p, "paste") \/ (~IsFree /\ GoTo(p, "queue"))
     ELSE GoTo(p, "queue") /\ UNCHANGED batch
  /\ UNCHANGED <<lock, queue, unsub, loaded, seen, disk, session, history>>

\* _enqueue_send reads the instance first ...
SendInspect(p) ==
  /\ At(p, "queue")
  /\ \E answer \in Answers : seen' = [seen EXCEPT ![p] = answer]
  /\ GoTo(p, "append")
  /\ UNCHANGED <<lock, queue, unsub, loaded, batch, disk, session, history>>

\* The prompts that ever entered the queue.
Arrived == {p \in Prompts : ticket[p] > 0}

\* ... and then appends and saves without an await between, unless the queue
\* is full. It starts the drainer and returns "queued"; with a person's text in the
\* box _set_waiting_reason first waits for tmux to show the notice.
SendAppend(p) ==
  /\ At(p, "append")
  /\ IF Cardinality(queue) >= Depth
     THEN /\ GoTo(p, "refused") /\ Release(p)
          /\ UNCHANGED <<queue, file, fileBox, ticket, owner, home, held>>
     ELSE /\ queue' = queue \cup {p}
          /\ ticket' = [ticket EXCEPT ![p] = Cardinality(Arrived) + 1]
          /\ owner' = [owner EXCEPT ![p] = IF seen[p] > 0 THEN seen[p] ELSE 0]
          /\ home' = [home EXCEPT ![p] = inst] /\ Hold({p})
          /\ UNCHANGED unsub
          /\ SaveQueue
          /\ IF Person \in box
             THEN GoTo(p, "spawn") /\ UNCHANGED lock
             ELSE Spawning(p, "done") /\ Release(p)
  /\ UNCHANGED <<unsub, loaded, batch, seen, pasted, dead, session,
                 given, into, crashes, moves>>

SendSpawn(p) ==
  /\ At(p, "spawn")
  /\ Spawning(p, "done") /\ Release(p)
  /\ UNCHANGED <<queue, unsub, loaded, batch, seen, disk, session, history>>

\* notifications/cancelled: the SDK cancels the handler at its await.
SendCancelled(p) ==
  /\ "cancelcall" \in Faults
  /\ pc[p] \in {"seek", "load", "decide", "paste", "queue", "append", "spawn"}
  /\ GoTo(p, "failed") /\ Release(p)
  /\ UNCHANGED <<queue, unsub, loaded, batch, seen, disk, session, history>>

-----------------------------------------------------------------------------
(* _inject, for a session_send with the lock or for the drainer            *)

Injectors == Prompts \cup {"drainer"}

\* Enter: what the box holds becomes a prompt of Claude's.
SubmitBox ==
  /\ box' = {} /\ turn' = "running"
  /\ given' = [p \in Prompts |-> IF p \in box THEN given[p] + 1 ELSE given[p]]
  /\ into' = [p \in Prompts |-> IF p \in box THEN inst ELSE into[p]]

\* Cancelled at the docker exec that pastes or presses Enter, which goes on by
\* itself: the text stays in the box, or goes in and is not recorded.
SendCutShort(p) ==
  /\ "cancelpaste" \in Faults /\ At(p, "enter")
  /\ GoTo(p, "failed") /\ Release(p)
  /\ unsub' \in {unsub, {}}
  /\ \/ box # {} /\ turn # "away" /\ SubmitBox
     \/ UNCHANGED <<box, turn, given, into>>
  /\ UNCHANGED <<queue, loaded, batch, seen, disk, inst, made, tainted,
                 home, held, crashes, moves>>

\* A slip: after a failed attempt the drainer drops its batch.
PasteFailedGivesUp(a) ==
  /\ queue' = queue \ batch[a] /\ UNCHANGED ticket /\ Hold(batch[a])
  /\ IF a = "drainer"
     THEN GoTo(a, "loop") /\ Release(a) /\ SaveQueue
     ELSE GoTo(a, "queue") /\ UNCHANGED <<lock, file, fileBox>>

\* What follows a paste that did not land: the call queues its prompt, the
\* drainer saves the queue and tries again later.
PasteFailed(a) ==
  /\ UNCHANGED <<queue, ticket>> /\ Hold(batch[a])
  /\ IF a = "drainer"
     THEN GoTo(a, "loop") /\ Release(a) /\ SaveQueue
     ELSE GoTo(a, "queue") /\ UNCHANGED <<lock, file, fileBox>>

\* tmux types B behind whatever the box holds.
Typed(B) == IF box = {} THEN B ELSE box \cup B \cup {Person}

\* The text is in the box: pasted now, or found there from an earlier attempt.
PasteLands(a) ==
  /\ At(a, "paste") /\ inst # Gone /\ turn # "away"
  /\ box' = IF unsub = batch[a] /\ OwnText THEN box ELSE Typed(batch[a])
  /\ GoTo(a, "enter")
  /\ UNCHANGED <<lock, queue, unsub, loaded, batch, seen, disk,
                 inst, made, turn, tainted, history>>

\* tmux refuses it: the session is gone, or the docker exec failed.
PasteRefused(a) ==
  /\ At(a, "paste")
  /\ IF inst = Gone \/ turn = "away" THEN UNCHANGED moves ELSE Disturb
  /\ unsub' = unsub /\ PasteFailed(a)
  /\ UNCHANGED <<loaded, batch, seen, pasted, dead, owner, session,
                 home, given, into, crashes>>

\* The pointer is on the background-agent list and the box did not show the
\* text in time: it went elsewhere, or it is there and drawn late.
PasteUnconfirmed(a) ==
  /\ At(a, "paste") /\ inst # Gone /\ turn # "away"
  /\ ~(unsub = batch[a] /\ OwnText)
  /\ Disturb
  /\ box' \in {box, Typed(batch[a])}
  /\ unsub' = batch[a] /\ PasteFailed(a)
  /\ UNCHANGED <<loaded, batch, seen, pasted, dead, owner,
                 inst, made, turn, tainted, home, given, into, crashes>>

\* The batch stops being unsubmitted, then Enter is pressed. Its exit code is
\* not looked at.
PressEnter(a) ==
  /\ At(a, "enter")
  /\ unsub' = {}
  /\ GoTo(a, "sent")
  /\ \/ box # {} /\ turn # "away" /\ SubmitBox
     \/ "enter" \in Faults /\ UNCHANGED <<box, turn, given, into>>
  /\ UNCHANGED <<lock, queue, loaded, batch, seen, disk, inst, made, tainted,
                 home, held, crashes, moves>>

\* _record_sent. A session_send returns; the drainer takes the batch out.
RecordSent(a) ==
  /\ At(a, "sent")
  /\ pasted' = pasted \cup batch[a]
  /\ IF a = "drainer"
     THEN GoTo(a, "save") /\ queue' = queue \ batch[a] /\ UNCHANGED lock
     ELSE GoTo(a, "done") /\ Release(a) /\ UNCHANGED queue
  /\ UNCHANGED <<unsub, loaded, batch, seen, file, fileBox, dead, ticket, owner,
                 session, history>>

-----------------------------------------------------------------------------
(* _drain_pending_sends                                                    *)

\* while the queue holds something; the task's end and this test are one step.
DrainLoop ==
  /\ At("drainer", "loop")
  /\ IF queue = {}
     THEN GoTo("drainer", "off") /\ UNCHANGED seen
     ELSE /\ \E answer \in Answers : seen' = [seen EXCEPT !["drainer"] = answer]
          /\ GoTo("drainer", "drop")
  /\ UNCHANGED <<lock, queue, unsub, loaded, batch, disk, session, history>>

\* _drop_prompts_of_removed_session, with _abandon_queue for what it removes;
\* the task ends when nothing is left.
Drop(next) ==
  LET out == Removed(seen["drainer"]) IN
  /\ queue' = queue \ out
  /\ DeadLetter(out, "killed")
  /\ IF out = {}
     THEN UNCHANGED <<unsub, file, fileBox>>
     ELSE unsub' = {} /\ UNCHANGED ticket /\ SaveQueue
  /\ IF queue' = {}
     THEN GoTo("drainer", "off") /\ Release("drainer")
     ELSE GoTo("drainer", next) /\ UNCHANGED lock

DrainDrop ==
  /\ At("drainer", "drop") /\ Drop("wait")
  /\ UNCHANGED <<loaded, batch, seen, pasted, ticket, owner, session, history>>

\* _wait_until_free, without the lock.
DrainWait ==
  /\ At("drainer", "wait")
  /\ GoTo("drainer", IF IsFree THEN "lock" ELSE "loop")
  /\ UNCHANGED <<lock, queue, unsub, loaded, batch, seen, disk, session, history>>

\* A slip: the instance read before the wait is used under the lock.
DrainLockTrustsLastAnswer ==
  /\ At("drainer", "lock") /\ lock = Free
  /\ IF queue # {} /\ IsFree
     THEN lock' = "drainer" /\ GoTo("drainer", "drop2")
     ELSE UNCHANGED lock /\ GoTo("drainer", IF queue = {} THEN "off" ELSE "loop")
  /\ UNCHANGED <<queue, unsub, loaded, batch, seen, disk, session, history>>

\* The lock is taken and the session read again under it.
DrainLock ==
  /\ At("drainer", "lock") /\ lock = Free
  /\ IF queue = {}
     THEN GoTo("drainer", "off") /\ UNCHANGED <<lock, seen>>
     ELSE IF ~IsFree
     THEN GoTo("drainer", "loop") /\ UNCHANGED <<lock, seen>>
     ELSE /\ lock' = "drainer"
          /\ \E answer \in Answers : seen' = [seen EXCEPT !["drainer"] = answer]
          /\ GoTo("drainer", "drop2")
  /\ UNCHANGED <<queue, unsub, loaded, batch, disk, session, history>>

DrainDropLocked ==
  /\ At("drainer", "drop2") /\ Drop("taint")
  /\ batch' = [batch EXCEPT !["drainer"] = NextBatch(queue', unsub')]
  /\ UNCHANGED <<loaded, seen, pasted, ticket, owner, session, history>>

\* A slip: the drainer relies on the taint check of session_send.
DrainTaintSkipped ==
  /\ At("drainer", "taint")
  /\ GoTo("drainer", "paste")
  /\ UNCHANGED <<lock, queue, unsub, loaded, batch, seen, disk, session, history>>

\* A tainted session holds its queue; an unreadable flag does not.
DrainTaint ==
  /\ At("drainer", "taint")
  /\ \/ tainted /\ GoTo("drainer", "loop") /\ Release("drainer")
     \/ /\ ~tainted \/ "unknown" \in Faults
        /\ GoTo("drainer", "paste") /\ UNCHANGED lock
  /\ UNCHANGED <<queue, unsub, loaded, batch, seen, disk, session, history>>

\* A slip: the queue that lost its batch is not saved.
DrainSaveForgets ==
  /\ At("drainer", "save")
  /\ GoTo("drainer", "loop") /\ Release("drainer")
  /\ UNCHANGED <<queue, unsub, loaded, batch, seen, disk, session, history>>

\* After the paste the shorter queue is saved and the lock released.
DrainSave ==
  /\ At("drainer", "save")
  /\ GoTo("drainer", "loop") /\ Release("drainer")
  /\ UNCHANGED <<queue, unsub, loaded, batch, seen, pasted, dead, ticket, owner,
                 session, history>>
  /\ SaveQueue

\* A slip: the task just ends.
DrainFailsForGood ==
  /\ pc["drainer"] \in {"loop", "drop", "wait", "drop2", "taint", "paste"}
  /\ Disturb
  /\ GoTo("drainer", "off") /\ Release("drainer")
  /\ UNCHANGED <<queue, unsub, loaded, batch, seen, disk, session,
                 home, given, into, held, crashes>>

\* An unexpected exception: the task's finally hands a queue that is not empty
\* to a fresh drainer. Between the paste and the save it leaves text in the box
\* that is no longer the server's own, or a file with what was given already.
DrainFails ==
  /\ \/ /\ pc["drainer"] \in {"loop", "drop", "wait", "drop2", "taint", "paste"}
        /\ UNCHANGED unsub
     \/ /\ "failpaste" \in Faults /\ pc["drainer"] \in {"enter", "save"}
        /\ unsub' \in {unsub, {}}
  /\ Disturb
  /\ GoTo("drainer", IF queue = {} THEN "off" ELSE "loop") /\ Release("drainer")
  /\ Hold(batch["drainer"])
  /\ UNCHANGED <<queue, loaded, batch, seen, disk, session, home, given, into, crashes>>

-----------------------------------------------------------------------------
(* session_queue_cancel                                                    *)

CancelStart ==
  /\ At("canceller", "idle")
  /\ Disturb
  /\ GoTo("canceller", "seek")
  /\ UNCHANGED <<lock, queue, unsub, loaded, batch, seen, disk, session,
                 home, given, into, held, crashes>>

\* A slip: the queue is not saved.
CancelledUnsaved(S) ==
  /\ UNCHANGED <<unsub, ticket, file, fileBox>>
  /\ DeadLetter(S, "cancelled")
  /\ GoTo("canceller", "unlock")

\* The shorter queue is saved and each prompt taken back dead-lettered.
Cancelled(S) ==
  /\ UNCHANGED <<unsub, ticket>>
  /\ SaveQueue
  /\ DeadLetter(S, "cancelled")
  /\ GoTo("canceller", "unlock")

\* A slip: a prompt in the box can be taken back too.
OpenWithBox == queue

\* What may still be taken back: never the batch that is in the box.
Open == queue \ InBox(queue, unsub)

\* One prompt, or every one. When that empties the queue the code waits for
\* tmux before it saves.
CancelTake ==
  /\ At("canceller", "take")
  /\ \E S \in {{p} : p \in Open} \cup {Open} :
       /\ queue' = queue \ S
       /\ IF S # {} /\ S = queue
          THEN /\ batch' = [batch EXCEPT !["canceller"] = S]
               /\ GoTo("canceller", "save")
               /\ UNCHANGED <<unsub, ticket, file, fileBox, dead>>
          ELSE Cancelled(S) /\ UNCHANGED batch
  /\ UNCHANGED <<lock, loaded, seen, pasted, owner, session, history>>

CancelSave ==
  /\ At("canceller", "save")
  /\ UNCHANGED queue
  /\ Cancelled(batch["canceller"])
  /\ batch' = [batch EXCEPT !["canceller"] = {}]
  /\ UNCHANGED <<lock, loaded, seen, pasted, owner, session, history>>

\* Cancelled at the wait for tmux, the prompts have left memory and not the file.
CancelCancelled ==
  /\ "canceltake" \in Faults
  /\ pc["canceller"] \in {"seek", "load", "take", "save"}
  /\ batch' = [batch EXCEPT !["canceller"] = {}]
  /\ GoTo("canceller", "idle") /\ Release("canceller")
  /\ UNCHANGED <<queue, unsub, loaded, seen, disk, session, history>>

Unlock(a) ==
  /\ At(a, "unlock")
  /\ GoTo(a, "idle") /\ Release(a)
  /\ UNCHANGED <<queue, unsub, loaded, batch, seen, disk, session, history>>

-----------------------------------------------------------------------------
(* The session and the server around them                                  *)

\* A slip: the saved queues are read only when the next call comes.
AfterRestartLazy(a) ==
  CASE a = "drainer" -> "off"
    [] a \in {"canceller", "resumer"} -> "idle"
    [] OTHER -> IF pc[a] \in {"idle", "done", "refused"} THEN pc[a] ELSE "failed"

\* resume_send_queues goes for the session's lock if there is a queue file.
AfterRestart(a) ==
  CASE a = "drainer"   -> "off"
    [] a = "canceller" -> "idle"
    [] a = "resumer"   -> IF file = {} THEN "idle" ELSE "seek"
    [] OTHER -> IF pc[a] \in {"idle", "done", "refused"} THEN pc[a] ELSE "failed"

\* The server stops and starts again: memory is gone and running calls fail.
Restart ==
  /\ crashes < MaxCrashes
  /\ BoxPasted => "crashpaste" \in Faults
  /\ Submitted => "crashsent" \in Faults
  /\ crashes' = crashes + 1
  /\ lock' = Free /\ queue' = {} /\ unsub' = {} /\ loaded' = FALSE
  /\ batch' = [a \in Actors |-> {}] /\ seen' = [a \in Actors |-> Unknown]
  /\ pc' = [a \in Actors |-> AfterRestart(a)]
  /\ Hold(Prompts)
  /\ UNCHANGED <<disk, session, home, given, into, moves>>

\* aidc kill removes the network that identifies the session, and with it the
\* policy sidecar's flag and whatever is in the box.
Kill ==
  /\ inst # Gone
  /\ BoxPasted => "enter" \in Faults
  /\ inst' = Gone /\ turn' = "away" /\ box' = {} /\ tainted' = FALSE /\ held' = {}
  /\ UNCHANGED <<server, disk, made, home, given, into, crashes, moves>>

\* aidc create, under the same name.
Create ==
  /\ inst = Gone /\ made < MaxInst
  /\ Inspecting => "stale" \in Faults
  /\ made' = made + 1 /\ inst' = made + 1
  /\ UNCHANGED <<server, disk, turn, box, tainted, history>>

\* The prompts already past the server's last look at the taint: those of a call
\* that has begun, and the batch the drainer is pasting.
PastTaintCheck ==
  {p \in Prompts : pc[p] \in {"seek", "load", "decide", "paste", "enter"}}
  \cup (IF pc["drainer"] \in {"paste", "enter"} THEN batch["drainer"] ELSE {})

\* The policy sidecar marks the session, at any moment.
Taint ==
  /\ inst # Gone /\ ~tainted
  /\ tainted' = TRUE /\ held' = Prompts \ PastTaintCheck
  /\ UNCHANGED <<server, disk, inst, made, turn, box, home, given, into, crashes, moves>>

\* A turn starts without the server: background work, or the person.
TurnStarts ==
  /\ inst # Gone /\ turn = "idle" /\ Disturb
  /\ turn' = "running"
  /\ UNCHANGED <<server, disk, inst, made, box, tainted, home, given, into, held, crashes>>

TurnEnds ==
  /\ turn = "running" /\ turn' = "idle"
  /\ UNCHANGED <<server, disk, inst, made, box, tainted, history>>

\* Claude exits and its input box with it; and starts.
ClaudeStops ==
  /\ inst # Gone /\ turn # "away" /\ ~Pasting /\ Disturb
  /\ turn' = "away" /\ box' = {}
  /\ UNCHANGED <<server, disk, inst, made, tainted, home, given, into, held, crashes>>

ClaudeStarts ==
  /\ inst # Gone /\ turn = "away" /\ turn' = "idle"
  /\ UNCHANGED <<server, disk, inst, made, box, tainted, history>>

PersonTypes ==
  /\ inst # Gone /\ turn # "away" /\ box = {} /\ HandsOff /\ Disturb
  /\ box' = {Person}
  /\ UNCHANGED <<server, disk, inst, made, turn, tainted, home, given, into, held, crashes>>

\* The person clears the box, or presses Enter on it: on text of their own,
\* or, as a fault, on a waiting prompt the server pasted.
PersonClears ==
  /\ box # {} /\ HandsOff
  /\ box' = {}
  /\ UNCHANGED <<server, disk, inst, made, turn, tainted, history>>

PersonSubmits ==
  /\ box # {} /\ HandsOff
  /\ box \cap Unqueued = {}
  /\ IF box \cap Waiting = {} THEN UNCHANGED moves ELSE "meddle" \in Faults /\ Disturb
  /\ SubmitBox
  /\ UNCHANGED <<server, disk, inst, made, tainted, home, held, crashes>>

-----------------------------------------------------------------------------
Init ==
  /\ pc = [a \in Actors |-> IF a = "drainer" THEN "off" ELSE "idle"]
  /\ lock = Free /\ queue = {} /\ unsub = {} /\ loaded = FALSE
  /\ batch = [a \in Actors |-> {}] /\ seen = [a \in Actors |-> Unknown]
  /\ file = {} /\ fileBox = {} /\ pasted = {}
  /\ dead = [p \in Prompts |-> "none"]
  /\ ticket = [p \in Prompts |-> 0] /\ owner = [p \in Prompts |-> 0]
  /\ inst = Gone /\ made = 0 /\ turn = "away" /\ box = {} /\ tainted = FALSE
  /\ home = [p \in Prompts |-> 0] /\ given = [p \in Prompts |-> 0]
  /\ into = [p \in Prompts |-> 0] /\ held = {} /\ crashes = 0 /\ moves = 0

SendStep(p) ==
  SendStart(p) \/ SendDecide(p) \/ SendInspect(p) \/ SendAppend(p) \/ SendSpawn(p)

InjectStep(a) ==
  PasteLands(a) \/ PasteRefused(a) \/ PasteUnconfirmed(a) \/ PressEnter(a) \/ RecordSent(a)

DrainStep ==
  DrainLoop \/ DrainDrop \/ DrainWait \/ DrainLock \/ DrainDropLocked \/ DrainTaint \/ DrainSave

CancelStep == CancelTake \/ CancelSave

SessionStep ==
  Kill \/ Create \/ Taint \/ TurnStarts \/ TurnEnds \/ ClaudeStops \/ ClaudeStarts
  \/ PersonTypes \/ PersonClears \/ PersonSubmits

Next ==
  \/ \E p \in Prompts : SendStep(p) \/ SendCancelled(p) \/ SendCutShort(p)
  \/ \E a \in Actors \ {"drainer"} : Acquire(a) \/ LoadQueue(a) \/ Unlock(a)
  \/ \E a \in Injectors : InjectStep(a)
  \/ DrainStep \/ DrainFails \/ CancelStart \/ CancelStep \/ CancelCancelled
  \/ Restart \/ SessionStep

Spec == Init /\ [][Next]_vars

\* The event loop runs every handler that can run, Claude's turns end and a
\* stopped Claude is started, and a person does not leave text in the box for
\* ever. asyncio.Lock is first come first served, so every waiter gets it.
Fairness ==
  /\ WF_vars(DrainStep) /\ WF_vars(CancelStep) /\ SF_vars(DrainLock)
  /\ \A p \in Prompts : WF_vars(SendStep(p) /\ ~At(p, "idle"))
  /\ \A a \in Actors \ {"drainer"} :
       SF_vars(Acquire(a)) /\ WF_vars(LoadQueue(a)) /\ WF_vars(Unlock(a))
  /\ \A a \in Injectors : WF_vars(InjectStep(a))
  /\ WF_vars(TurnEnds) /\ WF_vars(ClaudeStarts) /\ WF_vars(PersonClears /\ ~OwnText)

LiveSpec == Spec /\ Fairness

-----------------------------------------------------------------------------
(* Properties                                                              *)

Places ==
  {"idle", "seek", "load", "decide", "paste", "enter", "sent", "queue", "append",
   "spawn", "done", "refused", "failed", "off", "loop", "drop", "wait", "lock",
   "drop2", "taint", "save", "take", "unlock"}

TypeOK ==
  /\ pc \in [Actors -> Places]
  /\ lock \in Actors \cup {Free} /\ queue \subseteq Prompts /\ unsub \subseteq Prompts
  /\ loaded \in BOOLEAN /\ batch \in [Actors -> SUBSET Prompts]
  /\ seen \in [Actors -> -1..MaxInst]
  /\ file \subseteq Prompts /\ fileBox \subseteq file /\ pasted \subseteq Prompts
  /\ dead \in [Prompts -> {"none", "killed", "cancelled"}]
  /\ ticket \in [Prompts -> Nat] /\ owner \in [Prompts -> 0..MaxInst]
  /\ made \in 0..MaxInst /\ inst \in {Gone, made}
  /\ turn \in {"idle", "running", "away"} /\ box \subseteq Prompts \cup {Person}
  /\ tainted \in BOOLEAN /\ home \in [Prompts -> 0..MaxInst]
  /\ given \in [Prompts -> Nat] /\ into \in [Prompts -> 0..MaxInst] /\ held \subseteq Prompts
  /\ crashes \in 0..MaxCrashes /\ moves \in 0..MaxMoves

Accepted == Arrived \cup {p \in Prompts : pc[p] = "done"}
Settled  == {p \in Prompts : given[p] > 0 \/ dead[p] # "none"}

\* "A prompt accepted here is never dropped": whatever was queued, or answered
\* with ok, is still waiting (in memory, or in the file of a server that has not
\* read it yet), was submitted to Claude, or is in the dead-letter dir.
NoPromptLost == Accepted \subseteq Settled \cup Waiting \cup batch["canceller"]

\* When Enter is pressed the box holds exactly the batch: nothing the person
\* typed, no second copy, no other call's text.
EnterSubmitsTheBatch == \A a \in Injectors : pc[a] = "enter" => box = batch[a]

\* MCP-33: "A re-created session MUST NOT be given the prompts accepted for the
\* one it replaced."
NotGivenToReplacement ==
  \A p \in Prompts : into[p] # 0 /\ home[p] # 0 => into[p] = home[p]

\* A queue that nobody is changing has a drainer.
QueueHasDrainer == queue # {} /\ lock = Free => pc["drainer"] # "off"

HeldGoesNotIn == \A p \in held : given'[p] = given[p] /\ (p \in box' => p \in box)

\* "A prompt queued before the taint is never pasted" (README): from the moment of
\* the taint nothing the server does, over restarts, failed pastes and what lies in
\* the box, types or submits a prompt that waited then, or was sent or queued since.
\* Not held is what was past the check already: one batch of the drainer, and the
\* prompts of the calls that had begun.
TaintHoldsPrompts == [][PersonSubmits \/ HeldGoesNotIn]_vars

\* A queued prompt is pasted, taken back, or reported with its killed session,
\* unless a taint holds it.
EveryPromptSettles == \A p \in Prompts : ticket[p] > 0 ~> (p \in Settled \/ tainted)

\* What became of a prompt, as its sender sees it. No promise has a "both".
Fate ==
  [p \in Prompts |->
     IF given[p] > 0 THEN IF dead[p] = "none" THEN "given" ELSE "both"
     ELSE IF dead[p] # "none" THEN dead[p]
     ELSE IF ticket[p] > 0 THEN "waiting"
     ELSE IF pc[p] = "failed" THEN "failed" ELSE "unsent"]

Promise == INSTANCE PromptPromise WITH fate <- Fate, times <- given, rank <- ticket

\* The send path keeps the promise of PromptPromise: prompts reach Claude in the order
\* they were accepted, a new one never overtakes, none is submitted a second time, and
\* "a prompt is either in the pasted batch or cancelled, never both".
KeepsPromise == Promise!Spec

-----------------------------------------------------------------------------
(* NoPromptLost is not inductive: it follows from where each prompt is kept *)
(* at every step, which the parts of Inv say.                              *)

\* The places at which an actor holds the session's send lock.
Critical ==
  {"load", "decide", "paste", "enter", "sent", "queue", "append", "spawn",
   "drop2", "taint", "save", "take", "unlock"}

LockHeld == \A a \in Actors : pc[a] \in Critical => lock = a

\* The places at which the saved queue has been read.
Serving ==
  {"decide", "paste", "enter", "sent", "queue", "append", "spawn", "loop", "drop",
   "wait", "lock", "drop2", "taint", "save", "take"}

LoadedFirst ==
  /\ \A a \in Actors : (pc[a] = "load" => ~loaded) /\ (pc[a] \in Serving => loaded)
  /\ ~loaded => queue = {}

\* From the paste to Enter the batch stays in the box; after Enter it was given.
BatchGoesIn ==
  \A a \in Injectors :
    /\ pc[a] = "enter" => batch[a] \subseteq box
    /\ pc[a] = "sent"  => \A p \in batch[a] : given[p] > 0

\* A session_send pastes its own prompt alone; one that is about to answer
\* "queued" has queued it.
OwnBatch ==
  \A p \in Prompts :
    /\ pc[p] \in {"paste", "enter", "sent"} => batch[p] = {p}
    /\ pc[p] = "spawn" => ticket[p] > 0

\* Prompts taken back and not yet reported empty the queue and are in the file.
TakenBack == batch["canceller"] # {} => pc["canceller"] = "save" /\ queue = {}

\* A restart finds in the file all that waits.
OnDisk == (loaded => queue \subseteq file) /\ batch["canceller"] \subseteq file

Inv ==
  /\ TypeOK /\ LockHeld /\ LoadedFirst /\ BatchGoesIn /\ OwnBatch /\ TakenBack
  /\ OnDisk /\ NoPromptLost
=============================================================================
