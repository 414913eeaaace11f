------------------------------ MODULE Watches ------------------------------
(***************************************************************************)
(* Which conversation a session's replies go to (mcp/src/aidc_mcp/tools.py *)
(* and transcript.py): the registry of watcher tasks, the saved watch file *)
(* and the calls that change them, session_watch, the automatic watch of   *)
(* session_send, session_unwatch and the resume after a restart. What a    *)
(* watcher then delivers is Delivery's matter.                             *)
(*                                                                         *)
(* One session, several conversations. An action is the code between two   *)
(* awaits. The instance of a session is the number of its creation, and 0  *)
(* stands for a session that is gone and for an instance not known.        *)
(***************************************************************************)
EXTENDS Naturals, FiniteSets

CONSTANTS
  Convs,       \* the conversations
  Calls,       \* calls that may run at once
  None,        \* no watch file, no conversation
  MaxTasks,    \* bound: watcher tasks that exist at once
  MaxCalls, MaxCrashes, MaxInst  \* bounds: calls, restarts, creations of the session

ASSUME NoneAssumption == None \notin Convs /\ None \notin [conv : Convs, inst : Nat]
ASSUME BoundsAssumption ==
  MaxTasks \in Nat /\ MaxCalls \in Nat /\ MaxCrashes \in Nat /\ MaxInst \in Nat

VARIABLES
  inst,    \* the session's network, 0 while it has none
  saved,   \* <session>.watch.json, or None
  live,    \* the watcher tasks that poll
  dying,   \* the tasks cancelled whose done-callback has not run
  reg,     \* _session_watchers[name], 0 without one
  listed,  \* the tool descriptions name the session as watched
  call,    \* call[k]: a tool call
  resume,  \* resume_watchers
  asked,   \* history: the conversations and instances a call asked to watch
  astray,  \* history: a call was overtaken, cut short or ran during the resume, and none has
           \* run alone since
  born, calls, crashes  \* counters of the bounds

registry == <<live, dying, reg>>
bounds   == <<born, calls, crashes>>
vars == <<inst, saved, registry, listed, call, resume, asked, astray, bounds>>

Idle == [pc |-> "idle", conv |-> None, ans |-> 0, task |-> 0]
Tasks == 1..MaxTasks
Unused == Tasks \ ({t.id : t \in live} \cup dying \cup {call[k].task : k \in Calls})

\* A call, or the resume, that waits for docker before it writes the watch file.
Waits == {"inspect", "answered"}
Others(k) == resume.pc \in Waits \/ \E j \in Calls \ {k} : call[j].pc \in Waits

-----------------------------------------------------------------------------
(* The registry                                                            *)

\* _register_watcher: cancel the task there is and install a new one, at once. how is
\* the instance a resumed watch was saved for and the one docker found.
RegisterWatcher(c, how) ==
  \E t \in Unused :
    /\ \A u \in Unused : t <= u
    /\ live' = {x \in live : x.id # reg} \cup {[id |-> t, conv |-> c, how |-> how]}
    /\ dying' = dying \cup ({reg} \ {0})
    /\ reg' = t

\* A slip: the registry's entry is taken out whoever's it is.
TaskEndedUnguarded(t) ==
  /\ t \in dying /\ dying' = dying \ {t}
  /\ reg' = 0
  /\ UNCHANGED <<inst, saved, live, listed, call, resume, asked, astray, bounds>>

\* The done-callback of a cancelled task takes its own entry out, and no other's.
TaskEnded(t) ==
  /\ t \in dying /\ dying' = dying \ {t}
  /\ reg' = IF reg = t THEN 0 ELSE reg
  /\ UNCHANGED <<inst, saved, live, listed, call, resume, asked, astray, bounds>>

\* The watch file is replaced by a rename, or unlinked.
SaveWatch(c, i) == saved' = [conv |-> c, inst |-> i]
RemoveWatch     == saved' = None

\* _announce_watchers writes the descriptions anew from the registry.
AnnounceWatchers == listed' = (reg # 0)

NewCall == calls < MaxCalls /\ calls' = calls + 1 /\ UNCHANGED <<born, crashes>>
Asked   == [from |-> 0, found |-> 0]

\* The start of _start_watcher, by call k for conversation c.
Start(k, c) ==
  /\ RegisterWatcher(c, Asked)
  /\ call' = [call EXCEPT ![k] = [Idle EXCEPT !.pc = "inspect", !.conv = c]]
  /\ astray' = Others(k)

-----------------------------------------------------------------------------
(* The calls                                                               *)

\* session_watch.
WatchCalled(k, c) ==
  /\ call[k] = Idle /\ NewCall
  /\ Start(k, c)
  /\ UNCHANGED <<inst, saved, listed, resume, asked>>

\* session_send first asks docker whether there is such a session ...
SendCalled(k, c) ==
  /\ call[k] = Idle /\ NewCall
  /\ call' = [call EXCEPT ![k] = [Idle EXCEPT !.pc = "check", !.conv = c]]
  /\ UNCHANGED <<inst, saved, registry, listed, resume, asked, astray>>

\* ... and, unless it is gone, opens a webhook when none is open. Docker may also not
\* know, which is not gone.
SendChecked(k) ==
  /\ call[k].pc = "check"
  /\ \/ /\ reg = 0 /\ Start(k, call[k].conv)
     \/ /\ inst = 0 \/ reg # 0
        /\ call' = [call EXCEPT ![k] = Idle] /\ UNCHANGED <<registry, astray>>
  /\ UNCHANGED <<inst, saved, listed, resume, asked, bounds>>

\* Docker answers with the instance, or fails.
Inspected(k) ==
  /\ call[k].pc = "inspect"
  /\ \E a \in {inst, 0} :
       /\ call' = [call EXCEPT ![k].pc = "answered", ![k].ans = a]
       /\ asked' = asked \cup {<<call[k].conv, i>> : i \in {a} \ {0}}
  /\ UNCHANGED <<inst, saved, registry, listed, resume, astray, bounds>>

\* The rest of _start_watcher: the watch is saved (an unwritable file is only logged) ...
WatchSaved(k) ==
  /\ call[k].pc = "answered"
  /\ \/ /\ SaveWatch(call[k].conv, call[k].ans) /\ UNCHANGED astray
     \/ UNCHANGED saved /\ astray' = TRUE
  /\ call' = [call EXCEPT ![k] = [Idle EXCEPT !.pc = "baseline"]]
  /\ UNCHANGED <<inst, registry, listed, resume, asked, bounds>>

\* ... and, after the baseline of the mark, the descriptions are refreshed.
WatchAnnounced(k) ==
  /\ call[k].pc = "baseline" /\ call' = [call EXCEPT ![k] = Idle]
  /\ AnnounceWatchers
  /\ UNCHANGED <<inst, saved, registry, resume, asked, astray, bounds>>

\* The client cancels a call that waits.
ClientGone(k) ==
  /\ call[k].pc \in {"check", "baseline"} \cup Waits
  /\ call' = [call EXCEPT ![k] = Idle]
  /\ astray' = (astray \/ call[k].pc # "check")
  /\ UNCHANGED <<inst, saved, registry, listed, resume, asked, bounds>>

\* A slip: the watch file is left.
UnwatchCalledKeepsFile(k) ==
  /\ call[k] = Idle /\ NewCall
  /\ UNCHANGED saved /\ astray' = (Others(k) \/ resume.pc = "read")
  /\ reg' = 0
  /\ live' = {x \in live : x.id # reg} /\ dying' = dying \cup ({reg} \ {0})
  /\ IF reg = 0 THEN listed' = FALSE /\ UNCHANGED call
     ELSE /\ call' = [call EXCEPT ![k] = [Idle EXCEPT !.pc = "stopping", !.task = reg]]
          /\ UNCHANGED listed
  /\ UNCHANGED <<inst, resume, asked>>

\* session_unwatch removes the file, takes the task out of the registry, cancels it ...
UnwatchCalled(k) ==
  /\ call[k] = Idle /\ NewCall
  /\ RemoveWatch /\ astray' = (Others(k) \/ resume.pc = "read")
  /\ reg' = 0
  /\ live' = {x \in live : x.id # reg} /\ dying' = dying \cup ({reg} \ {0})
  /\ IF reg = 0 THEN listed' = FALSE /\ UNCHANGED call
     ELSE /\ call' = [call EXCEPT ![k] = [Idle EXCEPT !.pc = "stopping", !.task = reg]]
          /\ UNCHANGED listed
  /\ UNCHANGED <<inst, resume, asked>>

\* ... and waits for its end, which a cancelled call does not cut short.
UnwatchDone(k) ==
  /\ call[k].pc = "stopping" /\ call[k].task \notin dying
  /\ call' = [call EXCEPT ![k] = Idle]
  /\ AnnounceWatchers
  /\ UNCHANGED <<inst, saved, registry, resume, asked, astray, bounds>>

-----------------------------------------------------------------------------
(* The start of the server                                                 *)

Resumed == [pc |-> "done", watch |-> None, state |-> "unknown", found |-> 0]

\* resume_watchers reads the files of all sessions at once ...
ResumeLoads ==
  /\ resume.pc = "start"
  /\ resume' = IF saved = None THEN Resumed
               ELSE [Resumed EXCEPT !.pc = "read", !.watch = saved]
  /\ UNCHANGED <<inst, saved, registry, listed, call, asked, astray, bounds>>

\* A slip: a saved watch is opened though a call has opened one already.
ResumeTakesUnchecked ==
  /\ resume.pc = "read" /\ resume' = [resume EXCEPT !.pc = "inspect"]
  /\ UNCHANGED <<inst, saved, registry, listed, call, asked, astray, bounds>>

\* ... and comes to this one after its waits for docker on those before it. One that is
\* watched already is left.
ResumeTakes ==
  /\ resume.pc = "read"
  /\ resume' = IF reg # 0 THEN Resumed ELSE [resume EXCEPT !.pc = "inspect"]
  /\ UNCHANGED <<inst, saved, registry, listed, call, asked, astray, bounds>>

\* Docker answers that the session exists or is gone, or does not know.
ResumeInspected ==
  /\ resume.pc = "inspect"
  /\ \/ resume' = [resume EXCEPT !.pc = "answered", !.found = inst,
                     !.state = IF inst = 0 THEN "gone" ELSE "exists"]
     \/ resume' = [resume EXCEPT !.pc = "answered"]
  /\ UNCHANGED <<inst, saved, registry, listed, call, asked, astray, bounds>>

\* A slip: only a session that is gone drops its watch.
DropsOnlyGone == resume.state = "gone"

\* The watched session is gone, or another was created under its name.
Drops ==
  \/ resume.state = "gone"
  \/ resume.watch.inst # 0 /\ resume.found # 0 /\ resume.found # resume.watch.inst

\* The watch is dropped, or opened again without a baseline.
ResumeFinished ==
  /\ resume.pc = "answered" /\ resume' = Resumed
  /\ IF Drops
     THEN RemoveWatch /\ UNCHANGED <<registry, listed, astray>>
     ELSE /\ RegisterWatcher(resume.watch.conv,
                             [from |-> resume.watch.inst, found |-> resume.found])
          /\ listed' = TRUE /\ UNCHANGED saved
          /\ astray' = (astray \/ \E k \in Calls : call[k].pc \in Waits)
  /\ UNCHANGED <<inst, call, asked, bounds>>

\* The server stops, and starts again: tasks, calls and descriptions are gone.
Restart ==
  /\ crashes < MaxCrashes /\ crashes' = crashes + 1
  /\ live' = {} /\ dying' = {} /\ reg' = 0 /\ listed' = FALSE
  /\ call' = [k \in Calls |-> Idle]
  /\ resume' = [Resumed EXCEPT !.pc = "start"]
  /\ astray' = FALSE
  /\ UNCHANGED <<inst, saved, asked, born, calls>>

\* aidc kill, aidc create.
Killed ==
  /\ inst # 0 /\ inst' = 0
  /\ UNCHANGED <<saved, registry, listed, call, resume, asked, astray, bounds>>

Created ==
  /\ inst = 0 /\ born < MaxInst
  /\ born' = born + 1 /\ inst' = born + 1
  /\ UNCHANGED <<saved, registry, listed, call, resume, asked, astray, calls, crashes>>

-----------------------------------------------------------------------------
Init ==
  /\ inst = 0 /\ saved = None /\ live = {} /\ dying = {} /\ reg = 0 /\ listed = FALSE
  /\ call = [k \in Calls |-> Idle] /\ resume = [Resumed EXCEPT !.pc = "start"]
  /\ asked = {} /\ astray = FALSE
  /\ born = 0 /\ calls = 0 /\ crashes = 0

CallSteps(k) ==
  \/ \E c \in Convs : WatchCalled(k, c) \/ SendCalled(k, c)
  \/ SendChecked(k) \/ Inspected(k) \/ WatchSaved(k)
  \/ WatchAnnounced(k) \/ ClientGone(k)
  \/ UnwatchCalled(k) \/ UnwatchDone(k)

Next ==
  \/ \E k \in Calls : CallSteps(k)
  \/ \E t \in Tasks : TaskEnded(t)
  \/ ResumeLoads \/ ResumeTakes \/ ResumeInspected \/ ResumeFinished
  \/ Restart \/ Killed \/ Created

Spec == Init /\ [][Next]_vars

-----------------------------------------------------------------------------
(* Properties                                                              *)

\* _start_watcher: "Two watchers share one durable watermark and each POST every turn".
\* The task in the registry polls, and no other does.
OneWatcher == {t.id : t \in live} = {reg} \ {0}

Quiet == resume.pc = "done" /\ \A k \in Calls : call[k] = Idle

Agree ==
  IF saved = None THEN reg = 0 /\ ~listed
  ELSE listed /\ \E t \in live : t.id = reg /\ t.conv = saved.conv

\* MCP-34: an open webhook survives a restart until session_unwatch or the end of the
\* session. Whatever ran before, once a call has run alone, or the server has started
\* again, the watch that is saved is the one that runs and the one callers are told of.
SavedIsServed == Quiet /\ ~astray => Agree

\* resume_watchers: "a new session under the same name has not been asked to report to
\* it". A watch opened again is one that was asked of the session docker finds.
ResumedWasAsked ==
  \A t \in live :
    t.how.from # 0 /\ t.how.found # 0 => <<t.conv, t.how.found>> \in asked
=============================================================================
