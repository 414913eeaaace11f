--------------------------- MODULE WatchesProofs ---------------------------
(***************************************************************************)
(* Proofs about Watches, for every number of conversations, calls, tasks,  *)
(* restarts and creations of the session.                                  *)
(***************************************************************************)
EXTENDS Watches, TLAPS

\* The frame of a step: the groups of variables, spelt out.
USE DEF vars, registry, bounds, SaveWatch, RemoveWatch, AnnounceWatchers

Ids == {t.id : t \in live}

\* OneWatcher is not inductive: a done-callback that runs must not be the registered
\* task's, so a task that has been cancelled is in the registry no more.
CancelledIsOut == reg # 0 => reg \notin dying
OneTask == OneWatcher /\ CancelledIsOut

\* _register_watcher leaves one task that polls, the registered one.
LEMMA RegisterOne ==
  ASSUME OneTask, NEW c, NEW how, RegisterWatcher(c, how)
  PROVE  OneTask'
<1>1. PICK t \in Unused :
        /\ live' = {x \in live : x.id # reg} \cup {[id |-> t, conv |-> c, how |-> how]}
        /\ dying' = dying \cup ({reg} \ {0})
        /\ reg' = t
  BY DEF RegisterWatcher
<1>2. t # 0 /\ t \notin Ids /\ t \notin dying
  BY BoundsAssumption DEF Unused, Tasks, Ids
<1>3. {x \in live : x.id # reg} = {}
  BY DEF OneTask, OneWatcher
<1>4. {u.id : u \in live'} = {t}
  <2> DEFINE new == [id |-> t, conv |-> c, how |-> how]
  <2>1. live' = {new} BY <1>1, <1>3
  <2>2. new.id = t OBVIOUS
  <2> HIDE DEF new
  <2> QED BY <2>1, <2>2
<1>5. t \notin dying'
  <2>1. t # reg \/ reg = 0 BY <1>2 DEF OneTask, OneWatcher, Ids
  <2> QED BY <1>1, <1>2, <2>1
<1> QED BY <1>1, <1>2, <1>4, <1>5 DEF OneTask, OneWatcher, CancelledIsOut

\* The end of the registered task, by session_unwatch.
LEMMA UnwatchOne ==
  ASSUME OneTask, NEW k \in Calls, UnwatchCalled(k)
  PROVE  OneTask'
<1>1. reg' = 0 /\ live' = {x \in live : x.id # reg}
  BY DEF UnwatchCalled
<1>2. live' = {}
  BY <1>1 DEF OneTask, OneWatcher
<1> QED BY <1>1, <1>2 DEF OneTask, OneWatcher, CancelledIsOut

\* A done-callback finds the registry's entry another task's.
LEMMA EndedOne ==
  ASSUME OneTask, NEW t \in Tasks, TaskEnded(t)
  PROVE  OneTask'
<1>1. reg # t \/ reg = 0 BY DEF OneTask, CancelledIsOut, TaskEnded
<1>2. reg' = reg /\ live' = live /\ dying' \subseteq dying
  BY <1>1 DEF TaskEnded
<1> QED BY <1>2 DEF OneTask, OneWatcher, CancelledIsOut

LEMMA SameRegistry ==
  ASSUME OneTask, UNCHANGED registry
  PROVE  OneTask'
BY DEF OneTask, OneWatcher, CancelledIsOut

LEMMA OneTaskStep ==
  ASSUME OneTask, [Next]_vars
  PROVE  OneTask'
<1>1. CASE UNCHANGED vars BY <1>1, SameRegistry
<1>2. ASSUME NEW k \in Calls, CallSteps(k) PROVE OneTask'
  <2>1. ASSUME NEW c \in Convs, WatchCalled(k, c) PROVE OneTask'
    BY <2>1, RegisterOne DEF WatchCalled, Start
  <2>2. ASSUME NEW c \in Convs, SendCalled(k, c) PROVE OneTask'
    BY <2>2, SameRegistry DEF SendCalled
  <2>3. CASE SendChecked(k)
    <3>1. CASE Start(k, call[k].conv) BY <3>1, RegisterOne DEF Start
    <3>2. CASE UNCHANGED registry BY <3>2, SameRegistry
    <3> QED BY <2>3, <3>1, <3>2 DEF SendChecked
  <2>4. CASE Inspected(k) \/ WatchSaved(k) \/ WatchAnnounced(k) \/ ClientGone(k) \/ UnwatchDone(k)
    BY <2>4, SameRegistry DEF Inspected, WatchSaved, WatchAnnounced, ClientGone, UnwatchDone
  <2>5. CASE UnwatchCalled(k) BY <2>5, UnwatchOne
  <2> QED BY <1>2, <2>1, <2>2, <2>3, <2>4, <2>5 DEF CallSteps
<1>3. ASSUME NEW t \in Tasks, TaskEnded(t) PROVE OneTask' BY <1>3, EndedOne
<1>4. CASE ResumeLoads \/ ResumeTakes \/ ResumeInspected \/ Killed \/ Created
  BY <1>4, SameRegistry DEF ResumeLoads, ResumeTakes, ResumeInspected, Killed, Created
<1>5. CASE ResumeFinished
  <2>1. CASE Drops BY <1>5, <2>1, SameRegistry DEF ResumeFinished
  <2>2. CASE ~Drops BY <1>5, <2>2, RegisterOne DEF ResumeFinished
  <2> QED BY <2>1, <2>2
<1>6. CASE Restart BY <1>6 DEF Restart, OneTask, OneWatcher, CancelledIsOut
<1> QED BY <1>1, <1>2, <1>3, <1>4, <1>5, <1>6 DEF Next

\* However calls, callbacks, restarts and re-creations interleave, the watcher in the
\* registry polls and no other does (_register_watcher, _make_watcher_done_callback).
THEOREM OneWatcherPolls == Spec => []OneWatcher
<1>1. Init => OneTask BY DEF Init, OneTask, OneWatcher, CancelledIsOut
<1>2. OneTask /\ [Next]_vars => OneTask' BY OneTaskStep
<1>3. OneTask => OneWatcher BY DEF OneTask
<1> QED BY <1>1, <1>2, <1>3, PTL DEF Spec

-----------------------------------------------------------------------------
(* What a watch was asked of                                               *)

Watch == [conv : Convs, inst : Nat]
How   == [from : Nat, found : Nat]
Task  == [id : Tasks, conv : Convs, how : How]
Call  == [pc : {"idle", "check", "inspect", "answered", "baseline", "stopping"},
          conv : Convs \cup {None}, ans : Nat, task : Nat]
Resume == [pc : {"start", "read", "inspect", "answered", "done"}, watch : Watch \cup {None},
           state : {"unknown", "exists", "gone"}, found : Nat]

\* A conversation asked for a watch on the instance i, unless i is not known.
AskedOf(c, i) == i # 0 => <<c, i>> \in asked

RegistryTyped == inst \in Nat /\ born \in Nat /\ live \subseteq Task /\ reg \in Nat
CallsTyped    == call \in [Calls -> Call] /\ \A k \in Calls : call[k].pc \in Waits \cup {"check"} => call[k].conv \in Convs
SavedAsked    == saved # None => saved \in Watch /\ AskedOf(saved.conv, saved.inst)
AnswersAsked  == \A k \in Calls : call[k].pc = "answered" => AskedOf(call[k].conv, call[k].ans)
ResumeAsked   ==
  /\ resume \in Resume
  /\ resume.pc \in Waits \cup {"read"} =>
       resume.watch \in Watch /\ AskedOf(resume.watch.conv, resume.watch.inst)

\* ResumedWasAsked alone says nothing of the file, of the calls that are about to write
\* it, or of a watch that has been read from it and not been opened.
AskedInv ==
  RegistryTyped /\ CallsTyped /\ SavedAsked /\ AnswersAsked /\ ResumeAsked /\ ResumedWasAsked

\* What a step leaves alone stays as it was, and asked only grows.
LEMMA SameLive ==
  ASSUME AskedInv, live' \subseteq live, asked \subseteq asked'
  PROVE  live' \subseteq Task /\ ResumedWasAsked'
BY DEF AskedInv, RegistryTyped, ResumedWasAsked

LEMMA SameCalls ==
  ASSUME AskedInv, call' = call, asked \subseteq asked'
  PROVE  CallsTyped' /\ AnswersAsked'
BY DEF AskedInv, CallsTyped, AnswersAsked, AskedOf

LEMMA SameSaved ==
  ASSUME AskedInv, saved' = saved, asked \subseteq asked'
  PROVE  SavedAsked'
BY DEF AskedInv, SavedAsked, AskedOf

LEMMA SameResume ==
  ASSUME AskedInv, resume' = resume, asked \subseteq asked'
  PROVE  ResumeAsked'
BY DEF AskedInv, ResumeAsked, AskedOf

\* _register_watcher for a watch that was asked for.
LEMMA RegisterAsked ==
  ASSUME AskedInv, NEW c \in Convs, NEW how \in How,
         how.from # 0 /\ how.found # 0 => <<c, how.found>> \in asked,
         RegisterWatcher(c, how), asked' = asked
  PROVE  live' \subseteq Task /\ reg' \in Nat /\ ResumedWasAsked'
<1>1. PICK t \in Unused :
        /\ live' = {x \in live : x.id # reg} \cup {[id |-> t, conv |-> c, how |-> how]}
        /\ reg' = t
  BY DEF RegisterWatcher
<1>2. t \in Tasks /\ t \in Nat BY BoundsAssumption DEF Unused, Tasks
<1> DEFINE new == [id |-> t, conv |-> c, how |-> how]
<1>3. new \in Task /\ new.how = how /\ new.conv = c BY <1>2 DEF Task
<1>4. live' \subseteq live \cup {new} BY <1>1
<1> HIDE DEF new
<1>5. live' \subseteq Task BY <1>3, <1>4 DEF AskedInv, RegistryTyped
<1>6. ResumedWasAsked' BY <1>3, <1>4 DEF AskedInv, ResumedWasAsked
<1> QED BY <1>1, <1>2, <1>5, <1>6

\* A call that goes on to a place where no answer waits.
LEMMA CallGoesOn ==
  ASSUME AskedInv, NEW k \in Calls, NEW c \in Call, asked' = asked,
         c.pc # "answered", c.pc \in Waits \cup {"check"} => c.conv \in Convs,
         call' = [call EXCEPT ![k] = c]
  PROVE  CallsTyped' /\ AnswersAsked'
BY DEF AskedInv, CallsTyped, AnswersAsked, AskedOf

LEMMA IdleCall == Idle \in Call /\ Idle.pc = "idle"
BY DEF Idle, Call

LEMMA NewCallType ==
  ASSUME NEW c \in Convs, NEW w \in {"inspect", "check"}
  PROVE  LET n == [Idle EXCEPT !.pc = w, !.conv = c] IN n \in Call /\ n.pc = w /\ n.conv = c
BY DEF Idle, Call

LEMMA StoppingCallType ==
  ASSUME NEW t \in Nat
  PROVE  LET n == [Idle EXCEPT !.pc = "stopping", !.task = t] IN n \in Call /\ n.pc = "stopping"
BY DEF Idle, Call

LEMMA BaselineCallType ==
  LET n == [Idle EXCEPT !.pc = "baseline"] IN n \in Call /\ n.pc = "baseline"
BY DEF Idle, Call

LEMMA ResumedType == Resumed \in Resume /\ Resumed.pc = "done"
BY DEF Resumed, Resume

LEMMA AskedInit == Init => AskedInv
<1> SUFFICES ASSUME Init PROVE AskedInv OBVIOUS
<1>1. RegistryTyped /\ ResumedWasAsked BY DEF Init, RegistryTyped, ResumedWasAsked
<1>2. CallsTyped /\ AnswersAsked BY IdleCall DEF Init, CallsTyped, AnswersAsked, Waits
<1>3. SavedAsked BY DEF Init, SavedAsked
<1>4. ResumeAsked
  <2>1. resume \in Resume /\ resume.pc = "start"
    BY DEF Init, Resumed, Resume
  <2> QED BY <2>1 DEF ResumeAsked, Waits
<1> QED BY <1>1, <1>2, <1>3, <1>4 DEF AskedInv

\* The start of _start_watcher, by session_watch or session_send.
LEMMA StartAsked ==
  ASSUME AskedInv, NEW k \in Calls, NEW c \in Convs, Start(k, c),
         UNCHANGED <<inst, born, saved, resume, asked>>
  PROVE  AskedInv'
<1>1. Asked \in How /\ Asked.from = 0 BY DEF Asked, How
<1>2. live' \subseteq Task /\ reg' \in Nat /\ ResumedWasAsked'
  BY <1>1, RegisterAsked DEF Start
<1>3. CallsTyped' /\ AnswersAsked'
  <2> DEFINE n == [Idle EXCEPT !.pc = "inspect", !.conv = c]
  <2>1. n \in Call /\ n.pc = "inspect" /\ n.conv = c BY NewCallType
  <2>2. call' = [call EXCEPT ![k] = n] BY DEF Start
  <2> HIDE DEF n
  <2> QED BY <2>1, <2>2, CallGoesOn
<1> QED BY <1>2, <1>3, SameSaved, SameResume DEF AskedInv, RegistryTyped

LEMMA CallAsked ==
  ASSUME AskedInv, NEW k \in Calls, CallSteps(k)
  PROVE  AskedInv'
<1> USE DEF Waits
<1>1. ASSUME NEW c \in Convs, WatchCalled(k, c) PROVE AskedInv'
  BY <1>1, StartAsked DEF WatchCalled, NewCall
<1>2. ASSUME NEW c \in Convs, SendCalled(k, c) PROVE AskedInv'
  <2> DEFINE n == [Idle EXCEPT !.pc = "check", !.conv = c]
  <2>1. n \in Call /\ n.pc = "check" /\ n.conv = c BY NewCallType
  <2>2. call' = [call EXCEPT ![k] = n] /\ asked' = asked BY <1>2 DEF SendCalled
  <2> HIDE DEF n
  <2>3. CallsTyped' /\ AnswersAsked' BY <2>1, <2>2, CallGoesOn
  <2> QED BY <1>2, <2>3, SameLive, SameSaved, SameResume DEF SendCalled, NewCall, AskedInv, RegistryTyped
<1>3. CASE SendChecked(k)
  <2>1. CASE Start(k, call[k].conv)
    <3>1. call[k].conv \in Convs BY <1>3 DEF SendChecked, AskedInv, CallsTyped
    <3> QED BY <1>3, <2>1, <3>1, StartAsked DEF SendChecked
  <2>2. CASE call' = [call EXCEPT ![k] = Idle] /\ UNCHANGED registry
    <3>1. CallsTyped' /\ AnswersAsked' BY <1>3, <2>2, IdleCall, CallGoesOn DEF SendChecked
    <3> QED BY <1>3, <2>2, <3>1, SameLive, SameSaved, SameResume DEF SendChecked, AskedInv, RegistryTyped
  <2> QED BY <1>3, <2>1, <2>2 DEF SendChecked
<1>4. CASE Inspected(k)
  <2>1. PICK a \in {inst, 0} :
          /\ call' = [call EXCEPT ![k].pc = "answered", ![k].ans = a]
          /\ asked' = asked \cup {<<call[k].conv, i>> : i \in {a} \ {0}}
    BY <1>4 DEF Inspected
  <2>2. a \in Nat /\ call[k].conv \in Convs /\ call[k] \in Call
    BY <1>4 DEF Inspected, AskedInv, RegistryTyped, CallsTyped
  <2>3. asked \subseteq asked' /\ (a # 0 => <<call[k].conv, a>> \in asked') BY <2>1
  <2>4. call'[k] = [call[k] EXCEPT !.pc = "answered", !.ans = a] /\ \A j \in Calls \ {k} : call'[j] = call[j]
    BY <2>1 DEF AskedInv, CallsTyped
  <2>5. call'[k] \in Call /\ call'[k].pc = "answered" /\ call'[k].ans = a /\ call'[k].conv = call[k].conv
    BY <2>2, <2>4 DEF Call
  <2>6. CallsTyped'
    <3>1. call' \in [Calls -> Call] BY <2>1, <2>4, <2>5 DEF AskedInv, CallsTyped
    <3> QED BY <2>2, <2>4, <2>5, <3>1 DEF AskedInv, CallsTyped
  <2>7. AnswersAsked' BY <2>3, <2>4, <2>5 DEF AskedInv, AnswersAsked, AskedOf
  <2> QED BY <1>4, <2>3, <2>6, <2>7, SameLive, SameSaved, SameResume DEF Inspected, AskedInv, RegistryTyped
<1>5. CASE WatchSaved(k)
  <2> DEFINE n == [Idle EXCEPT !.pc = "baseline"]
  <2>1. n \in Call /\ n.pc = "baseline" BY BaselineCallType
  <2>2. call' = [call EXCEPT ![k] = n] /\ asked' = asked BY <1>5 DEF WatchSaved
  <2> HIDE DEF n
  <2>3. CallsTyped' /\ AnswersAsked' BY <2>1, <2>2, CallGoesOn
  <2>4. SavedAsked'
    <3>1. CASE saved' = saved BY <1>5, <3>1, SameSaved DEF WatchSaved
    <3>2. CASE saved' = [conv |-> call[k].conv, inst |-> call[k].ans]
      <4>1. call[k].conv \in Convs /\ call[k].ans \in Nat /\ AskedOf(call[k].conv, call[k].ans)
        BY <1>5 DEF WatchSaved, AskedInv, CallsTyped, Call, AnswersAsked
      <4>2. saved' \in Watch /\ saved'.conv = call[k].conv /\ saved'.inst = call[k].ans
        BY <3>2, <4>1 DEF Watch
      <4> QED BY <2>2, <4>1, <4>2 DEF SavedAsked, AskedOf
    <3> QED BY <1>5, <3>1, <3>2 DEF WatchSaved
  <2> QED BY <1>5, <2>3, <2>4, SameLive, SameResume DEF WatchSaved, AskedInv, RegistryTyped
<1>6. CASE WatchAnnounced(k) \/ ClientGone(k) \/ UnwatchDone(k)
  <2>1. call' = [call EXCEPT ![k] = Idle] /\ asked' = asked
    BY <1>6 DEF WatchAnnounced, ClientGone, UnwatchDone
  <2>2. CallsTyped' /\ AnswersAsked' BY <2>1, IdleCall, CallGoesOn
  <2> QED BY <1>6, <2>2, SameLive, SameSaved, SameResume
        DEF WatchAnnounced, ClientGone, UnwatchDone, AskedInv, RegistryTyped
<1>7. CASE UnwatchCalled(k)
  <2>1. asked' = asked /\ saved' = None /\ live' \subseteq live /\ reg' = 0
    BY <1>7 DEF UnwatchCalled
  <2>2. CallsTyped' /\ AnswersAsked'
    <3>1. CASE call' = call BY <2>1, <3>1, SameCalls
    <3>2. CASE call' = [call EXCEPT ![k] = [Idle EXCEPT !.pc = "stopping", !.task = reg]]
      <4> DEFINE n == [Idle EXCEPT !.pc = "stopping", !.task = reg]
      <4>1. n \in Call /\ n.pc = "stopping" BY StoppingCallType DEF AskedInv, RegistryTyped
      <4>2. call' = [call EXCEPT ![k] = n] BY <3>2
      <4> HIDE DEF n
      <4> QED BY <2>1, <4>1, <4>2, CallGoesOn
    <3> QED BY <1>7, <3>1, <3>2 DEF UnwatchCalled
  <2>3. SavedAsked' BY <2>1 DEF SavedAsked
  <2> QED BY <1>7, <2>1, <2>2, <2>3, SameLive, SameResume
        DEF UnwatchCalled, NewCall, AskedInv, RegistryTyped
<1> QED BY <1>1, <1>2, <1>3, <1>4, <1>5, <1>6, <1>7 DEF CallSteps

\* A watch is opened again for the instance it was saved for, or for one not known.
LEMMA ResumeFinishedAsked ==
  ASSUME AskedInv, ResumeFinished
  PROVE  AskedInv'
<1>1. resume.watch \in Watch /\ AskedOf(resume.watch.conv, resume.watch.inst) /\ resume.found \in Nat
  BY DEF ResumeFinished, AskedInv, ResumeAsked, Resume, Waits
<1>2. asked' = asked /\ call' = call /\ inst' = inst /\ born' = born /\ resume' = Resumed
  BY DEF ResumeFinished
<1>3. CallsTyped' /\ AnswersAsked' BY <1>2, SameCalls
<1>4. ResumeAsked' BY <1>2, ResumedType DEF ResumeAsked, Waits
<1>5. CASE Drops
  <2>1. saved' = None /\ UNCHANGED registry BY <1>5 DEF ResumeFinished
  <2>2. SavedAsked' BY <2>1 DEF SavedAsked
  <2> QED BY <1>2, <1>3, <1>4, <2>1, <2>2, SameLive DEF AskedInv, RegistryTyped
<1>6. CASE ~Drops
  <2> DEFINE how == [from |-> resume.watch.inst, found |-> resume.found]
  <2>1. how \in How /\ how.from = resume.watch.inst /\ how.found = resume.found
    BY <1>1 DEF How, Watch
  <2>2. RegisterWatcher(resume.watch.conv, how) /\ saved' = saved
    BY <1>6 DEF ResumeFinished
  <2> HIDE DEF how
  <2>3. how.from # 0 /\ how.found # 0 => <<resume.watch.conv, how.found>> \in asked
    BY <1>1, <1>6, <2>1 DEF Drops, AskedOf
  <2>4. resume.watch.conv \in Convs BY <1>1 DEF Watch
  <2>5. live' \subseteq Task /\ reg' \in Nat /\ ResumedWasAsked'
    BY <1>2, <2>1, <2>2, <2>3, <2>4, RegisterAsked
  <2> QED BY <1>2, <1>3, <1>4, <2>2, <2>5, SameSaved DEF AskedInv, RegistryTyped
<1> QED BY <1>5, <1>6

LEMMA AskedStep ==
  ASSUME AskedInv, [Next]_vars
  PROVE  AskedInv'
<1>1. CASE UNCHANGED vars
  BY <1>1, SameLive, SameCalls, SameSaved, SameResume DEF AskedInv, RegistryTyped
<1>2. ASSUME NEW k \in Calls, CallSteps(k) PROVE AskedInv' BY <1>2, CallAsked
<1>3. ASSUME NEW t \in Tasks, TaskEnded(t) PROVE AskedInv'
  BY <1>3, SameLive, SameCalls, SameSaved, SameResume DEF TaskEnded, AskedInv, RegistryTyped
<1>4. CASE ResumeLoads
  <2>1. ResumeAsked'
    <3>1. CASE resume' = Resumed BY <3>1, ResumedType DEF ResumeAsked, Waits
    <3>2. CASE saved # None /\ resume' = [Resumed EXCEPT !.pc = "read", !.watch = saved]
      <4>1. saved \in Watch /\ AskedOf(saved.conv, saved.inst) BY <3>2 DEF AskedInv, SavedAsked
      <4>2. resume' \in Resume /\ resume'.watch = saved BY <3>2, <4>1 DEF Resumed, Resume
      <4> QED BY <1>4, <4>1, <4>2 DEF ResumeLoads, ResumeAsked, AskedOf
    <3> QED BY <1>4, <3>1, <3>2 DEF ResumeLoads
  <2> QED BY <1>4, <2>1, SameLive, SameCalls, SameSaved DEF ResumeLoads, AskedInv, RegistryTyped
<1>5. CASE ResumeTakes
  <2>1. /\ resume \in Resume /\ resume.watch \in Watch
        /\ AskedOf(resume.watch.conv, resume.watch.inst)
    BY <1>5 DEF ResumeTakes, AskedInv, ResumeAsked
  <2>2. ResumeAsked'
    <3>1. CASE resume' = Resumed BY <3>1, ResumedType DEF ResumeAsked, Waits
    <3>2. CASE resume' = [resume EXCEPT !.pc = "inspect"]
      <4>1. resume' \in Resume /\ resume'.watch = resume.watch BY <2>1, <3>2 DEF Resume
      <4> QED BY <1>5, <2>1, <4>1 DEF ResumeTakes, ResumeAsked, AskedOf
    <3> QED BY <1>5, <3>1, <3>2 DEF ResumeTakes
  <2> QED BY <1>5, <2>2, SameLive, SameCalls, SameSaved DEF ResumeTakes, AskedInv, RegistryTyped
<1>6. CASE ResumeInspected
  <2>1. inst \in Nat /\ resume \in Resume /\ resume.watch \in Watch
        /\ AskedOf(resume.watch.conv, resume.watch.inst)
    BY <1>6 DEF ResumeInspected, AskedInv, RegistryTyped, ResumeAsked, Waits
  <2>2. resume' \in Resume /\ resume'.watch = resume.watch
    BY <1>6, <2>1 DEF ResumeInspected, Resume
  <2>3. ResumeAsked' BY <1>6, <2>1, <2>2 DEF ResumeInspected, ResumeAsked, AskedOf
  <2> QED BY <1>6, <2>3, SameLive, SameCalls, SameSaved DEF ResumeInspected, AskedInv, RegistryTyped
<1>7. CASE ResumeFinished BY <1>7, ResumeFinishedAsked
<1>8. CASE Restart
  <2>1. live' = {} /\ reg' = 0 /\ asked' = asked /\ saved' = saved /\ inst' = inst /\ born' = born
    BY <1>8 DEF Restart
  <2>2. CallsTyped' /\ AnswersAsked'
    BY <1>8, IdleCall DEF Restart, CallsTyped, AnswersAsked, Waits
  <2>3. resume' \in Resume /\ resume'.pc = "start" BY <1>8 DEF Restart, Resumed, Resume
  <2>4. ResumeAsked' BY <2>3 DEF ResumeAsked, Waits
  <2> QED BY <2>1, <2>2, <2>4, SameLive, SameSaved DEF AskedInv, RegistryTyped
<1>9. CASE Killed \/ Created
  BY <1>9, SameLive, SameCalls, SameSaved, SameResume DEF Killed, Created, AskedInv, RegistryTyped
<1> QED BY <1>1, <1>2, <1>3, <1>4, <1>5, <1>6, <1>7, <1>8, <1>9 DEF Next

\* A watch that a restart opens on a session whose instance is known was asked for that
\* instance, however calls, kills and creations interleave (resume_watchers).
THEOREM ResumedWatchWasAsked == Spec => []ResumedWasAsked
<1>1. AskedInv => ResumedWasAsked BY DEF AskedInv
<1> QED BY <1>1, AskedInit, AskedStep, PTL DEF Spec

-----------------------------------------------------------------------------
(* The watch that is saved and the one that runs                           *)

Waiting(k) == call[k].pc \in Waits
Serves(c)  == \E t \in live : t.id = reg /\ t.conv = c

\* SavedIsServed speaks of a state in which nothing runs. What leads there: a call that
\* waits for docker alone has its task in the registry already ...
CallServed ==
  ~astray => \A k \in Calls : Waiting(k) =>
    Serves(call[k].conv) /\ resume.pc \notin Waits /\ \A j \in Calls \ {k} : ~Waiting(j)

\* ... the resume that waits has the file's watch in hand and finds nothing registered,
\* as does one that has yet to come to the session, unless a call has opened a watch ...
ResumeAlone ==
  ~astray =>
    /\ resume.pc \in Waits => reg = 0
    /\ resume.pc \in Waits \/ (resume.pc = "read" /\ reg = 0) =>
         saved # None /\ saved = resume.watch

\* ... with no call waiting the saved watch runs, or the resume has yet to open it ...
SavedServed ==
  ~astray /\ (\A k \in Calls : ~Waiting(k)) =>
    IF saved = None THEN reg = 0
    ELSE Serves(saved.conv) \/ (reg = 0 /\ resume.pc # "done")

\* ... and a call that is not over will bring the descriptions up to date.
Announces(k) == call[k].pc \in Waits \cup {"baseline", "stopping"}
ListedTrue   == ~astray => (listed <=> reg # 0) \/ \E k \in Calls : Announces(k)

AgreeInv == CallServed /\ ResumeAlone /\ SavedServed /\ ListedTrue

\* With the invariants of the two theorems above.
WatchInv == OneTask /\ AskedInv /\ AgreeInv

\* The new task is registered and serves its conversation.
LEMMA RegisterServes ==
  ASSUME NEW c, NEW how, RegisterWatcher(c, how)
  PROVE  Serves(c)' /\ reg' # 0
<1>1. PICK t \in Unused :
        /\ live' = {x \in live : x.id # reg} \cup {[id |-> t, conv |-> c, how |-> how]}
        /\ reg' = t
  BY DEF RegisterWatcher
<1> DEFINE new == [id |-> t, conv |-> c, how |-> how]
<1>2. new \in live' /\ new.id = t /\ new.conv = c BY <1>1
<1>3. t # 0 BY BoundsAssumption DEF Unused, Tasks
<1> HIDE DEF new
<1> QED BY <1>1, <1>2, <1>3 DEF Serves

\* A task that serves is registered.
LEMMA ServesRegistered == ASSUME AskedInv, NEW c, Serves(c) PROVE reg # 0
BY BoundsAssumption DEF AskedInv, RegistryTyped, Task, Tasks, Serves

\* _start_watcher up to docker: alone, or astray.
LEMMA StartAgrees ==
  ASSUME WatchInv, NEW k \in Calls, NEW c \in Convs, Start(k, c), resume' = resume
  PROVE  AgreeInv'
<1> DEFINE n == [Idle EXCEPT !.pc = "inspect", !.conv = c]
<1>1. n.pc = "inspect" /\ n.conv = c BY NewCallType
<1>2. call' = [call EXCEPT ![k] = n] /\ astray' = Others(k) BY DEF Start
<1> HIDE DEF n
<1>3. Serves(c)' /\ reg' # 0 BY RegisterServes DEF Start
<1>4. call'[k] = n /\ \A j \in Calls \ {k} : call'[j] = call[j]
  BY <1>2 DEF WatchInv, AskedInv, CallsTyped
<1>5. ~astray' => resume'.pc \notin Waits /\ \A j \in Calls \ {k} : ~Waiting(j)'
  BY <1>2, <1>4 DEF Others, Waiting
<1>6. Waiting(k)' /\ Announces(k)' BY <1>1, <1>4 DEF Waiting, Announces, Waits
<1>7. CallServed' BY <1>1, <1>3, <1>4, <1>5 DEF CallServed
<1>8. ResumeAlone' /\ SavedServed' BY <1>3, <1>5, <1>6 DEF ResumeAlone, SavedServed
<1>9. ListedTrue' BY <1>6 DEF ListedTrue
<1> QED BY <1>7, <1>8, <1>9 DEF AgreeInv

\* A step of a call that changes its own place, and no one's watch.
LEMMA CallMovesAgrees ==
  ASSUME WatchInv, NEW k \in Calls, NEW n, call' = [call EXCEPT ![k] = n],
         UNCHANGED <<live, reg, resume, saved, listed>>, astray' <=> astray,
         n.pc \in Waits <=> Waiting(k), Waiting(k) => n.conv = call[k].conv,
         Announces(k) => n.pc \in Waits \cup {"baseline", "stopping"}
  PROVE  AgreeInv'
<1>1. call'[k] = n /\ \A j \in Calls \ {k} : call'[j] = call[j]
  BY DEF WatchInv, AskedInv, CallsTyped
<1>2. \A j \in Calls : /\ Waiting(j)' <=> Waiting(j)
                       /\ Waiting(j) => call'[j].conv = call[j].conv
                       /\ Announces(j) => Announces(j)'
  BY <1>1 DEF Waiting, Announces
<1>3. \A c : Serves(c)' <=> Serves(c) BY DEF Serves
<1> HIDE DEF Waiting, Announces, Serves
<1>4. CallServed' BY <1>2, <1>3 DEF WatchInv, AgreeInv, CallServed
<1>5. ResumeAlone' BY DEF WatchInv, AgreeInv, ResumeAlone
<1>6. SavedServed' BY <1>2, <1>3 DEF WatchInv, AgreeInv, SavedServed
<1>7. ListedTrue' BY <1>2 DEF WatchInv, AgreeInv, ListedTrue
<1> QED BY <1>4, <1>5, <1>6, <1>7 DEF AgreeInv

\* The end of a call that announces.
LEMMA AnnounceAgrees ==
  ASSUME WatchInv, NEW k \in Calls, WatchAnnounced(k) \/ UnwatchDone(k)
  PROVE  AgreeInv'
<1>1. /\ ~Waiting(k) /\ call' = [call EXCEPT ![k] = Idle] /\ (listed' <=> reg # 0)
      /\ UNCHANGED <<live, reg, resume, saved, astray>>
  BY DEF WatchAnnounced, UnwatchDone, Waiting, Waits
<1>2. call'[k].pc = "idle" /\ \A j \in Calls \ {k} : call'[j] = call[j]
  BY <1>1, IdleCall DEF WatchInv, AskedInv, CallsTyped
<1>3. \A j \in Calls : /\ Waiting(j)' <=> Waiting(j)
                       /\ Waiting(j) => call'[j].conv = call[j].conv
  BY <1>1, <1>2 DEF Waiting, Waits
<1>4. \A c : Serves(c)' <=> Serves(c) BY <1>1 DEF Serves
<1> HIDE DEF Waiting, Serves
<1>5. CallServed' BY <1>1, <1>3, <1>4 DEF WatchInv, AgreeInv, CallServed
<1>6. ResumeAlone' BY <1>1 DEF WatchInv, AgreeInv, ResumeAlone
<1>7. SavedServed' BY <1>1, <1>3, <1>4 DEF WatchInv, AgreeInv, SavedServed
<1>8. ListedTrue' BY <1>1 DEF ListedTrue
<1> QED BY <1>5, <1>6, <1>7, <1>8 DEF AgreeInv

\* Docker has answered the one call that waits: the file names what its task serves.
LEMMA SavedAgrees ==
  ASSUME WatchInv, NEW k \in Calls, WatchSaved(k)
  PROVE  AgreeInv'
<1> DEFINE n == [Idle EXCEPT !.pc = "baseline"]
<1>1. n.pc = "baseline" BY BaselineCallType
<1>2. call' = [call EXCEPT ![k] = n] /\ UNCHANGED <<live, reg, resume, listed>>
  BY DEF WatchSaved
<1> HIDE DEF n
<1>3. Waiting(k) /\ call[k].conv \in Convs
  BY DEF WatchSaved, Waiting, Waits, WatchInv, AskedInv, CallsTyped
<1>4. call'[k] = n /\ \A j \in Calls \ {k} : call'[j] = call[j]
  BY <1>2 DEF WatchInv, AskedInv, CallsTyped
<1>5. CASE astray' = TRUE
  BY <1>5 DEF AgreeInv, CallServed, ResumeAlone, SavedServed, ListedTrue
<1>6. CASE saved' = [conv |-> call[k].conv, inst |-> call[k].ans] /\ astray' = astray
  <2>1. SUFFICES ASSUME ~astray PROVE AgreeInv'
    BY <1>6 DEF AgreeInv, CallServed, ResumeAlone, SavedServed, ListedTrue
  <2>2. Serves(call[k].conv) /\ resume.pc \notin Waits /\ \A j \in Calls \ {k} : ~Waiting(j)
    BY <1>3, <2>1 DEF WatchInv, AgreeInv, CallServed
  <2>3. \A j \in Calls : ~Waiting(j)' BY <1>1, <1>4, <2>2 DEF Waiting, Waits
  <2>4. saved'.conv = call[k].conv BY <1>6
  <2>5. Serves(saved.conv)' /\ reg' # 0
    BY <1>2, <2>2, <2>4, ServesRegistered DEF Serves, WatchInv
  <2>6. saved' # None
    <3>1. call[k].ans \in Nat BY DEF WatchInv, AskedInv, CallsTyped, Call
    <3> QED BY <1>3, <1>6, <3>1, NoneAssumption
  <2>7. Announces(k)' BY <1>1, <1>4 DEF Announces
  <2> QED BY <1>2, <2>2, <2>3, <2>5, <2>6, <2>7
          DEF AgreeInv, CallServed, ResumeAlone, SavedServed, ListedTrue
<1> QED BY <1>5, <1>6 DEF WatchSaved

\* session_unwatch: alone, or astray.
LEMMA UnwatchAgrees ==
  ASSUME WatchInv, NEW k \in Calls, UnwatchCalled(k)
  PROVE  AgreeInv'
<1> DEFINE n == [Idle EXCEPT !.pc = "stopping", !.task = reg]
<1>1. n.pc = "stopping" BY StoppingCallType DEF WatchInv, AskedInv, RegistryTyped
<1>2. /\ saved' = None /\ reg' = 0 /\ resume' = resume
      /\ astray' = (Others(k) \/ resume.pc = "read")
      /\ call[k] = Idle
      /\ IF reg = 0 THEN listed' = FALSE /\ call' = call
         ELSE call' = [call EXCEPT ![k] = n] /\ listed' = listed
  BY DEF UnwatchCalled
<1> HIDE DEF n
<1>3. \A j \in Calls \ {k} : call'[j] = call[j]
  BY <1>2 DEF WatchInv, AskedInv, CallsTyped
<1>4. reg # 0 => call'[k] = n BY <1>2 DEF WatchInv, AskedInv, CallsTyped
<1>5. ~Waiting(k)'
  <2>1. CASE reg = 0 BY <1>2, <2>1, IdleCall DEF Waiting, Waits
  <2>2. CASE reg # 0 BY <1>1, <1>4, <2>2 DEF Waiting, Waits
  <2> QED BY <2>1, <2>2
<1>6. ~astray' => /\ resume'.pc \notin Waits \cup {"read"}
                  /\ \A j \in Calls : ~Waiting(j)'
  BY <1>2, <1>3, <1>5 DEF Others, Waiting
<1>7. ListedTrue'
  <2>1. CASE reg = 0 BY <1>2, <2>1 DEF ListedTrue
  <2>2. CASE reg # 0
    <3>1. Announces(k)' BY <1>1, <1>4, <2>2 DEF Announces
    <3> QED BY <3>1 DEF ListedTrue
  <2> QED BY <2>1, <2>2
<1>8. CallServed' /\ ResumeAlone' BY <1>6 DEF CallServed, ResumeAlone
<1>9. SavedServed' BY <1>2 DEF SavedServed
<1> QED BY <1>7, <1>8, <1>9 DEF AgreeInv

\* A call that is cancelled while it waits leaves the watch astray.
LEMMA GoneAgrees ==
  ASSUME WatchInv, NEW k \in Calls, ClientGone(k)
  PROVE  AgreeInv'
<1>1. CASE call[k].pc = "check"
  <2>1. ~Waiting(k) /\ ~Announces(k) BY <1>1 DEF Waiting, Announces, Waits
  <2>2. Idle.pc \notin Waits BY IdleCall DEF Waits
  <2>3. call' = [call EXCEPT ![k] = Idle] BY DEF ClientGone
  <2>4. UNCHANGED <<live, reg, resume, saved, listed>> /\ (astray' <=> astray)
    BY <1>1 DEF ClientGone
  <2> QED BY <2>1, <2>2, <2>3, <2>4, CallMovesAgrees
<1>2. CASE call[k].pc # "check"
  <2>1. astray' BY <1>2 DEF ClientGone
  <2> QED BY <2>1 DEF AgreeInv, CallServed, ResumeAlone, SavedServed, ListedTrue
<1> QED BY <1>1, <1>2

LEMMA CallAgrees ==
  ASSUME WatchInv, NEW k \in Calls, CallSteps(k)
  PROVE  AgreeInv'
<1>1. ASSUME NEW c \in Convs, WatchCalled(k, c) PROVE AgreeInv'
  BY <1>1, StartAgrees DEF WatchCalled
<1>2. ASSUME NEW c \in Convs, SendCalled(k, c) PROVE AgreeInv'
  <2> DEFINE n == [Idle EXCEPT !.pc = "check", !.conv = c]
  <2>1. n.pc = "check" BY NewCallType
  <2>2. call' = [call EXCEPT ![k] = n] /\ UNCHANGED <<live, reg, resume, saved, listed, astray>>
    BY <1>2 DEF SendCalled
  <2> HIDE DEF n
  <2>3. ~Waiting(k) /\ ~Announces(k)
    BY <1>2, IdleCall DEF SendCalled, Waiting, Announces, Waits
  <2>4. n.pc \notin Waits BY <2>1 DEF Waits
  <2> QED BY <2>2, <2>3, <2>4, CallMovesAgrees
<1>3. CASE SendChecked(k)
  <2>1. CASE Start(k, call[k].conv)
    <3>1. call[k].conv \in Convs BY <1>3 DEF SendChecked, WatchInv, AskedInv, CallsTyped
    <3> QED BY <1>3, <2>1, <3>1, StartAgrees DEF SendChecked
  <2>2. CASE call' = [call EXCEPT ![k] = Idle] /\ UNCHANGED <<registry, astray>>
    <3>1. UNCHANGED <<live, reg, resume, saved, listed>> /\ (astray' <=> astray)
      BY <1>3, <2>2 DEF SendChecked
    <3>2. ~Waiting(k) /\ ~Announces(k) BY <1>3 DEF SendChecked, Waiting, Announces, Waits
    <3>3. Idle.pc \notin Waits BY IdleCall DEF Waits
    <3>4. call' = [call EXCEPT ![k] = Idle] BY <2>2
    <3> HIDE <2>2
    <3> QED BY <3>1, <3>2, <3>3, <3>4, CallMovesAgrees
  <2> QED BY <1>3, <2>1, <2>2 DEF SendChecked
<1>4. CASE Inspected(k)
  <2>1. PICK a : call' = [call EXCEPT ![k].pc = "answered", ![k].ans = a]
    BY <1>4 DEF Inspected
  <2> DEFINE n == [call[k] EXCEPT !.pc = "answered", !.ans = a]
  <2>2. n.pc = "answered" /\ n.conv = call[k].conv
    BY DEF WatchInv, AskedInv, CallsTyped, Call
  <2>3. call' = [call EXCEPT ![k] = n] BY <2>1 DEF WatchInv, AskedInv, CallsTyped
  <2> HIDE DEF n
  <2>4. UNCHANGED <<live, reg, resume, saved, listed, astray>> BY <1>4 DEF Inspected
  <2>5. Waiting(k) BY <1>4 DEF Inspected, Waiting, Waits
  <2>6. n.pc \in Waits BY <2>2 DEF Waits
  <2> QED BY <2>2, <2>3, <2>4, <2>5, <2>6, CallMovesAgrees
<1>5. CASE WatchSaved(k) BY <1>5, SavedAgrees
<1>6. CASE WatchAnnounced(k) \/ UnwatchDone(k) BY <1>6, AnnounceAgrees
<1>7. CASE ClientGone(k) BY <1>7, GoneAgrees
<1>8. CASE UnwatchCalled(k) BY <1>8, UnwatchAgrees
<1> QED BY <1>1, <1>2, <1>3, <1>4, <1>5, <1>6, <1>7, <1>8 DEF CallSteps

\* The resume acts on the file it read, unless a call has run meanwhile.
LEMMA ResumeAgrees ==
  ASSUME WatchInv, ResumeLoads \/ ResumeTakes \/ ResumeInspected \/ ResumeFinished
  PROVE  AgreeInv'
<1>1. CASE ResumeLoads
  <2>1. resume.pc = "start" /\ UNCHANGED <<live, reg, call, saved, listed, astray>>
    BY <1>1 DEF ResumeLoads
  <2>2. \/ resume'.pc = "done" /\ saved = None
        \/ resume'.pc = "read" /\ resume'.watch = saved /\ saved # None
    BY <1>1 DEF ResumeLoads, Resumed
  <2>3. /\ \A j \in Calls : Waiting(j)' <=> Waiting(j)
        /\ \A j \in Calls : Announces(j)' <=> Announces(j)
    BY <2>1 DEF Waiting, Announces
  <2>4. \A c : (Serves(c)' <=> Serves(c)) /\ (Serves(c) => reg # 0)
    BY <2>1, ServesRegistered DEF Serves, WatchInv
  <2> HIDE DEF Waiting, Serves, Announces
  <2>5. CallServed' BY <2>1, <2>2, <2>3, <2>4 DEF WatchInv, AgreeInv, CallServed, Waits
  <2>6. ResumeAlone' BY <2>1, <2>2 DEF ResumeAlone, Waits
  <2>7. SavedServed' BY <2>1, <2>2, <2>3, <2>4 DEF WatchInv, AgreeInv, SavedServed
  <2>8. ListedTrue' BY <2>1, <2>3 DEF WatchInv, AgreeInv, ListedTrue
  <2> QED BY <2>5, <2>6, <2>7, <2>8 DEF AgreeInv
<1>2. CASE ResumeTakes
  <2>1. resume.pc = "read" /\ UNCHANGED <<live, reg, call, saved, listed, astray>>
    BY <1>2 DEF ResumeTakes
  <2>2. \/ resume'.pc = "done" /\ reg # 0
        \/ resume'.pc = "inspect" /\ resume'.watch = resume.watch /\ reg = 0
    BY <1>2, ResumedType DEF ResumeTakes, WatchInv, AskedInv, ResumeAsked, Resume
  <2>3. /\ \A j \in Calls : Waiting(j)' <=> Waiting(j)
        /\ \A j \in Calls : Announces(j)' <=> Announces(j)
    BY <2>1 DEF Waiting, Announces
  <2>4. \A c : (Serves(c)' <=> Serves(c)) /\ (Serves(c) => reg # 0)
    BY <2>1, ServesRegistered DEF Serves, WatchInv
  <2> HIDE DEF Waiting, Serves, Announces
  <2>5. CallServed' BY <2>1, <2>2, <2>3, <2>4 DEF WatchInv, AgreeInv, CallServed, Waits
  <2>6. ResumeAlone' BY <2>1, <2>2 DEF WatchInv, AgreeInv, ResumeAlone, Waits
  <2>7. SavedServed' BY <2>1, <2>2, <2>3, <2>4 DEF WatchInv, AgreeInv, SavedServed
  <2>8. ListedTrue' BY <2>1, <2>3 DEF WatchInv, AgreeInv, ListedTrue
  <2> QED BY <2>5, <2>6, <2>7, <2>8 DEF AgreeInv
<1>3. CASE ResumeInspected
  <2>1. /\ resume.pc = "inspect" /\ resume'.pc = "answered" /\ resume'.watch = resume.watch
        /\ UNCHANGED <<live, reg, call, saved, listed, astray>>
    BY <1>3 DEF ResumeInspected, WatchInv, AskedInv, ResumeAsked, Resume
  <2>2. /\ \A j \in Calls : Waiting(j)' <=> Waiting(j)
        /\ \A j \in Calls : Announces(j)' <=> Announces(j)
    BY <2>1 DEF Waiting, Announces
  <2>3. \A c : Serves(c)' <=> Serves(c) BY <2>1 DEF Serves
  <2> HIDE DEF Waiting, Serves, Announces
  <2>4. CallServed' BY <2>1, <2>2, <2>3 DEF WatchInv, AgreeInv, CallServed, Waits
  <2>5. ResumeAlone' BY <2>1 DEF WatchInv, AgreeInv, ResumeAlone, Waits
  <2>6. SavedServed' BY <2>1, <2>2, <2>3 DEF WatchInv, AgreeInv, SavedServed
  <2>7. ListedTrue' BY <2>1, <2>2 DEF WatchInv, AgreeInv, ListedTrue
  <2> QED BY <2>4, <2>5, <2>6, <2>7 DEF AgreeInv
<1>4. CASE ResumeFinished
  <2>1. resume.pc \in Waits /\ resume'.pc = "done" /\ call' = call
    BY <1>4, ResumedType DEF ResumeFinished, Waits
  <2>2. SUFFICES ASSUME ~astray' PROVE AgreeInv'
    BY DEF AgreeInv, CallServed, ResumeAlone, SavedServed, ListedTrue
  <2>3. ~astray BY <1>4, <2>2 DEF ResumeFinished
  <2>4. reg = 0 /\ saved # None /\ saved = resume.watch
    BY <2>1, <2>3 DEF WatchInv, AgreeInv, ResumeAlone
  <2>5. \A j \in Calls : ~Waiting(j)'
    BY <2>1, <2>3 DEF WatchInv, AgreeInv, CallServed, Waiting
  <2>6. CallServed' /\ ResumeAlone' BY <2>1, <2>5 DEF CallServed, ResumeAlone, Waits
  <2>7. CASE Drops
    <3>1. saved' = None /\ UNCHANGED <<reg, listed>> BY <1>4, <2>7 DEF ResumeFinished
    <3>2. ListedTrue' BY <2>1, <2>3, <3>1 DEF WatchInv, AgreeInv, ListedTrue, Announces
    <3> QED BY <2>4, <2>6, <3>1, <3>2 DEF AgreeInv, SavedServed
  <2>8. CASE ~Drops
    <3> PICK c : c = saved.conv OBVIOUS
    <3>1. Serves(c)' /\ reg' # 0
      BY <1>4, <2>4, <2>8, RegisterServes DEF ResumeFinished
    <3>2. listed' = TRUE /\ saved' = saved BY <1>4, <2>8 DEF ResumeFinished
    <3>3. Serves(saved.conv)' BY <3>1, <3>2 DEF Serves
    <3> HIDE DEF Serves
    <3>4. SavedServed' BY <2>4, <3>2, <3>3 DEF SavedServed
    <3>5. ListedTrue' BY <3>1, <3>2 DEF ListedTrue
    <3> QED BY <2>6, <3>4, <3>5 DEF AgreeInv
  <2> QED BY <2>7, <2>8
<1> QED BY <1>1, <1>2, <1>3, <1>4

LEMMA AgreeStep == ASSUME WatchInv, [Next]_vars PROVE AgreeInv'
<1> DEFINE Same == UNCHANGED <<live, reg, call, resume, saved, listed, astray>>
<1>1. ASSUME Same PROVE AgreeInv'
  <2>1. \A j \in Calls : (Waiting(j)' <=> Waiting(j)) /\ (Announces(j)' <=> Announces(j))
    BY <1>1 DEF Waiting, Announces
  <2>2. \A c : Serves(c)' <=> Serves(c) BY <1>1 DEF Serves
  <2> HIDE DEF Waiting, Serves, Announces
  <2> QED BY <1>1, <2>1, <2>2
          DEF WatchInv, AgreeInv, CallServed, ResumeAlone, SavedServed, ListedTrue
<1>2. CASE UNCHANGED vars \/ Killed \/ Created BY <1>1, <1>2 DEF Killed, Created
<1>3. ASSUME NEW t \in Tasks, TaskEnded(t) PROVE AgreeInv'
  <2>1. reg' = reg \/ reg = t BY <1>3 DEF TaskEnded
  <2>2. t # 0 /\ t \in dying BY <1>3, BoundsAssumption DEF TaskEnded, Tasks
  <2>3. reg' = reg BY <2>1, <2>2 DEF WatchInv, OneTask, CancelledIsOut
  <2> QED BY <1>1, <1>3, <2>3 DEF TaskEnded
<1>4. CASE Restart
  <2>1. reg' = 0 /\ listed' = FALSE /\ resume'.pc = "start" /\ saved' = saved
    BY <1>4 DEF Restart, Resumed
  <2>2. \A j \in Calls : ~Waiting(j)' BY <1>4, IdleCall DEF Restart, Waiting, Waits
  <2> QED BY <2>1, <2>2
          DEF AgreeInv, CallServed, ResumeAlone, SavedServed, ListedTrue, Waits
<1>5. ASSUME NEW k \in Calls, CallSteps(k) PROVE AgreeInv' BY <1>5, CallAgrees
<1> QED BY <1>2, <1>3, <1>4, <1>5, ResumeAgrees DEF Next

LEMMA AgreeInit == Init => AgreeInv
<1> SUFFICES ASSUME Init PROVE AgreeInv OBVIOUS
<1>1. reg = 0 /\ listed = FALSE /\ resume.pc = "start" /\ saved = None
  BY DEF Init, Resumed
<1>2. \A j \in Calls : ~Waiting(j) BY IdleCall DEF Init, Waiting, Waits
<1> QED BY <1>1, <1>2
        DEF AgreeInv, CallServed, ResumeAlone, SavedServed, ListedTrue, Waits

\* "An open webhook survives a restart": whatever overlapped before, a call that runs alone,
\* and a restart, leave the saved watch, the task that polls and what callers are told in
\* agreement, for any number of calls, kills, creations and restarts (_start_watcher,
\* session_unwatch, resume_watchers).
THEOREM SavedWatchIsServed == Spec => []SavedIsServed
<1>1. Init => WatchInv
  <2>1. Init => OneTask BY DEF Init, OneTask, OneWatcher, CancelledIsOut
  <2> QED BY <2>1, AskedInit, AgreeInit DEF WatchInv
<1>2. WatchInv /\ [Next]_vars => WatchInv'
  BY OneTaskStep, AskedStep, AgreeStep DEF WatchInv
<1>3. WatchInv => SavedIsServed
  <2> SUFFICES ASSUME WatchInv, Quiet, ~astray PROVE Agree BY DEF SavedIsServed
  <2>1. \A k \in Calls : ~Waiting(k) /\ ~Announces(k)
    BY IdleCall DEF Quiet, Waiting, Announces, Waits
  <2>2. listed <=> reg # 0 BY <2>1 DEF WatchInv, AgreeInv, ListedTrue
  <2>3. IF saved = None THEN reg = 0 ELSE Serves(saved.conv)
    BY <2>1 DEF WatchInv, AgreeInv, SavedServed, Quiet
  <2>4. saved # None => reg # 0 BY <2>3, ServesRegistered DEF WatchInv
  <2> QED BY <2>2, <2>3, <2>4 DEF Agree, Serves
<1> QED BY <1>1, <1>2, <1>3, PTL DEF Spec
=============================================================================
