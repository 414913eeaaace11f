------------------------------ MODULE TurnState ------------------------------
(***************************************************************************)
(* Is Claude working? One session, its claude window and its transcript,   *)
(* and the two readers of both (mcp/src/aidc_mcp/tools.py): the send path, *)
(* which pastes a prompt after two free readings (_session_state,          *)
(* _turn_verdict, _paste_reason, _wait_until_free), and the watcher, which *)
(* delivers each completed turn, and a prompt that was stopped before      *)
(* Claude wrote anything (_drain_once_body, _interrupted_before_output).   *)
(*                                                                         *)
(* The readers see a copy of the transcript (mirrored), how long the copy  *)
(* has not changed (quiet, in the steps the code tells apart), and the     *)
(* screen at one moment. Claude, the person and the clock are external.    *)
(***************************************************************************)
EXTENDS Transcript

CONSTANTS
  MaxLines,   \* bound: lines of the transcript
  MaxPastes,  \* bound: prompts the send path has to paste
  Past,       \* does the transcript begin with an exchange that is over?
  Doings,     \* what the person, Claude Code and the host do in this run, see DoingKinds
  Rows,       \* does the status row read as the server expects? the versions to look at
  Faults      \* which rare events the run lets happen, see FaultKinds

\* "peer": messages of other sessions. "notice": a background task ends. "push": Stop
\* hooks push Claude back. "segment": end_turn segments under one prompt. "retry": API
\* errors, some retried. "esc": Esc while Claude writes. The others as they read.
DoingKinds == {"prompt", "peer", "notice", "local", "draft", "ask", "push", "segment",
               "retry", "earlyesc", "esc", "connect", "restart"}

\* "slowhook"  Stop hooks run longer than _STOP_HOOK_WAIT_S, or longer than the settle
\*             window in a transcript with no stop record yet
\* "late"      after a reply or an error that did not end its turn, what ends it comes
\*             later than the settle window
\* "lateprompt" a pasted prompt shows in the transcript later than _ECHO_WAIT_S
\* "silent"    Claude writes nothing for _LOG_STALL_S, and the row is not recognized
\* "samecopy"  two polls of the watcher fall between two copies of the mirror
\* "quickrestart" the server restarts while a pasted prompt is on its way
\* "lateesc"   Esc after a reply or an error that was not the end of its turn
\* "slowpost"  the POST of an Esc's report is not answered before the next prompt is pasted
\* "cutpost"   the server restarts between the record of a reported Esc and the answer to
\*             its POST
\* "merge"     a session message opens a turn where the transcript shows one open, which an
\*             early Esc stopped
\* "unreadable" the copy cannot be read while a prompt waits
\* "undelivered" a session message opens a turn before the watcher delivered the one before
FaultKinds == {"slowhook", "late", "lateprompt", "silent", "quickrestart", "lateesc",
               "slowpost", "cutpost", "merge", "unreadable", "undelivered",
               "samecopy"}

ASSUME TurnStateAssumption ==
  /\ MaxLines \in Nat \ {0} /\ MaxPastes \in Nat /\ Past \in BOOLEAN
  /\ Doings \subseteq DoingKinds /\ Faults \subseteq FaultKinds
  /\ Rows \subseteq BOOLEAN /\ Rows # {}

\* quiet: less than the settle window (4 s), then _LOG_QUIET_S (6 s), _STOP_HOOK_WAIT_S
\* (120 s), _LOG_STALL_S (600 s), and beyond.
Settled == 1
LogQuiet == 2
HooksWaited == 3
Stalled == 4

VARIABLES
  log,       \* the transcript
  claude,    \* "idle", "given" (a paste it has not written yet), "asked" (nothing written),
             \* "working", "between" (ended a reply, will write more), "asking", "hooks"
  opener,    \* the line that opened Claude's turn
  box,       \* the input box: "empty", "draft", "restored" (by an early Esc), "menu"
  row,       \* the status row reads as the server expects
  records,   \* this Claude Code writes stop records
  mirrored,  \* how many lines the copy has
  quiet,     \* how long the copy has not changed
  known,     \* _working_indicator_known, its marker on disk
  reported,  \* _reported_interrupts, its marker on disk
  echo,      \* _sent_awaiting_echo: a paste the transcript has not shown
  send,      \* the send path: st, the screen it captured, its free readings in a row
  since,     \* what had been written at the first of them
  toPaste,   \* prompts to paste
  watched,   \* a watcher is open
  watch,     \* the watcher: st, polls that found a prompt cut off, what it read and when
  anchor,    \* its watermark: the last line delivered
  base,      \* history: the line the watcher connected at
  got,       \* history: the turns delivered
  ended,     \* history: lines that ended a turn of Claude's, with its opener
  went,      \* history: replies and errors Claude went on from, the same way
  escaped,   \* history: prompts Esc stopped before Claude wrote anything
  ran        \* history: the turn running at the first free reading

external  == <<log, claude, opener, box>>
versions  == <<row, records>>
copy      == <<mirrored, quiet>>
markers   == <<known, reported>>
sender    == <<send, since, toPaste, ran>>
watcher   == <<watched, watch, anchor, base, got>>
truth     == <<ended, went, escaped>>
vars == <<external, versions, copy, markers, echo, sender, watcher, truth>>

Copy == SubSeq(log, 1, mirrored)
Suffix == SubSeq(log, anchor + 1, mirrored)  \* objs_after_uuid

Busy == claude # "idle"
\* What the status row shows. Stop hooks may or may not count as work there.
RowShows == IF ~row THEN {FALSE}
            ELSE IF claude = "hooks" THEN BOOLEAN
            ELSE {claude \in {"given", "asked", "working", "between"}}

NoScreen == [working |-> FALSE, box |-> "menu"]
Screens == [working : BOOLEAN, box : {"empty", "draft", "restored", "menu"}]
Waiting(streak) == [st |-> "wait", screen |-> NoScreen, streak |-> streak]
Resting(polls, wrote) ==
  [st |-> "rest", polls |-> polls, wrote |-> wrote, quiet |-> 0, seen |-> 0, cut |-> 0]

TypeOK ==
  /\ log \in Seq(Kinds)
  /\ claude \in {"idle", "given", "asked", "working", "between", "asking", "hooks"}
  /\ opener \in 0 .. Len(log) /\ box \in {"empty", "draft", "restored", "menu"}
  /\ row \in BOOLEAN /\ records \in BOOLEAN
  /\ mirrored \in 0 .. Len(log) /\ quiet \in 0 .. Stalled
  /\ known \in BOOLEAN /\ reported \in 0 .. mirrored /\ echo \in BOOLEAN
  /\ send \in [st : {"wait", "looked"}, screen : Screens, streak : 0 .. 1]
  /\ since \in 0 .. Len(log) /\ toPaste \in 0 .. MaxPastes
  /\ watched \in BOOLEAN /\ anchor \in 0 .. mirrored /\ base \in 0 .. mirrored
  /\ watch.st \in {"rest", "look", "post"} /\ watch.polls \in 0 .. 1
  /\ watch.wrote \in 0 .. Len(log)
  /\ watch.quiet \in 0 .. Stalled /\ watch.seen \in 0 .. mirrored /\ watch.cut \in 0 .. watch.seen
  /\ ran \in 0 .. Len(log) + 1 /\ escaped \subseteq 1 .. Len(log)

Exchange == IF ~Past THEN <<>>
            ELSE IF records THEN <<"prompt", "reply", "duration">>
            ELSE <<"local", "prompt", "reply">>

Init ==
  /\ row \in Rows /\ records \in BOOLEAN
  /\ log = Exchange /\ claude = "idle" /\ box = "empty"
  /\ opener = LastOf(log, {"prompt"})
  /\ mirrored = Len(log) /\ quiet = Stalled
  /\ known = FALSE /\ reported = 0 /\ echo = FALSE
  /\ send = Waiting(0) /\ since = 0 /\ toPaste = MaxPastes /\ ran = 0
  /\ watched = FALSE /\ watch = Resting(0, 0) /\ anchor = 0 /\ base = 0 /\ got = {}
  /\ ended = {<<i, opener>> : i \in {LastOf(log, {"reply"})} \ {0}}
  /\ went = {} /\ escaped = {}

(***************************************************************************)
(* The one rule for "Claude stopped" (_turn_verdict), given a transcript,  *)
(* how long it has been quiet, and a screen.                               *)
(***************************************************************************)
StoppedByScreen == {"prompt_restored", "status_row_idle", "log_stalled"}
TurnIdle == StoppedByScreen \cup {"log_finished", "transcript_none", "interrupt_reported"}

\* The box holds a prompt the transcript shows unanswered. What an early Esc put back is
\* the latest prompt it stopped.
Restored(s, screen) ==
  /\ screen.box = "restored"
  /\ Max({0} \cup escaped) \in UnansweredPrompts(s)

\* A slip: quiet is quiet, whatever the reply still waits for.
NoHold(s, q) == FALSE

HooksMayRun(s, q) == AwaitingHooks(s, s) /\ q < HooksWaited

TurnVerdict(s, q, screen) ==
  IF ~InProgress(s)           THEN "log_finished"
  ELSE IF q < LogQuiet        THEN "log_growing"
  ELSE IF HooksMayRun(s, q)   THEN "stop_hooks_running"
  ELSE IF screen.working      THEN "status_row_working"
  ELSE IF Restored(s, screen) THEN "prompt_restored"
  ELSE IF known               THEN "status_row_idle"
  ELSE IF q >= Stalled        THEN "log_stalled"
  ELSE                             "status_row_unproven"

(***************************************************************************)
(* The send path.                                                          *)
(***************************************************************************)
\* _prompt_arrived: the copy shows the prompt pasted last.
Arrived == claude # "given" /\ opener <= mirrored

\* A slip: only a prompt back in the box is an interrupt.
OnlyRestored(cut, why) == cut # 0 /\ watched /\ why = "prompt_restored"

\* A slip: it waits for a report where nobody watches.
WaitsUnwatched(cut, why) == cut # 0 /\ why \in StoppedByScreen

\* A prompt was stopped before Claude wrote anything, and the watcher is to report it.
ReportDue(cut, why) == cut # 0 /\ watched /\ why \in StoppedByScreen

\* _session_state: the evidence for the turn's state.
Why(screen) ==
  LET cut == Unanswered(Copy)
      why == TurnVerdict(Copy, quiet, screen)
  IN  IF echo /\ ~Arrived        THEN "sent_prompt_not_in_log"
      ELSE IF mirrored = 0       THEN "transcript_none"
      ELSE IF cut # 0 /\ ~screen.working /\ reported = cut
                                 THEN "interrupt_reported"
      ELSE IF ReportDue(cut, why) THEN "interrupt_not_reported_yet"
      ELSE why

\* _paste_reason: may a prompt be pasted?
MayPaste(screen) == screen.box = "empty" /\ Why(screen) \in TurnIdle

\* Where the copy cannot be read the screen alone decides (transcript_unreadable), unless a
\* pasted prompt is still waited for.
FreeUnread(screen) == "unreadable" \in Faults /\ ~echo /\ screen.box = "empty"
Free(screen) == MayPaste(screen) \/ FreeUnread(screen)

\* What Claude works on, named after the line that gave it to Claude: the turn's opener, or
\* the answer to a question of it.
Current == IF claude = "given" THEN Len(log) + 1
           ELSE Max({opener, LastOf(log, {"result"})})

\* What a reading cannot show: that more will follow an error, or, while the copy holds no
\* stop record, a reply (awaiting_stop_hooks); a question put after the screen was captured.
Unseen == /\ claude # "given" /\ opener < mirrored
          /\ \/ log[mirrored] \in {"error", "ask"}
             \/ log[mirrored] = "reply" /\ ~HasStopRecords(Copy)

\* A reading captures the screen. The second is a poll later, past the copy's interval.
SendLook ==
  /\ toPaste > 0 /\ send.st = "wait"
  /\ send.streak = 1 => mirrored >= since
  /\ \E w \in RowShows :
       /\ send' = [send EXCEPT !.st = "looked", !.screen = [working |-> w, box |-> box]]
       /\ known' = (known \/ w)
  /\ IF send.streak = 0
       THEN since' = Len(log) /\ ran' = (IF Busy /\ ~Unseen THEN Current ELSE 0)
       ELSE UNCHANGED <<since, ran>>
  /\ UNCHANGED <<external, versions, copy, reported, echo, toPaste, watcher, truth>>

Over == send' = Waiting(0) /\ since' = 0 /\ ran' = 0

\* Then it reads the copy. After two free readings in a row the prompt is pasted.
NotFree ==
  /\ ~MayPaste(send.screen)
  /\ Over
  /\ UNCHANGED <<external, toPaste>>

FreeOnce ==
  /\ Free(send.screen) /\ send.streak = 0
  /\ send' = Waiting(1)
  /\ UNCHANGED <<external, since, ran, toPaste>>

SendRead ==
  /\ send.st = "looked"
  /\ NotFree \/ FreeOnce
  /\ echo' = (echo /\ ~Arrived)
  /\ UNCHANGED <<versions, copy, markers, watcher, truth>>

\* _inject. Pasted while Claude works, a prompt is held and taken into the turn; the
\* transcript shows that at once.
Paste ==
  /\ send.st = "looked" /\ send.streak = 1
  /\ Free(send.screen)
  /\ watch.cut = 0 \/ "slowpost" \in Faults
  /\ Over
  /\ toPaste' = toPaste - 1
  /\ claude' = (IF Busy THEN claude ELSE "given")
  /\ box' = (IF box = "menu" THEN box ELSE "empty")
  /\ echo' = ~Busy
  /\ UNCHANGED <<log, opener, versions, copy, markers, watcher, truth>>

\* _watch_for_echo: the prompt showed, or _ECHO_WAIT_S have passed.
EchoEnds ==
  /\ echo
  /\ Arrived \/ "lateprompt" \in Faults
  /\ echo' = FALSE
  /\ UNCHANGED <<external, versions, copy, markers, sender, watcher, truth>>

(***************************************************************************)
(* The watcher.                                                            *)
(***************************************************************************)
\* _baseline_watermark: what is complete is history.
Connect ==
  /\ "connect" \in Doings /\ ~watched
  /\ watched' = TRUE
  /\ anchor' = LastAnchor(CompletedTurns(Copy, 1), 0)
  /\ base' = anchor'
  /\ UNCHANGED <<external, versions, copy, markers, echo, sender, watch, got, truth>>

\* A slip: one window for every tail.
OneWindow == EndsOnTurnEnd(Suffix) \/ quiet >= Settled

\* The settle gate: the copy has held steady long enough, or ends on the record of a
\* turn's end.
SettleGate ==
  \/ EndsOnTurnEnd(Suffix)
  \/ quiet >= (IF AwaitingHooks(Suffix, Copy) THEN HooksWaited ELSE Settled)

\* What a pass finds in the lines it has read.
Read == SubSeq(log, 1, watch.seen)
NewTurns == CompletedTurns(Read, anchor + 1)
CutOffAfter(s) == IF Unanswered(s) > anchor THEN Unanswered(s) ELSE 0

\* Until a turn was seen with the working text on screen, a poll looks for it.
Learn == IF InProgress(Suffix) THEN \E w \in RowShows : known' = (known \/ w)
         ELSE UNCHANGED known

\* A prompt that may have been cut off is checked on the screen next; otherwise what is
\* complete is delivered.
MayBeCutOff == CutOffAfter(Copy) # 0 /\ quiet >= LogQuiet

WatchRead ==
  /\ watched /\ watch.st = "rest" /\ SettleGate
  /\ mirrored >= watch.wrote \/ "samecopy" \in Faults
  /\ MayBeCutOff \/ watch.polls # 0 \/ CompletedTurns(Copy, anchor + 1) # <<>> \/ ~known
  /\ Learn
  /\ watch' = [Resting(IF MayBeCutOff THEN watch.polls ELSE 0, 0) EXCEPT
                 !.st = IF MayBeCutOff THEN "look" ELSE "post",
                 !.quiet = quiet, !.seen = mirrored]
  /\ UNCHANGED <<external, versions, copy, reported, echo, sender, watched, anchor, base,
                 got, truth>>

\* A slip: only a box with the prompt back in it is Claude's input box.
RestoredOnly(screen) == IF screen.box # "restored" THEN "not_at_its_box"
                        ELSE TurnVerdict(Read, watch.quiet, screen)

\* _interrupted_before_output: stopped, on two polls in a row, with Claude at its input
\* box. The transcript was read, and quiet taken, before the screen.
Verdict(screen) == IF screen.box = "menu" THEN "not_at_its_box"
                   ELSE TurnVerdict(Read, watch.quiet, screen)

\* A slip: one reading is enough.
AtOnce(why) == why \in StoppedByScreen

Confirms(why) == why \in StoppedByScreen /\ watch.polls = 1

\* A slip: the count is kept after the report.
StillCounting(why) == IF why \in StoppedByScreen THEN watch.polls + 1 ELSE 0

\* _unanswered_polls: a reading that proves nothing leaves the count as it is.
PollsAfter(why) ==
  IF why \in StoppedByScreen THEN IF Confirms(why) THEN 0 ELSE 1
  ELSE IF why = "status_row_unproven" THEN watch.polls ELSE 0

WatchLook ==
  /\ watch.st = "look"
  /\ \E w \in RowShows :
       LET why == Verdict([working |-> w, box |-> box])
       IN  /\ watch' = [watch EXCEPT
                          !.st = "post",
                          !.polls = PollsAfter(why),
                          !.wrote = IF PollsAfter(why) = 0 THEN 0 ELSE Len(log),
                          !.cut = IF Confirms(why) THEN CutOffAfter(Read) ELSE 0]
           /\ reported' = (IF Confirms(why) THEN CutOffAfter(Read) ELSE reported)
  /\ UNCHANGED <<external, versions, copy, known, echo, sender, watched, anchor, base, got,
                 truth>>

\* Every turn is posted and the watermark moves past it, a prompt cut off last.
CutTurn == [anchor |-> watch.cut, text |-> {}, ok |-> TRUE, cut |-> TRUE,
            prompts |-> {p \in UnansweredPrompts(Read) : p > anchor}]
Outgoing == IF watch.cut = 0 THEN NewTurns ELSE Append(NewTurns, CutTurn)

WatchPost ==
  /\ watch.st = "post"
  /\ got' = got \cup {Outgoing[i] : i \in DOMAIN Outgoing}
  /\ anchor' = LastAnchor(Outgoing, anchor)
  /\ watch' = Resting(watch.polls, watch.wrote)
  /\ UNCHANGED <<external, versions, copy, markers, echo, sender, watched, base, truth>>

\* The server forgets what it keeps in memory only.
Restart ==
  /\ "restart" \in Doings
  /\ claude # "given" \/ "quickrestart" \in Faults
  /\ watch.cut = 0 \/ "cutpost" \in Faults
  /\ Over
  /\ watch' = Resting(0, 0) /\ echo' = FALSE
  /\ UNCHANGED <<external, versions, copy, markers, toPaste, watched, anchor, base, got,
                 truth>>

(***************************************************************************)
(* Claude Code, the person, the mirror and the clock.                      *)
(***************************************************************************)
Room == Len(log) < MaxLines
Says(kinds) == log' = log \o kinds
Here == Len(log) + 1

\* Claude goes on after a reply or an error that did not end its turn.
Resumed == /\ claude \in {"between", "working"}
           /\ \E i \in opener + 1 .. Len(log) :
                /\ log[i] \in {"reply", "error"}
                /\ \A j \in i .. Len(log) : log[j] \notin {"feedback", "ask"}

\* A turn opens: typed or pasted at the box, raised by Claude Code, sent by a session.
Opens(kind) ==
  /\ Says(<<kind>>) /\ opener' = Here /\ claude' = "asked"
  /\ UNCHANGED <<versions, copy, markers, echo, sender, watcher, truth>>

Prompted ==
  /\ "prompt" \in Doings /\ Room
  /\ claude = "idle" /\ box # "menu"
  /\ Opens("prompt") /\ box' = "empty"

PasteShows ==
  /\ claude = "given"
  /\ Opens("prompt") /\ UNCHANGED box

\* No reader takes a message for the end of what came before it: of a turn the transcript
\* shows open, or, to a pass of the watcher, of what it has not delivered.
Merges == InProgress(log)
Undelivered ==
  LET g == Pass(log, anchor + 1)[Len(log)].group IN g.saw \/ g.prompts # {}

Notified ==
  /\ claude = "idle" /\ Room
  /\ \/ "notice" \in Doings /\ Opens("notice")
     \/ /\ "peer" \in Doings
        /\ Merges => "merge" \in Faults
        /\ Undelivered => "undelivered" \in Faults
        /\ Opens("peer")
  /\ UNCHANGED box

\* A message for a running turn goes in at a tool boundary. A local command opens none.
Handed ==
  /\ Room
  /\ \/ "peer" \in Doings /\ claude = "working" /\ Last(log) = "work" /\ Says(<<"peer">>)
     \/ "local" \in Doings /\ claude = "idle" /\ box = "empty" /\ Says(<<"local">>)
  /\ UNCHANGED <<claude, opener, box, versions, copy, markers, echo, sender, watcher, truth>>

Drafts ==
  /\ "draft" \in Doings /\ claude # "asking"
  /\ box' \in {"empty", "draft"} \ {box}
  /\ UNCHANGED <<log, claude, opener, versions, copy, markers, echo, sender, watcher, truth>>

Writes(kind, next) ==
  /\ Room /\ Says(<<kind>>) /\ claude' = next
  /\ UNCHANGED <<opener, versions, copy, markers, echo, sender, watcher>>

Works ==
  /\ claude \in {"asked", "working", "between"}
  /\ Writes("work", "working") /\ UNCHANGED <<box, truth>>

GoesOn == went' = went \cup {<<Here, opener>>} /\ UNCHANGED ended

Segment ==
  /\ claude \in {"asked", "working"} /\ "segment" \in Doings
  /\ Writes("reply", "between") /\ GoesOn /\ UNCHANGED <<box, escaped>>

Replies ==
  /\ claude \in {"asked", "working", "between"}
  /\ Writes("reply", "hooks") /\ UNCHANGED <<box, truth>>

Asks ==
  /\ claude \in {"asked", "working"} /\ "ask" \in Doings
  /\ Writes("ask", "asking") /\ box' = "menu"
  /\ ended' = ended \cup {<<Here, opener>>} /\ UNCHANGED <<went, escaped>>

Answered ==
  /\ claude = "asking" /\ Writes("result", "working")
  /\ box' = "empty" /\ UNCHANGED truth

Fails ==
  /\ claude \in {"asked", "working"} /\ "retry" \in Doings
  /\ \/ Writes("error", "idle") /\ ended' = ended \cup {<<Here, opener>>} /\ UNCHANGED went
     \/ Writes("error", "between") /\ GoesOn
  /\ UNCHANGED <<box, escaped>>

\* The Stop hooks end: Claude stops, writing a record or (an older version) none; or it
\* is pushed back.
HooksAllow ==
  /\ claude = "hooks" /\ claude' = "idle"
  /\ IF records THEN \E r \in StopRecords : Says(<<r>>) ELSE UNCHANGED log
  /\ ended' = ended \cup {<<LastOf(log, {"reply"}), opener>>}
  /\ UNCHANGED <<opener, box, versions, copy, markers, echo, sender, watcher, went, escaped>>

HooksPush ==
  /\ claude = "hooks" /\ "push" \in Doings
  /\ Writes("feedback", "working") /\ UNCHANGED <<box, truth>>

\* Esc before Claude wrote anything leaves no line, and puts a prompt back.
EarlyEsc ==
  /\ "earlyesc" \in Doings /\ claude = "asked" /\ claude' = "idle"
  /\ IF log[opener] = "prompt"
       THEN box' = "restored" /\ escaped' = escaped \cup {opener}
       ELSE UNCHANGED <<box, escaped>>
  /\ UNCHANGED <<log, opener, versions, copy, markers, echo, sender, watcher, ended, went>>

Esc ==
  /\ "esc" \in Doings /\ claude \in {"working", "between", "asking"}
  /\ Resumed => "lateesc" \in Faults
  /\ Writes("interrupt", "idle")
  /\ box' = (IF box = "menu" THEN "empty" ELSE box)
  /\ ended' = ended \cup {<<Here, opener>>} /\ UNCHANGED <<went, escaped>>

Mirror ==
  /\ mirrored < Len(log)
  /\ mirrored' = Len(log) /\ quiet' = 0
  /\ UNCHANGED <<external, versions, markers, echo, sender, watcher, truth>>

\* Time passes, in steps longer than a reading and than the copy's interval. The two
\* readings are closer than the first steps together; the watcher polls within each.
MayBeQuiet(q) ==
  /\ claude = "hooks" /\ "slowhook" \notin Faults =>
       q < (IF HasStopRecords(log) THEN HooksWaited ELSE Settled)
  /\ Resumed /\ "late" \notin Faults => q < Settled
  /\ Busy /\ claude # "asking" /\ ~row /\ "silent" \notin Faults => q < Stalled

NoReading == send.st = "wait" /\ watch.st # "look"

Tick ==
  /\ quiet < Stalled /\ mirrored = Len(log)
  /\ NoReading
  /\ send.streak = 1 => quiet >= Settled
  /\ watched /\ quiet = Settled /\ SettleGate => watch.polls = 0
  /\ MayBeQuiet(quiet + 1)
  /\ quiet' = quiet + 1
  /\ UNCHANGED <<external, versions, mirrored, markers, echo, sender, watcher, truth>>

SendStep == SendLook \/ SendRead \/ Paste
WatchStep == WatchRead \/ WatchLook \/ WatchPost
Server == SendStep \/ EchoEnds \/ Connect \/ WatchStep \/ Restart
Claude == PasteShows \/ Works \/ Segment \/ Replies \/ Asks \/ Fails \/ HooksAllow \/ HooksPush
Person == Prompted \/ Drafts \/ Answered \/ EarlyEsc \/ Esc
Next == Server \/ Claude \/ Person \/ Notified \/ Handed \/ Mirror \/ Tick

Spec == Init /\ [][Next]_vars

\* The send path and the watcher poll, the mirror copies, time passes. A reading takes a
\* fraction of its poll: again and again neither is at one, and then time must not be put
\* off for ever.
Fairness ==
  /\ WF_vars(SendStep) /\ WF_vars(WatchStep) /\ WF_vars(Mirror)
  /\ SF_vars(Tick) /\ []<>NoReading

LiveSpec == Spec /\ Fairness

-----------------------------------------------------------------------------
(* Properties *)

\* A prompt is never pasted into a turn that was running at the first of the two free
\* readings (_wait_until_free, design-10 S1), however the copy of the transcript lags and
\* whatever the status row is called. What the transcript cannot show is left out.
Pastes == toPaste' < toPaste
NeverIntoRunningTurn == [][Pastes => ~(Busy /\ ran = Current) \/ Unseen]_vars

\* While a watcher is open, a prompt Esc stopped before Claude wrote anything is reported
\* before the next prompt is pasted (interrupt_not_reported_yet): the report was posted,
\* not only recorded as reported, which the code does first.
UnreportedEsc == /\ Unanswered(log) \in escaped /\ Unanswered(log) <= since
                 /\ \A t \in got : t.anchor # Unanswered(log)
EscReportedFirst == [][Pastes => ~(watched /\ ~Busy /\ UnreportedEsc)]_vars

\* Only a prompt that Esc really stopped is reported as stopped, although the screen it
\* is judged by is younger than the transcript (_interrupted_before_output).
ReportTrue == reported # 0 => reported \in escaped

\* A turn is delivered only when it had ended, never while Stop hooks might push it back
\* (_drain_once_body, the settle gate). What Claude goes on from by itself, a segment or
\* an error it retries, only the settle window tells from an end.
DeliveredMeansEnded ==
  \A t \in got :
    \/ t.anchor \in escaped
    \/ \E o \in 1 .. Len(log) : <<t.anchor, o>> \in ended
    \/ "late" \in Faults /\ \E o \in 1 .. Len(log) : <<t.anchor, o>> \in went

\* The text of a reply is delivered in one turn only.
TextOnce == \A t, u \in got : t # u => t.text \cap u.text = {}

\* Nothing Claude wrote is passed over: what lies behind the watermark went out with some
\* turn, an error that was retried excepted (extract_completed_turns).
TextNeverSkipped ==
  \A i \in base + 1 .. anchor :
    log[i] \in Assistant =>
      \/ \E t \in got : i \in t.text
      \/ log[i] = "error" /\ \A o \in 0 .. Len(log) : <<i, o>> \notin ended

\* A turn names the prompt that opened it, and before that one only prompts that Esc
\* stopped while nothing had come of them, which the code lets accumulate. No prompt is
\* named by two turns (Turn.prompts, which decides whose prompt a reply is said to answer).
PromptsTruthful ==
  /\ \A t \in got : t.prompts # {} =>
       LET last == Max(t.prompts)
       IN  /\ t.prompts \ {last} \subseteq escaped
           /\ \/ t.anchor = last /\ last \in escaped
              \/ <<t.anchor, last>> \in ended \cup went
  /\ \A t, u \in got : t # u => t.prompts \cap u.prompts = {}

\* The line said to have opened the turn in progress did (open_turn).
OpenerNamed == OpenTurn(log) # 0 /\ Busy => OpenTurn(log) = opener

\* Once Claude rests at an empty box for good, every prompt goes in.
FreeInTheEnd == <>[](claude = "idle" /\ box = "empty") => <>(toPaste = 0)

\* Once Claude rests for good with a watcher open, everything it wrote is delivered, and
\* a prompt Esc stopped is reported.
AllTold ==
  /\ \A i \in base + 1 .. Len(log) : log[i] \in {"work", "reply", "ask"} =>
       \E t \in got : i \in t.text
  /\ Unanswered(log) \in escaped /\ Unanswered(log) > base => Unanswered(log) = anchor
AllToldInTheEnd == <>[](claude = "idle" /\ watched /\ box # "menu") => <>[]AllTold
=============================================================================
