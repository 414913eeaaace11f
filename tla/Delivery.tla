------------------------------ MODULE Delivery ------------------------------
(***************************************************************************)
(* Delivery of a session's replies to the conversation that watches it     *)
(* (mcp/src/aidc_mcp/tools.py and transcript.py): the transcript watcher   *)
(* and its POSTs, the durable watermark and delivery ledger, session_watch,*)
(* session_unwatch, session_resend and the resume after a restart.         *)
(*                                                                         *)
(* One session, one conversation. A turn is the number of its completion,  *)
(* which is also the time of its line in the transcript, and "now" is the  *)
(* number of turns completed. Claude writes a new transcript file each     *)
(* time it starts. An action is the code between two awaits.               *)
(***************************************************************************)
EXTENDS Integers, FiniteSets

CONSTANTS
  Texts,       \* what a turn may say; two turns may say the same
  Empty,       \* the text of a turn with nothing to deliver
  Cap,         \* _LOOP_GUARD_MAX_CONSECUTIVE
  Backstop,    \* _LOOP_GUARD_BACKSTOP
  TornCap,     \* _TORN_READ_RECOVER_POLLS
  StaleCap,    \* _STALE_PIN_RECOVER_POLLS
  MaxTurns, MaxFiles,   \* bounds: turns completed, starts of Claude
  MaxCalls,    \* bound: session_watch, session_unwatch and session_resend calls
  MaxCrashes,  \* bound: restarts of the server
  MaxTears,    \* bound: reads in a row of a transcript that is being rewritten
  MaxMoves,    \* bound: refused replies, lost lines, idle gaps
  Faults       \* which rare events the run lets happen, see FaultKinds

\* "cut"        a server that stops during a POST or a session_watch, or any stop
\*              of the watcher between the arrival of a POST and its answer
\* "acklost"    a POST arrives and its answer does not
\* "resendrace" session_resend while the watcher is delivering the same text
\* "slowdocker" docker takes longer than a poll to answer a session_watch
\* "cancelcall" the client cancels a session_watch that is running
\* "tornread"   a baseline, or a poll without an anchor that is still in a file,
\*              reads a transcript that is being rewritten
\* "carried"    a poll reads a transcript that is being rewritten while the watcher still
\*              counts polls from before its mark last moved
\* "latelose"   a transcript loses lines while replies in it are undelivered
\* "quickstart" Claude starts again before the watcher has followed to the
\*              transcript of its last start
FaultKinds ==
  {"cut", "acklost", "resendrace", "slowdocker", "cancelcall", "tornread", "carried",
   "latelose", "quickstart"}

Turns == 1..MaxTurns
Files == 1..MaxFiles

ASSUME BoundsAssumption ==
  /\ Cap \in Nat /\ Backstop \in Nat /\ TornCap \in Nat \ {0} /\ StaleCap \in Nat \ {0}
  /\ MaxTurns \in Nat /\ MaxFiles \in Nat /\ MaxCalls \in Nat /\ MaxCrashes \in Nat
  /\ MaxTears \in Nat /\ MaxMoves \in Nat /\ Faults \subseteq FaultKinds

VARIABLES
  \* the session's transcripts
  done,    \* turns completed
  src,     \* the file a turn is in
  text,    \* its reply
  by,      \* who prompted it: "mcp" or "person"
  lost,    \* turns whose lines a file no longer has
  files,   \* the transcripts that exist
  \* files of the server
  mark,    \* the watermark; base = NoMark while none was ever saved, old when its last
           \* delivery was more than _LOOP_GUARD_IDLE_RESET_S ago
  ledger,  \* the texts confirmed delivered
  sent,    \* the turns whose prompt still has its record in sent-prompts.json
  watch,   \* <session>.watch.json exists
  dead,    \* the turns in the dead-letter dir
  \* memory of the server
  wpc,     \* the watcher: "off", "sleep", "read", "deliver", "post", "answer"
  wm,      \* its watermark in memory
  todo,    \* the turns its pass has yet to deliver
  fps,     \* the ledger as its pass loaded it
  origin,  \* whose prompt the turn it posts is said to answer
  torn, stale,  \* _torn_read_counts, _consumed_idle_counts
  call,    \* a session_watch: "idle" or "inspect"
  rs,      \* a session_resend: "idle", "post", "answer"
  rt,      \* the turn it resends
  \* history, read only by the properties, the faults and the bounds
  got,     \* how often the conversation received a text
  since,   \* the time of the last session_watch that returned
  streak,  \* replies to the server's prompts received in an unbroken run, which a person's
           \* prompt, a long idle gap or a turn back from the dead-letter dir breaks
  carried, \* torn or stale counts polls from before the mark last moved
  calls, crashes, tears, moves

transcripts == <<done, src, text, by, lost, files>>
disk        == <<mark, ledger, sent, watch, dead>>
watcher     == <<wpc, wm, todo, fps, origin>>
counts      == <<torn, stale, carried>>
others      == <<call, rs, rt>>
history     == <<got, since, streak>>
bounds      == <<calls, crashes, tears, moves>>
vars == <<transcripts, disk, watcher, counts, others, history, bounds>>

NoMark == -1
Blank  == [file |-> 0, last |-> 0, upd |-> 0, base |-> NoMark, run |-> 0, all |-> 0,
           old |-> TRUE]
Disturb == moves < MaxMoves /\ moves' = moves + 1 /\ UNCHANGED <<calls, crashes, tears>>
Call    == calls < MaxCalls /\ calls' = calls + 1 /\ UNCHANGED <<crashes, tears, moves>>

-----------------------------------------------------------------------------
(* Reading transcripts.                                                    *)

MaxOf(S)      == CHOOSE x \in S : \A y \in S : y <= x
MinOf(S)      == CHOOSE x \in S : \A y \in S : x <= y
Latest(i, j)  == IF i < j THEN j ELSE i

\* A read of file f that gets as far as time k finds the turns View(f, k) complete,
\* and lines of the times Times(f, k), for a turn that is lost leaves others.
Times(f, k) == {t \in 1..k : src[t] = f}
View(f, k)  == Times(f, k) \ lost
Lines(f)    == View(f, done)

\* read_transcript: the whole file, or a part of it while it is being rewritten, which
\* is also what a poll has that waits for the screen or for the other transcripts.
Whole(k)   == k = done /\ tears' = 0
Torn(f, k) == k < done /\ Times(f, k) # Times(f, done) /\ tears < MaxTears /\ tears' = tears + 1

\* resolve_active_transcript: the pinned file as long as it exists, else the one
\* touched last, which may be any of them, as a copy touches a file too.
Active(pin) == IF pin \in files THEN {pin} ELSE files

\* objs_after_uuid finds its anchor, and what comes after it.
Resolves(view, last) == last = 0 \/ last \in view
After(view, last)    == {t \in view : t > last}

\* seen_until, with the times of the transcript that is left ({} for none).
SeenUntil(times, m) == Latest(IF times = {} THEN m.upd ELSE MaxOf(times), m.base)

\* A slip: a new transcript is followed from its end.
AnchorAtEnd(view, seen) == MaxOf(view \cup {0})

\* resume_anchor_on_new_transcript: the last line written no later than seen.
Anchor(view, seen) == MaxOf({t \in view : t <= seen} \cup {0})

Deliverable(t) == text[t] # Empty

-----------------------------------------------------------------------------
(* The watermark.                                                          *)

\* save_watermark, which stamps it.
Stamp(m) == [m EXCEPT !.upd = done]

\* A slip: a connect starts the loop guard's counts anew.
CarriedFresh == [mark EXCEPT !.run = 0, !.all = 0]

\* The mark a baseline starts from: the saved one, with its loop-guard counts.
Carried == mark

\* A slip: the mark a connect finds is where it resumes.
BaselineResumes(f, view) ==
  IF mark.file = f /\ mark.last # 0 THEN mark
  ELSE [Carried EXCEPT !.file = f, !.last = MaxOf(view \cup {0}), !.base = done]

\* _baseline_watermark, reading file f as view: anchor at its last completed turn,
\* unless the anchor it has in this very file is not in the view.
BaselineAt(f, view) ==
  LET m == [Carried EXCEPT !.base = done] IN
  IF m.file = f /\ ~Resolves(view, m.last) THEN m
  ELSE [m EXCEPT !.file = f, !.last = MaxOf(view \cup {0})]

\* The counts after a step that moves the mark, or does not.
CarryOver(moved) == carried' = ((carried \/ moved) /\ (torn' # 0 \/ stale' # 0))

Baseline ==
  /\ UNCHANGED <<torn, stale>> /\ CarryOver(TRUE)
  /\ IF files = {} THEN mark' = Stamp([Carried EXCEPT !.base = done]) /\ UNCHANGED tears
     ELSE \E f \in Active(mark.file), k \in 0..done :
            /\ mark' = Stamp(BaselineAt(f, View(f, k)))
            /\ Whole(k) \/ ("tornread" \in Faults /\ Torn(f, k))

-----------------------------------------------------------------------------
(* One poll of the watcher: _drain_once_body up to its first POST.         *)

\* The first poll comes one interval after the watcher was registered, by when
\* docker has answered the session_watch that registered it.
Polls == wpc = "sleep" /\ (call = "idle" \/ "slowdocker" \in Faults)

\* The poll reads the file its mark is pinned to, or the first there is.
Reads(f, k) ==
  /\ Polls /\ mark.base # NoMark
  /\ f \in Active(mark.file) /\ mark.file \in {0, f}
  /\ \/ Whole(k)
     \/ /\ mark.last \notin lost \cup {0} \/ "tornread" \in Faults
        /\ ~carried \/ "carried" \in Faults
        /\ Torn(f, k)

\* The mark as the poll uses it: a first transcript is pinned, and that saved.
Pinned(f) == IF mark.file = 0 THEN Stamp([mark EXCEPT !.file = f]) ELSE mark

PollUnmarked ==
  /\ Polls /\ mark.base = NoMark /\ Baseline
  /\ UNCHANGED <<transcripts, ledger, sent, watch, dead, watcher, others, history, calls,
                 crashes, moves>>

\* The pinned file is gone: follow to another from the last save on.
PollVanished ==
  /\ Polls /\ mark.base # NoMark /\ mark.file \notin files \cup {0}
  /\ \E f \in files :
       mark' = Stamp([mark EXCEPT !.file = f, !.last = Anchor(Lines(f), SeenUntil({}, mark))])
  /\ UNCHANGED <<torn, stale>> /\ CarryOver(TRUE)
  /\ UNCHANGED <<transcripts, ledger, sent, watch, dead, watcher, others, history, bounds>>

\* A slip: a lost anchor is waited for without end.
TornForGoodNever(n) == FALSE

\* The anchor has been missing for long enough to be lost for good.
TornForGood(n) == n >= TornCap

\* Undelivered replies in the file that is left.
Left(view, m) ==
  {t \in After(view, Anchor(view, SeenUntil({}, m))) : Deliverable(t) /\ text[t] \notin ledger}

\* The anchor is not in the file. If it is lost for good, re-anchor in this file when
\* it has replies left, else follow to the file touched last.
PollTorn ==
  \E f \in files, k \in 0..done :
    LET m == Pinned(f)
        view == View(f, k)
        n == IF torn < TornCap THEN torn + 1 ELSE torn
    IN
    /\ Reads(f, k) /\ ~Resolves(view, m.last)
    /\ \/ ~TornForGood(n) /\ torn' = n /\ mark' = m
       \/ /\ TornForGood(n) /\ Left(view, m) # {} /\ torn' = 0
          /\ mark' = Stamp([m EXCEPT !.last = Anchor(view, SeenUntil({}, m))])
       \/ /\ TornForGood(n) /\ Left(view, m) = {}
          /\ \E g \in files :
               IF g = f THEN torn' = n /\ mark' = m
               ELSE /\ torn' = 0
                    /\ mark' = Stamp([m EXCEPT !.file = g,
                                        !.last = Anchor(Lines(g), SeenUntil(Times(f, k), m))])
    /\ UNCHANGED stale /\ CarryOver(mark' # m)
    /\ UNCHANGED <<transcripts, ledger, sent, watch, dead, watcher, others, history, calls,
                   crashes, moves>>

\* The other file with the newest line of all, if that is newer than the read's.
Newer(f, k) ==
  LET rest == UNION {Times(g, done) : g \in files \ {f}} IN
  {g \in files \ {f} : \E t \in Times(g, done) : \A u \in rest \cup Times(f, k) : u <= t}

\* Nothing new: _rotate_if_stale_pin follows to a file that is newer for long enough.
PollIdle ==
  \E f \in files, k \in 0..done :
    LET m == Pinned(f) IN
    /\ Reads(f, k) /\ Resolves(View(f, k), m.last) /\ After(View(f, k), m.last) = {}
    /\ torn' = 0
    /\ \/ Newer(f, k) = {} /\ stale' = 0 /\ mark' = m
       \/ /\ Newer(f, k) # {} /\ stale + 1 < StaleCap
          /\ stale' = stale + 1 /\ mark' = m
       \/ /\ stale + 1 >= StaleCap /\ stale' = 0
          /\ \E g \in Newer(f, k) :
               mark' = Stamp([m EXCEPT !.file = g,
                                !.last = Anchor(Lines(g), SeenUntil(Times(f, k), m))])
    /\ CarryOver(FALSE)
    /\ UNCHANGED <<transcripts, ledger, sent, watch, dead, watcher, others, history, calls,
                   crashes, moves>>

\* New turns: the pass starts. It waits for the screen before it reads the ledger.
PollNew ==
  \E f \in files, k \in 0..done :
    LET m == Pinned(f) IN
    /\ Reads(f, k) /\ Resolves(View(f, k), m.last) /\ After(View(f, k), m.last) # {}
    /\ mark' = m /\ wm' = m
    /\ todo' = After(View(f, k), m.last) /\ wpc' = "read"
    /\ torn' = 0 /\ stale' = 0 /\ carried' = FALSE
    /\ UNCHANGED <<transcripts, ledger, sent, watch, dead, fps, origin, others, history,
                   calls, crashes, moves>>

-----------------------------------------------------------------------------
(* The deliveries of a pass, oldest turn first.                            *)

Head == MinOf(todo)

\* The mark moves past the turn and is saved; known is the ledger the pass goes on
\* with, if it has turns left.
Advance(m, known) ==
  /\ mark' = [Stamp(m) EXCEPT !.last = Head]
  /\ todo' = todo \ {Head} /\ origin' = "terminal"
  /\ IF todo' = {} THEN wpc' = "sleep" /\ wm' = Blank /\ fps' = {}
                  ELSE wpc' = "deliver" /\ wm' = mark' /\ fps' = known

\* _terminal_prompts: a prompt with a record is the server's, and uses it up.
Typed(t) == t \notin sent

\* The loop-guard counts with this delivery: a person's prompt, or a long idle gap,
\* ends the run.
Counted(m, human) ==
  [m EXCEPT !.run = IF human THEN 0 ELSE (IF m.old THEN 0 ELSE @) + 1,
            !.all = (IF m.old THEN 0 ELSE @) + 1, !.old = FALSE]

Trips(m) == m.run > Cap \/ m.all > Backstop

\* No session_resend is posting what the pass is about to deliver.
NoRace == "resendrace" \in Faults \/ rs = "idle" \/ \A t \in todo : text[t] # text[rt]

\* Already delivered, so never posted again.
Has(t, known) == text[t] \in known

\* The next turn: passed over, stopped by the loop guard, or about to be posted.
TurnBegin ==
  LET known == IF wpc = "read" THEN ledger ELSE fps
      m     == Counted(wm, Typed(Head))
  IN
  /\ wpc \in {"read", "deliver"} /\ NoRace
  /\ \/ /\ Deliverable(Head) /\ Has(Head, known)
        /\ Advance(wm, known)
        /\ UNCHANGED <<sent, dead, streak>>
     \/ /\ ~Deliverable(Head)
        /\ sent' = sent \ {Head} /\ Advance(wm, known)
        /\ UNCHANGED <<dead, streak>>
     \/ /\ Deliverable(Head) /\ ~Has(Head, known)
        /\ sent' = sent \ {Head}
        /\ streak' = IF wm.old \/ by[Head] = "person" \/ Head \in dead THEN 0 ELSE streak
        /\ IF Trips(m)
           THEN dead' = dead \cup {Head} /\ Advance(m, known)
           ELSE /\ wpc' = "post" /\ wm' = m /\ fps' = known
                /\ origin' = IF Typed(Head) THEN "terminal" ELSE "mcp"
                /\ UNCHANGED <<dead, todo, mark>>
  /\ UNCHANGED <<transcripts, ledger, watch, counts, others, got, since, bounds>>

Receive(t) == got' = [got EXCEPT ![text[t]] = @ + 1]

\* The POST reaches the orchestrator. (One that does not is tried again.)
PostArrives ==
  /\ wpc = "post" /\ wpc' = "answer"
  /\ Receive(Head)
  /\ streak' = IF by[Head] = "mcp" /\ Head \notin dead THEN streak + 1 ELSE streak
  /\ UNCHANGED <<transcripts, disk, wm, todo, fps, origin, counts, others, since, bounds>>

\* A slip: the delivery is not recorded.
PostAnsweredUnrecorded ==
  /\ wpc = "answer"
  /\ UNCHANGED ledger
  /\ Advance(wm, fps \cup {text[Head]})
  /\ UNCHANGED <<transcripts, sent, watch, dead, counts, others, history, bounds>>

\* A 2xx: the ledger, then the mark.
PostAnswered ==
  /\ wpc = "answer"
  /\ ledger' = ledger \cup {text[Head]}
  /\ Advance(wm, fps \cup {text[Head]})
  /\ UNCHANGED <<transcripts, sent, watch, dead, counts, others, history, bounds>>

AnswerLost ==
  /\ "acklost" \in Faults /\ wpc = "answer" /\ Disturb
  /\ wpc' = "post"
  /\ UNCHANGED <<transcripts, disk, wm, todo, fps, origin, counts, others, history>>

\* A permanent refusal, or the end of the retry budget.
PostGivenUp ==
  /\ wpc = "post" /\ Disturb
  /\ dead' = dead \cup {Head}
  /\ Advance(wm, fps)
  /\ UNCHANGED <<transcripts, ledger, sent, watch, counts, others, history>>

-----------------------------------------------------------------------------
(* Calls, and a restart of the server.                                     *)

NotCut == "cut" \in Faults \/ (wpc # "answer" /\ rs # "answer")

StopWatcher(next) ==
  wpc' = next /\ wm' = Blank /\ todo' = {} /\ fps' = {} /\ origin' = "terminal"

\* session_watch, or session_send without a watcher: _register_watcher replaces the
\* task at once ...
WatchStart ==
  /\ call = "idle" /\ NotCut /\ Call
  /\ StopWatcher("sleep")
  /\ call' = "inspect"
  /\ UNCHANGED <<transcripts, disk, counts, rs, rt, history>>

\* ... and when docker has answered, the watch is saved and the mark baselined.
WatchFinish ==
  /\ call = "inspect" /\ call' = "idle"
  /\ watch' = TRUE /\ since' = done /\ Baseline
  /\ UNCHANGED <<transcripts, ledger, sent, dead, watcher, rs, rt, got, streak, calls,
                 crashes, moves>>

WatchCancelled ==
  /\ "cancelcall" \in Faults /\ call = "inspect" /\ call' = "idle"
  /\ UNCHANGED <<transcripts, disk, watcher, counts, rs, rt, history, bounds>>

\* session_unwatch.
Unwatch ==
  /\ wpc # "off" /\ NotCut /\ Call
  /\ StopWatcher("off")
  /\ watch' = FALSE /\ torn' = 0 /\ stale' = 0 /\ carried' = FALSE
  /\ UNCHANGED <<transcripts, mark, ledger, sent, dead, others, history>>

\* _resend_reply: a completed reply that is in a transcript and not in the ledger.
ResendStart ==
  /\ rs = "idle" /\ Call
  /\ \E f \in files : \E t \in Lines(f) :
       /\ Deliverable(t) /\ text[t] \notin ledger
       /\ "resendrace" \in Faults \/ \A u \in todo : text[u] # text[t]
       /\ rs' = "post" /\ rt' = t
  /\ UNCHANGED <<transcripts, disk, watcher, counts, call, history>>

ResendArrives ==
  /\ rs = "post" /\ rs' = "answer"
  /\ Receive(rt)
  /\ UNCHANGED <<transcripts, disk, watcher, counts, call, rt, since, streak, bounds>>

\* A slip: the resent reply is not recorded.
ResendAnsweredUnrecorded ==
  /\ rs = "answer" /\ rs' = "idle"
  /\ rt' = 1
  /\ UNCHANGED <<transcripts, disk, watcher, counts, call, history, bounds>>

ResendAnswered ==
  /\ rs = "answer" /\ rs' = "idle" /\ rt' = 1
  /\ ledger' = ledger \cup {text[rt]}
  /\ UNCHANGED <<transcripts, mark, sent, watch, dead, watcher, counts, call, history,
                 bounds>>

ResendFails ==
  /\ rs = "post" /\ rs' = "idle" /\ rt' = 1 /\ Disturb
  /\ UNCHANGED <<transcripts, disk, watcher, counts, call, history>>

\* A slip: the records of what was sent are only in memory.
SentRecordsInMemory == {}

\* sent-prompts.json, as a server that starts finds it.
SentRecords == sent

\* The server stops and starts, and resume_watchers opens the saved watch again
\* without a baseline. Stopped at an answer, it may have recorded the delivery.
Restart ==
  /\ crashes < MaxCrashes /\ crashes' = crashes + 1
  /\ NotCut /\ (wpc = "post" \/ call = "inspect" => "cut" \in Faults)
  /\ \/ UNCHANGED ledger
     \/ wpc = "answer" /\ ledger' = ledger \cup {text[Head]}
  /\ StopWatcher(IF watch THEN "sleep" ELSE "off")
  /\ torn' = 0 /\ stale' = 0 /\ carried' = FALSE
  /\ call' = "idle" /\ rs' = "idle" /\ rt' = 1 /\ sent' = SentRecords
  /\ UNCHANGED <<transcripts, mark, watch, dead, history, calls, tears, moves>>

-----------------------------------------------------------------------------
(* The session and the clock                                               *)

Current == MaxOf({src[t] : t \in 1..done} \cup {0})

\* What became of a turn: passed on, or written to the dead-letter dir.
Handled(t) == ~Deliverable(t) \/ text[t] \in ledger \/ t \in dead

\* The transcripts Claude may write to: the last, or a new one.
Writable ==
  Files \cap (IF \/ "quickstart" \in Faults
                 \/ \A t \in 1..done : src[t] # mark.file /\ t > mark.base => Handled(t) \/ t \in lost
              THEN {Current, Current + 1}
              ELSE {Current})

\* A turn completes, in Claude's transcript or, after Claude started again, a new one.
TurnCompletes ==
  /\ done < MaxTurns /\ done' = done + 1
  /\ \E f \in Writable, x \in Texts,
        who \in {"mcp", "person"} :
       /\ src' = [src EXCEPT ![done + 1] = f] /\ files' = files \cup {f}
       /\ text' = [text EXCEPT ![done + 1] = x]
       /\ by' = [by EXCEPT ![done + 1] = who]
       /\ sent' = IF who = "mcp" THEN sent \cup {done + 1} ELSE sent
  /\ UNCHANGED <<lost, mark, ledger, watch, dead, watcher, counts, others, history, bounds>>

CaughtUp(S) == "latelose" \in Faults \/ (todo = {} /\ \A t \in S : t > mark.base => Handled(t))

\* A transcript loses its last line (torn when Claude was killed), or its first ones
\* (compacted).
LineLost ==
  /\ Disturb
  /\ \E f \in files : \E t \in Lines(f) :
       LET S == {u \in Lines(f) : u <= t} IN
       /\ CaughtUp(1..done)
       /\ lost' = lost \cup S \/ (t = MaxOf(Lines(f)) /\ lost' = lost \cup {t})
  /\ UNCHANGED <<done, src, text, by, files, disk, watcher, counts, others, history>>

\* A transcript Claude no longer writes to is removed.
FileVanishes ==
  /\ Disturb
  /\ \E f \in files :
       /\ \E g \in files : g > f
       /\ CaughtUp(1..done)
       /\ files' = files \ {f} /\ lost' = lost \cup Lines(f)
  /\ UNCHANGED <<done, src, text, by, disk, watcher, counts, others, history>>

LongIdle ==
  /\ ~mark.old \/ ~wm.old
  /\ Disturb
  /\ mark' = [mark EXCEPT !.old = TRUE] /\ wm' = [wm EXCEPT !.old = TRUE]
  /\ UNCHANGED <<transcripts, ledger, sent, watch, dead, wpc, todo, fps, origin, counts,
                 others, history>>

-----------------------------------------------------------------------------
Init ==
  /\ done = 0 /\ src = [t \in Turns |-> 0] /\ text = [t \in Turns |-> Empty]
  /\ by = [t \in Turns |-> "person"] /\ lost = {} /\ files = {}
  /\ mark = Blank
  /\ ledger = {} /\ sent = {} /\ watch = FALSE /\ dead = {}
  /\ wpc = "off" /\ wm = Blank /\ todo = {} /\ fps = {} /\ origin = "terminal"
  /\ torn = 0 /\ stale = 0 /\ carried = FALSE /\ call = "idle" /\ rs = "idle" /\ rt = 1
  /\ got = [x \in Texts |-> 0] /\ since = 0 /\ streak = 0
  /\ calls = 0 /\ crashes = 0 /\ tears = 0 /\ moves = 0

Poll  == PollUnmarked \/ PollVanished \/ PollTorn \/ PollIdle \/ PollNew
Post  == PostArrives \/ PostAnswered \/ AnswerLost \/ PostGivenUp
Resend == ResendStart \/ ResendArrives \/ ResendAnswered \/ ResendFails

Next ==
  \/ Poll \/ TurnBegin \/ Post \/ Resend
  \/ WatchStart \/ WatchFinish \/ WatchCancelled \/ Unwatch \/ Restart
  \/ TurnCompletes \/ LineLost \/ FileVanishes \/ LongIdle

Spec == Init /\ [][Next]_vars

\* The watcher polls for as long as it is registered, docker and the orchestrator
\* answer in the end, and a mirror does not rewrite a file at every poll.
Fairness ==
  /\ WF_vars(Poll) /\ WF_vars(TurnBegin) /\ WF_vars(WatchFinish)
  /\ WF_vars(PostArrives \/ PostAnswered)
  /\ WF_vars(ResendArrives \/ ResendAnswered)

LiveSpec == Spec /\ Fairness

-----------------------------------------------------------------------------
(* Properties                                                              *)

Marks == [file : 0..MaxFiles, last : 0..MaxTurns, upd : 0..MaxTurns, base : -1..MaxTurns,
          run : Nat, all : Nat, old : BOOLEAN]

TypeOK ==
  /\ done \in 0..MaxTurns /\ src \in [Turns -> 0..MaxFiles]
  /\ text \in [Turns -> Texts \cup {Empty}] /\ by \in [Turns -> {"mcp", "person"}]
  /\ lost \subseteq 1..done /\ files \subseteq Files
  /\ mark \in Marks /\ ledger \subseteq Texts /\ sent \subseteq 1..done
  /\ watch \in BOOLEAN /\ dead \subseteq 1..done
  /\ wpc \in {"off", "sleep", "read", "deliver", "post", "answer"}
  /\ wm \in Marks /\ todo \subseteq 1..done /\ fps \subseteq ledger
  /\ (todo # {} <=> wpc \in {"read", "deliver", "post", "answer"})
  /\ origin \in {"mcp", "terminal"}
  /\ torn \in 0..TornCap /\ stale \in 0..StaleCap /\ carried \in BOOLEAN
  /\ call \in {"idle", "inspect"} /\ rs \in {"idle", "post", "answer"} /\ rt \in Nat
  /\ got \in [Texts -> Nat] /\ since \in 0..done /\ streak \in Nat
  /\ calls \in 0..MaxCalls /\ crashes \in 0..MaxCrashes /\ tears \in 0..MaxTears
  /\ moves \in 0..MaxMoves

Posting == wpc \in {"post", "answer"}

\* content_fingerprint: "the same message content is delivered to a conversation at
\* most once, ever", by whatever route.
AtMostOnce == \A x \in Texts : got[x] <= 1

\* _baseline_watermark: "a (re)connecting orchestrator conversation is NEVER caught up
\* with a backlog".
ForwardOnly == Posting => Head > since

\* MCP-34, MCP-37: the watcher never moves past a reply that completed after the
\* connect and can still be read.
NoReplySkipped ==
  Posting => \A t \in 1..(Head - 1) : t > mark.base => Handled(t) \/ t \in lost

\* _terminal_prompts: an orchestrator prompt labelled as the person's is "the side
\* never to err on". A dead-lettered turn that a later search for the anchor brings up
\* again is excepted: its record is used up and its text is not in the ledger.
OriginErrsOneWay ==
  Posting /\ origin = "terminal" => by[Head] = "person" \/ Head \in dead

\* The loop guard's run survives restarts and reconnects: never more than Cap
\* replies to the server's own prompts in a row, but for those dead-lettered before.
LoopGuardHolds == streak <= Cap

\* While the watch stays open, every reply completed after the connect is handled.
EveryReplyHandled ==
  \A t \in Turns :
    (t <= done /\ call = "idle" /\ wpc # "off" /\ t > mark.base)
      ~> (Handled(t) \/ t \in lost \/ wpc = "off" \/ t <= mark.base)
=============================================================================
