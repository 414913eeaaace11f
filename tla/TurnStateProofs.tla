--------------------------- MODULE TurnStateProofs ---------------------------
(***************************************************************************)
(* Proofs about TurnState, for every length of the transcript and whatever *)
(* the person, Claude Code and the host do: first what the verdict and the *)
(* report of an early Esc say, then what is delivered. A theorem names the *)
(* rare events it needs left out.                                          *)
(***************************************************************************)
EXTENDS TurnState, TranscriptProofs

\* The frame of a step: the groups of variables, spelt out.
USE DEF vars, external, versions, copy, markers, sender, watcher, truth

Skipped == Meta \cup StopRecords

\* In the first n lines, p is a prompt that nothing answered.
Open(p, n) == log[p] = "prompt" /\ \A i \in p + 1 .. n : log[i] \in Skipped

Working == claude \notin {"idle", "given"}

\* What opened the turn and what Claude was last given to go on with is in the copy.
Given == opener <= mirrored /\ \A i \in 1 .. Len(log) : log[i] = "result" => i <= mirrored

-----------------------------------------------------------------------------
LogTyped ==
  /\ log \in Seq(Kinds) /\ mirrored \in 0 .. Len(log) /\ quiet \in 0 .. Stalled
  /\ claude \in {"idle", "given", "asked", "working", "between", "asking", "hooks"}
  /\ opener \in 0 .. Len(log) /\ box \in {"empty", "draft", "restored", "menu"}
  /\ row \in BOOLEAN /\ known \in BOOLEAN
  /\ escaped \subseteq 1 .. Len(log) /\ \A e \in escaped : log[e] = "prompt"

SenderTyped ==
  /\ send \in [st : {"wait", "looked"}, screen : Screens, streak : 0 .. 1]
  /\ since \in 0 .. Len(log) /\ toPaste \in Int

WatchKinds == [st : {"rest", "look", "post"}, polls : 0 .. 1, wrote : Nat,
               quiet : 0 .. Stalled, seen : Nat, cut : Nat]

WatcherTyped ==
  /\ watch \in WatchKinds
  /\ watch.seen <= mirrored /\ watch.wrote <= Len(log) /\ watched \in BOOLEAN
  /\ watch.st # "rest" \/ watch.polls = 1 => watched

LastExists ==
  \A S \in SUBSET (0 .. Len(log)) : S # {} => \E m \in S : \A t \in S : t <= m

KnownTrue == known => row

\* A turn runs from its opener to the end of the transcript.
TurnOpen ==
  Working =>
    /\ opener # 0 /\ opener \notin escaped /\ log[opener] \in {"prompt", "notice", "peer"}
    /\ \A i \in opener + 1 .. Len(log) :
         log[i] \in Assistant \cup Meta \cup {"result"}

\* What Claude does shows in the last line.
LastLine ==
  /\ claude = "asked" => opener = Len(log)
  /\ claude \in {"working", "between", "asking", "hooks"} =>
       /\ opener < Len(log)
       /\ \E i \in opener + 1 .. Len(log) : log[i] \in Assistant
  /\ claude = "working" => log[Len(log)] \in {"work", "result", "feedback", "peer"}
  /\ claude = "between" => log[Len(log)] \in {"reply", "error"}
  /\ claude = "hooks" => log[Len(log)] = "reply"
  /\ claude = "asking" => log[Len(log)] = "ask" /\ box = "menu"

\* A prompt that nothing answered is being worked on, or was stopped by Esc; only
\* messages come after it.
StoppedOrAsked ==
  \A p \in 1 .. Len(log) : Open(p, Len(log)) =>
    /\ p \in escaped \/ (claude = "asked" /\ opener = p)
    /\ \A i \in p + 1 .. Len(log) : log[i] \in Meta

\* What an early Esc put back is the last prompt there is.
RestoredLast ==
  /\ box = "restored" => \E e \in escaped : \A i \in 1 .. Len(log) : log[i] = "prompt" => i <= e
  /\ claude = "given" => box # "restored"

LogInv ==
  /\ LogTyped /\ LastExists /\ KnownTrue /\ TurnOpen /\ LastLine /\ StoppedOrAsked
  /\ RestoredLast

\* The second reading is past the copy's interval.
SecondSees == send.st = "looked" /\ send.streak = 1 => since <= mirrored

SenderInv == LogInv /\ SenderTyped /\ SecondSees

-----------------------------------------------------------------------------
\* A Claude that works writes something within _LOG_STALL_S.
NotSilent ==
  Working /\ claude # "asking" /\ ~row /\ Given => quiet < Stalled

\* While the watcher looks at the screen the copy it read is as it was, or new.
LookFresh ==
  watch.st = "look" => quiet = 0 \/ (watch.seen = mirrored /\ watch.quiet = quiet)

\* On the second poll that finds a prompt cut off, Esc stopped it: Claude, had it been at
\* work at the first, would have written since, or shown it is.
LookSecond ==
  watch.st = "look" /\ watch.polls = 1 =>
    \A p \in 1 .. watch.seen : Open(p, watch.seen) => p \in escaped

\* And from the first such poll on, for as long as the copy has not changed.
PollsTrue ==
  watch.st # "look" /\ watch.polls = 1 /\ quiet >= LogQuiet =>
    \A p \in 1 .. mirrored : Open(p, mirrored) =>
      p \in escaped \/ \E i \in mirrored + 1 .. watch.wrote : log[i] \notin Skipped

ReportInv ==
  /\ LogInv /\ WatcherTyped /\ NotSilent
  /\ LookFresh /\ LookSecond /\ PollsTrue /\ ReportTrue

-----------------------------------------------------------------------------
\* A paste on its way is waited for.
GivenEcho == claude = "given" => echo

\* A turn that a message opened came after what was answered.
PeerFresh ==
  Working /\ log[opener] = "peer" =>
    \A p \in 1 .. opener - 1 : log[p] = "prompt" =>
      \E i \in p + 1 .. opener - 1 : log[i] \notin Skipped

\* A question that was put after the screen was captured was put just now.
AskedNow ==
  send.st = "looked" /\ send.screen.box = "empty" /\ claude = "asking" /\ ~row /\ Given =>
    quiet < Stalled

\* Only a Claude Code that writes stop records has written some.
RecordsTrue == \A i \in 1 .. Len(log) : log[i] \in StopRecords => records

\* Stop hooks report within _STOP_HOOK_WAIT_S, where they report at all.
HooksReport ==
  claude = "hooks" /\ mirrored = Len(log) /\ HasStopRecords(Copy) => quiet < HooksWaited

\* The turn's Stop hooks ran when the screen was first looked at, and the copy shows no more.
HooksHeld ==
  /\ since # 0 /\ log[since] = "reply" /\ ran < since /\ mirrored <= since
  /\ since = Len(log) => claude = "hooks" \/ ~records
  /\ mirrored = since /\ HasStopRecords(Copy) => quiet < HooksWaited

\* A first look that shows nothing while a turn runs found its Stop hooks running.
FirstLook ==
  send.st = "looked" /\ send.streak = 0 /\ ran # 0 =>
    /\ row /\ ~send.screen.working /\ send.screen.box = "empty" => HooksHeld \/ quiet = 0
    /\ \/ ran <= since \/ ran <= mirrored
       \/ claude = "given" /\ ran = Len(log) + 1
       \/ echo /\ ran <= opener

\* What was free at the first reading and has not changed since.
FirstFree ==
  send.streak = 1 /\ ran # 0 =>
    /\ ran <= since \/ ran <= mirrored
    /\ quiet >= Settled =>
         \/ ~InProgress(Copy) \/ mirrored = 0 \/ ~row
         \/ \E p \in escaped : p <= mirrored /\ Open(p, mirrored)
         \/ HooksHeld

PasteInv ==
  /\ ReportInv /\ SenderInv
  /\ ran \in Nat /\ GivenEcho /\ PeerFresh /\ AskedNow /\ RecordsTrue /\ HooksReport
  /\ FirstLook /\ FirstFree
-----------------------------------------------------------------------------
(* Lines that are written, and the last of some kind. *)

\* What writing one line does.
Grown(k) ==
  /\ log' \in Seq(Kinds) /\ Len(log') = Len(log) + 1
  /\ \A i \in 1 .. Len(log) : log'[i] = log[i]
  /\ log'[Len(log) + 1] = k

LEMMA SaysGrows ==
  ASSUME log \in Seq(Kinds), NEW k \in Kinds, Says(<<k>>)
  PROVE  Grown(k)
BY DEF Says, Grown

\* Every set of lines but the empty one has a last one, also after one more line.
LEMMA LastExistsGrows ==
  ASSUME LastExists, Len(log) \in Nat, Len(log') = Len(log) + 1
  PROVE  LastExists'
<1> SUFFICES ASSUME NEW S \in SUBSET (0 .. Len(log) + 1), S # {}
             PROVE  \E m \in S : \A t \in S : t <= m
  BY DEF LastExists
<1>1. CASE Len(log) + 1 \in S
  <2> \A t \in S : t <= Len(log) + 1 OBVIOUS
  <2> QED BY <1>1
<1>2. CASE Len(log) + 1 \notin S
  <2> S \in SUBSET (0 .. Len(log)) BY <1>2
  <2> QED BY DEF LastExists
<1> QED BY <1>1, <1>2

LEMMA MaxIs ==
  ASSUME NEW S \in SUBSET Int, NEW m \in S, \A t \in S : t <= m
  PROVE  Max(S) = m
<1>1. \A x \in S : (\A t \in S : x >= t) => x = m OBVIOUS
<1>2. \A t \in S : m >= t OBVIOUS
<1> QED BY <1>1, <1>2 DEF Max

\* The last of some kinds of lines in what a reader has read.
LEMMA LastOfIs ==
  ASSUME LastExists, log \in Seq(Kinds), NEW n \in 0 .. Len(log), NEW kinds
  PROVE  LET l == LastOf(SubSeq(log, 1, n), kinds)
         IN  /\ l \in 0 .. n
             /\ l # 0 => log[l] \in kinds
             /\ \A i \in l + 1 .. n : log[i] \notin kinds
<1> DEFINE s == SubSeq(log, 1, n)
           S == {0} \cup {i \in DOMAIN s : s[i] \in kinds}
<1>1. Len(s) = n /\ DOMAIN s = 1 .. n /\ \A i \in 1 .. n : s[i] = log[i]
  OBVIOUS
<1> HIDE DEF s
<1>2. S \in SUBSET (0 .. Len(log)) /\ S # {} BY <1>1
<1>3. PICK m \in S : \A t \in S : t <= m BY <1>2 DEF LastExists
<1>4. S \in SUBSET Int BY <1>2
<1>5. LastOf(s, kinds) = m
  <2>1. Max(S) = m BY <1>3, <1>4, MaxIs
  <2> QED BY <2>1 DEF LastOf
<1>6. m \in 0 .. n /\ (m # 0 => log[m] \in kinds) BY <1>1, <1>3
<1>7. \A i \in m + 1 .. n : log[i] \notin kinds BY <1>1, <1>3, <1>6
<1> QED BY <1>5, <1>6, <1>7 DEF s

\* The prompt at the tail is the one that nothing answered.
LEMMA UnansweredIs ==
  ASSUME LastExists, log \in Seq(Kinds), NEW n \in 0 .. Len(log)
  PROVE  LET u == Unanswered(SubSeq(log, 1, n))
         IN  /\ u \in 0 .. n
             /\ u # 0 => Open(u, n)
             /\ \A p \in 1 .. n : Open(p, n) => u = p
<1> DEFINE s == SubSeq(log, 1, n)
           K == Kinds \ (Meta \cup StopRecords)
           l == LastOf(s, K)
           u == Unanswered(s)
<1>1. Len(s) = n /\ \A i \in 1 .. n : s[i] = log[i] OBVIOUS
<1>2. /\ l \in 0 .. n
      /\ l # 0 => log[l] \in K
      /\ \A i \in l + 1 .. n : log[i] \notin K
  BY LastOfIs
<1>3. u = (IF l > 0 /\ s[l] = "prompt" THEN l ELSE 0) BY DEF Unanswered
<1> HIDE DEF s, l, u
<1>4. \A i \in 1 .. n : log[i] \in Kinds OBVIOUS
<1>5. \A i \in 1 .. n : log[i] \notin K => log[i] \in Skipped BY <1>4 DEF Skipped
<1>6. u \in 0 .. n /\ (u # 0 => u = l /\ log[u] = "prompt") BY <1>1, <1>2, <1>3
<1>7. u # 0 => Open(u, n)
  <2> SUFFICES ASSUME u # 0 PROVE \A i \in u + 1 .. n : log[i] \in Skipped
    BY <1>6 DEF Open
  <2> QED BY <1>2, <1>5, <1>6
<1>8. ASSUME NEW p \in 1 .. n, Open(p, n) PROVE u = p
  <2>1. "prompt" \in K /\ Skipped \cap K = {}
    BY DEF Kinds, Meta, StopRecords, Skipped, UserPrompts, Typed, Assistant
  <2>2. ~(l < p) BY <1>2, <1>8, <2>1 DEF Open
  <2>3. ~(p < l)
    <3> SUFFICES ASSUME p < l PROVE FALSE OBVIOUS
    <3> log[l] \in Skipped /\ log[l] \in K BY <1>2, <1>8 DEF Open
    <3> QED BY <2>1
  <2>4. l = p BY <1>2, <2>2, <2>3
  <2> QED BY <1>1, <1>3, <1>8, <2>4 DEF Open
<1> QED BY <1>6, <1>7, <1>8 DEF u, s

\* A transcript whose last line is a prompt or a message has a turn open.
LEMMA InProgressAt ==
  ASSUME LastExists, log \in Seq(Kinds), NEW n \in 1 .. Len(log),
         log[n] \in Meta \cup {"prompt", "notice", "work", "result"}
         \/ (log[n] = "reply" /\ HasStopRecords(SubSeq(log, 1, n)))
  PROVE  InProgress(SubSeq(log, 1, n))
<1> DEFINE s == SubSeq(log, 1, n)
           K == Kinds \ {"summary"}
           l == LastOf(s, K)
<1>1. Len(s) = n /\ \A i \in 1 .. n : s[i] = log[i] OBVIOUS
<1>2. l \in 0 .. n /\ \A i \in l + 1 .. n : log[i] \notin K BY LastOfIs
<1>3. log[n] \in K
  BY DEF Kinds, Meta, StopRecords, UserPrompts, Typed, Assistant
<1> HIDE DEF l, s, K
<1>4. l = n BY <1>2, <1>3
<1>5. ~(l < Len(s)) /\ l > 0 BY <1>1, <1>4
<1>6. s[l] \in Meta \cup {"prompt", "notice", "work", "result"}
      \/ (s[l] = "reply" /\ HasStopRecords(s)) BY <1>1, <1>4 DEF s
<1>7. InProgress(s) BY <1>5, <1>6 DEF InProgress, l, K
<1> QED BY <1>7 DEF s

-----------------------------------------------------------------------------
(* What the transcript says of Claude, whatever happens. *)

LEMMA LogInvInit == Init => LogInv
<1> SUFFICES ASSUME Init PROVE LogInv OBVIOUS
<1>1. log = <<>> \/ log = <<"prompt", "reply", "duration">> \/ log = <<"local", "prompt", "reply">>
  BY DEF Init, Exchange
<1>2. /\ log \in Seq(Kinds) /\ Len(log) \in 0 .. 3
      /\ \A p \in 1 .. Len(log) : log[p] = "prompt" => p < 3 /\ Len(log) = 3 /\ log[p + 1] = "reply"
  <2>0. "prompt" \in Kinds /\ "reply" \in Kinds /\ "duration" \in Kinds /\ "local" \in Kinds
    BY DEF Kinds, Assistant, UserPrompts, Typed, Meta, StopRecords
  <2>1. CASE log = <<>> BY <2>1
  <2>2. CASE log = <<"prompt", "reply", "duration">>
    <3>1. log \in Seq(Kinds) BY <2>0, <2>2
    <3>2. Len(log) = 3 /\ log[1] = "prompt" /\ log[2] = "reply" /\ log[3] = "duration" BY <2>2
    <3> HIDE <2>2
    <3> QED BY <3>1, <3>2
  <2>3. CASE log = <<"local", "prompt", "reply">>
    <3>1. log \in Seq(Kinds) BY <2>0, <2>3
    <3>2. Len(log) = 3 /\ log[1] = "local" /\ log[2] = "prompt" /\ log[3] = "reply" BY <2>3
    <3> HIDE <2>3
    <3> QED BY <3>1, <3>2
  <2> QED BY <1>1, <2>1, <2>2, <2>3
<1>3. LastExists
  <2> SUFFICES ASSUME NEW S \in SUBSET (0 .. Len(log)), S # {}
               PROVE  \E m \in S : \A t \in S : t <= m
    BY DEF LastExists
  <2>0. \A t \in S : t \in Int /\ 0 <= t /\ t <= 3 BY <1>2
  <2>1. CASE 3 \in S BY <2>0, <2>1
  <2>2. CASE 3 \notin S /\ 2 \in S BY <2>0, <2>2
  <2>3. CASE 3 \notin S /\ 2 \notin S /\ 1 \in S BY <2>0, <2>3
  <2>4. CASE 3 \notin S /\ 2 \notin S /\ 1 \notin S
    <3> \A t \in S : t = 0 BY <2>0, <2>4
    <3> PICK t \in S : TRUE OBVIOUS
    <3> QED OBVIOUS
  <2> QED BY <2>1, <2>2, <2>3, <2>4
<1>4. log = SubSeq(log, 1, Len(log)) BY <1>2
<1>5. opener \in 0 .. Len(log)
  <2>1. opener = LastOf(SubSeq(log, 1, Len(log)), {"prompt"}) BY <1>4 DEF Init
  <2> QED BY <2>1, <1>2, <1>3, LastOfIs
<1>6. claude = "idle" /\ box = "empty" /\ escaped = {} /\ mirrored = Len(log) /\ quiet = 4
      /\ row \in BOOLEAN /\ known = FALSE
  BY TurnStateAssumption DEF Init, Stalled
<1>7. LogTyped
  <2>1. mirrored \in 0 .. Len(log) BY <1>2, <1>6
  <2>2. quiet \in 0 .. Stalled BY <1>6 DEF Stalled
  <2>3. row \in BOOLEAN /\ known \in BOOLEAN BY <1>6
  <2>4. log \in Seq(Kinds) BY <1>2
  <2> QED BY <1>5, <1>6, <2>1, <2>2, <2>3, <2>4 DEF LogTyped
<1>8. StoppedOrAsked
  <2> SUFFICES ASSUME NEW p \in 1 .. Len(log), Open(p, Len(log)) PROVE FALSE
    BY DEF StoppedOrAsked
  <2>1. log[p] = "prompt" BY DEF Open
  <2>3. log[p + 1] = "reply" /\ p + 1 \in p + 1 .. Len(log) BY <1>2, <2>1
  <2> QED BY <2>3 DEF Open, Skipped, Meta, StopRecords
<1> QED
  BY <1>3, <1>6, <1>7, <1>8
  DEF LogInv, KnownTrue, TurnOpen, LastLine, RestoredLast, Working

\* The server reads, and learns what the status row looks like.
LEMMA LogInvReading ==
  ASSUME LogInv, UNCHANGED <<log, claude, opener, box, row, mirrored, quiet, escaped>>,
         known' \in BOOLEAN, known' => row
  PROVE  LogInv'
<1>1. LogTyped' BY DEF LogInv, LogTyped
<1>2. LastExists' BY DEF LogInv, LastExists
<1>3. KnownTrue' BY DEF KnownTrue
<1>4. TurnOpen' BY DEF LogInv, TurnOpen, Working
<1>5. LastLine' BY DEF LogInv, LastLine
<1>6. StoppedOrAsked' BY DEF LogInv, StoppedOrAsked, Open
<1>7. RestoredLast' BY DEF LogInv, RestoredLast
<1> QED BY <1>1, <1>2, <1>3, <1>4, <1>5, <1>6, <1>7 DEF LogInv

\* The working text shows only in a row that reads as the server expects.
LEMMA Learns ==
  ASSUME LogInv, NEW w \in RowShows
  PROVE  w \in BOOLEAN /\ (w => row) /\ (known \/ w) \in BOOLEAN /\ ((known \/ w) => row)
<1>1. row \in BOOLEAN /\ known \in BOOLEAN /\ (known => row)
  BY DEF LogInv, LogTyped, KnownTrue
<1>2. w \in BOOLEAN /\ (w => row) BY <1>1 DEF RowShows
<1> QED BY <1>1, <1>2

LEMMA LogInvServer ==
  ASSUME LogInv, SendLook \/ SendRead \/ EchoEnds \/ Connect \/ WatchStep \/ Restart
  PROVE  LogInv'
<1>0. known \in BOOLEAN /\ (known => row) BY DEF LogInv, LogTyped, KnownTrue
<1>1. CASE SendLook
  <2>1. PICK w \in RowShows : known' = (known \/ w) BY <1>1 DEF SendLook
  <2>2. known' \in BOOLEAN /\ (known' => row) BY <2>1, Learns
  <2>3. UNCHANGED <<log, claude, opener, box, row, mirrored, quiet, escaped>>
    BY <1>1 DEF SendLook
  <2> QED BY <2>2, <2>3, LogInvReading
<1>2. CASE WatchRead
  <2>1. known' \in BOOLEAN /\ (known' => row)
    <3>1. CASE UNCHANGED known BY <3>1, <1>0
    <3>2. CASE \E w \in RowShows : known' = (known \/ w) BY <3>2, Learns
    <3> QED BY <1>2, <3>1, <3>2 DEF WatchRead, Learn
  <2>2. UNCHANGED <<log, claude, opener, box, row, mirrored, quiet, escaped>>
    BY <1>2 DEF WatchRead
  <2> QED BY <2>1, <2>2, LogInvReading
<1>3. CASE SendRead \/ EchoEnds \/ Connect \/ WatchLook \/ WatchPost \/ Restart
  <2>1. UNCHANGED <<log, claude, opener, box, row, mirrored, quiet, escaped, known>>
    BY <1>3 DEF SendRead, NotFree, FreeOnce, EchoEnds, Connect, WatchLook, WatchPost, Restart
  <2> QED BY <1>0, <2>1, LogInvReading
<1> QED BY <1>1, <1>2, <1>3 DEF WatchStep

\* A paste, a draft, the mirror and the clock write nothing.
LEMMA LogInvPaste ==
  ASSUME LogInv, Paste
  PROVE  LogInv'
<1>1. /\ UNCHANGED <<log, opener, row, mirrored, quiet, escaped, known>>
      /\ claude' = (IF claude = "idle" THEN "given" ELSE claude)
      /\ box' = (IF box = "menu" THEN box ELSE "empty")
  BY DEF Paste, Busy
<1>2. LogTyped' BY <1>1 DEF LogInv, LogTyped
<1>3. LastExists' BY <1>1 DEF LogInv, LastExists
<1>4. KnownTrue' BY <1>1 DEF LogInv, KnownTrue
<1>5. TurnOpen' BY <1>1 DEF LogInv, TurnOpen, Working
<1>6. LastLine' BY <1>1 DEF LogInv, LastLine
<1>7. StoppedOrAsked' BY <1>1 DEF LogInv, StoppedOrAsked, Open
<1>8. RestoredLast' BY <1>1 DEF RestoredLast
<1> QED BY <1>2, <1>3, <1>4, <1>5, <1>6, <1>7, <1>8 DEF LogInv

LEMMA LogInvQuiet ==
  ASSUME LogInv, Drafts \/ Mirror \/ Tick
  PROVE  LogInv'
<1>1. /\ UNCHANGED <<log, claude, opener, row, escaped, known>>
      /\ box' = box \/ (box' \in {"empty", "draft"} /\ claude # "asking")
  BY DEF Drafts, Mirror, Tick
<1>2. mirrored' \in 0 .. Len(log) /\ quiet' \in 0 .. Stalled
  BY DEF Drafts, Mirror, Tick, LogInv, LogTyped, Stalled
<1>3. LogTyped' BY <1>1, <1>2 DEF LogInv, LogTyped
<1>4. LastExists' BY <1>1 DEF LogInv, LastExists
<1>5. KnownTrue' BY <1>1 DEF LogInv, KnownTrue
<1>6. TurnOpen' BY <1>1 DEF LogInv, TurnOpen, Working
<1>7. LastLine' BY <1>1 DEF LogInv, LastLine
<1>8. StoppedOrAsked' BY <1>1 DEF LogInv, StoppedOrAsked, Open
<1>9. RestoredLast' BY <1>1 DEF LogInv, RestoredLast
<1> QED BY <1>3, <1>4, <1>5, <1>6, <1>7, <1>8, <1>9 DEF LogInv

\* A prompt in a transcript that grew is one that was there, or is the last line.
LEMMA OpenGrows ==
  ASSUME log \in Seq(Kinds), NEW k, Grown(k), NEW p \in 1 .. Len(log'), Open(p, Len(log))'
  PROVE  \/ p = Len(log) + 1 /\ k = "prompt"
         \/ p \in 1 .. Len(log) /\ Open(p, Len(log)) /\ k \in Skipped
<1>1. log'[p] = "prompt" /\ \A i \in p + 1 .. Len(log') : log'[i] \in Skipped BY DEF Open, Skipped
<1>2. CASE p = Len(log) + 1 BY <1>1, <1>2 DEF Grown
<1>3. CASE p \in 1 .. Len(log)
  <2>1. k \in Skipped BY <1>1, <1>3 DEF Grown
  <2>2. log[p] = "prompt" /\ \A i \in p + 1 .. Len(log) : log[i] \in Skipped
    BY <1>1, <1>3 DEF Grown
  <2> QED BY <1>3, <2>1, <2>2 DEF Open
<1> QED BY <1>2, <1>3 DEF Grown

\* A line is written while a turn runs, or at its end, and no turn opens.
LEMMA LogInvWrites ==
  ASSUME LogInv, Working,
         NEW k \in {"work", "reply", "ask", "error", "result", "feedback", "peer", "interrupt"},
         NEW next \in {"idle", "working", "between", "asking", "hooks"},
         Says(<<k>>), claude' = next, UNCHANGED <<opener, row, mirrored, quiet, known, escaped>>,
         box' \in {box, "empty", "menu"},
         k = "interrupt" => next = "idle",
         k \in {"result", "feedback", "peer"} => claude # "asked",
         next = "working" => k \in {"work", "result", "feedback", "peer"},
         next = "between" => k \in {"reply", "error"},
         next = "hooks" => k = "reply",
         next = "asking" => k = "ask" /\ box' = "menu"
  PROVE  LogInv'
<1>1. log \in Seq(Kinds) /\ Len(log) \in Nat BY DEF LogInv, LogTyped
<1>2. k \in Kinds BY DEF Kinds, Assistant, UserPrompts, Typed, Meta, StopRecords
<1>3. Grown(k) BY <1>1, <1>2, SaysGrows
<1>4. /\ opener \in 1 .. Len(log) /\ opener \notin escaped
      /\ log[opener] \in {"prompt", "notice", "peer"}
      /\ \A i \in opener + 1 .. Len(log) : log[i] \in Assistant \cup Meta \cup {"result"}
  BY DEF LogInv, TurnOpen, LogTyped
<1>5. LogTyped'
  <2>1. box' \in {"empty", "draft", "restored", "menu"} BY DEF LogInv, LogTyped
  <2>2. mirrored' \in 0 .. Len(log)' BY <1>3 DEF Grown, LogInv, LogTyped
  <2>3. opener' \in 0 .. Len(log)' BY <1>3 DEF Grown, LogInv, LogTyped
  <2>4. escaped' \subseteq 1 .. Len(log)' BY <1>1, <1>3 DEF Grown, LogInv, LogTyped
  <2>5. \A e \in escaped' : log'[e] = "prompt" BY <1>1, <1>3 DEF Grown, LogInv, LogTyped
  <2> QED BY <1>3, <2>1, <2>2, <2>3, <2>4, <2>5 DEF LogTyped, Grown, LogInv
<1>6. LastExists' BY <1>1, <1>3, LastExistsGrows DEF Grown, LogInv
<1>7. KnownTrue' BY DEF LogInv, KnownTrue
<1>8. TurnOpen'
  <2> SUFFICES ASSUME next # "idle"
               PROVE  TurnOpen' BY DEF TurnOpen, Working
  <2>1. k \in Assistant \cup Meta \cup {"result"} BY DEF Assistant, Meta
  <2>2. \A i \in opener + 1 .. Len(log) + 1 : log'[i] \in Assistant \cup Meta \cup {"result"}
    BY <1>1, <1>3, <1>4, <2>1 DEF Grown
  <2>3. opener' = opener /\ opener' # 0 /\ opener' \notin escaped' /\ log'[opener'] = log[opener]
    BY <1>3, <1>4 DEF Grown
  <2> QED BY <1>3, <1>4, <2>2, <2>3 DEF TurnOpen, Grown
<1>9. LastLine'
  <2>1. opener' < Len(log)' BY <1>3, <1>4 DEF Grown
  <2>2. \E i \in opener' + 1 .. Len(log)' : log'[i] \in Assistant \/ next = "idle"
    <3>1. CASE k \in Assistant
      <4> Len(log) + 1 \in opener' + 1 .. Len(log)' /\ log'[Len(log) + 1] = k
        BY <1>1, <1>3, <1>4 DEF Grown
      <4> QED BY <3>1
    <3>2. CASE k = "interrupt"
      BY <1>1, <1>3, <1>4, <3>2 DEF Grown
    <3>3. CASE k \in {"result", "feedback", "peer"}
      <4>1. PICK i \in opener + 1 .. Len(log) : log[i] \in Assistant
        BY <3>3, <1>4 DEF LogInv, LastLine, LogTyped, Working
      <4> i \in opener' + 1 .. Len(log)' /\ log'[i] = log[i]
        BY <1>1, <1>3, <1>4 DEF Grown
      <4> QED BY <4>1
    <3> QED BY <3>1, <3>2, <3>3 DEF Assistant
  <2>3. log'[Len(log)'] = k BY <1>3 DEF Grown
  <2> QED BY <2>1, <2>2, <2>3 DEF LastLine
<1>10. StoppedOrAsked'
  <2> SUFFICES ASSUME NEW p \in 1 .. Len(log'), Open(p, Len(log))'
               PROVE  FALSE
    BY DEF StoppedOrAsked
  <2>1. p \in 1 .. Len(log) /\ Open(p, Len(log)) /\ k \in Skipped BY <1>1, <1>3, OpenGrows
  <2>2. k \in {"feedback", "peer"} BY <2>1 DEF Skipped, Meta, StopRecords
  <2>3. PICK i \in opener + 1 .. Len(log) : log[i] \in Assistant
    BY <2>2 DEF LogInv, LastLine, LogTyped, Working
  <2>4. ~(p < i)
    BY <2>1, <2>3 DEF Open, Skipped, Meta, StopRecords, Assistant
  <2>5. p \in opener + 1 .. Len(log) \/ p = i BY <2>1, <2>3, <2>4, <1>4
  <2> QED BY <1>4, <2>1, <2>3, <2>5 DEF Open, Assistant, Meta
<1>11. RestoredLast'
  <2>1. CASE box' # "restored" BY <2>1 DEF RestoredLast
  <2>2. CASE box' = box /\ box = "restored"
    <3>1. PICK e \in escaped : \A i \in 1 .. Len(log) : log[i] = "prompt" => i <= e
      BY <2>2 DEF LogInv, RestoredLast
    <3>2. \A i \in 1 .. Len(log') : log'[i] = "prompt" => i <= e
      BY <1>1, <1>3, <3>1 DEF Grown
    <3> QED BY <3>1, <3>2 DEF RestoredLast
  <2> QED BY <2>1, <2>2
<1> QED BY <1>5, <1>6, <1>7, <1>8, <1>9, <1>10, <1>11 DEF LogInv

\* A turn opens.
LEMMA LogInvOpens ==
  ASSUME LogInv, ~Working, NEW k \in {"prompt", "notice", "peer"}, Opens(k),
         box' \in {"empty", box}, k = "prompt" => box' # "restored"
  PROVE  LogInv'
<1>1. log \in Seq(Kinds) /\ Len(log) \in Nat BY DEF LogInv, LogTyped
<1>2. k \in Kinds BY DEF Kinds, Assistant, UserPrompts, Typed, Meta, StopRecords
<1>3. Grown(k) BY <1>1, <1>2, SaysGrows DEF Opens
<1>4. /\ opener' = Len(log) + 1 /\ claude' = "asked"
      /\ UNCHANGED <<row, mirrored, quiet, known, escaped>>
  BY DEF Opens, Here
<1>5. LogTyped'
  <2>1. box' \in {"empty", "draft", "restored", "menu"} BY DEF LogInv, LogTyped
  <2>2. mirrored' \in 0 .. Len(log)' BY <1>3, <1>4 DEF Grown, LogInv, LogTyped
  <2>3. opener' \in 0 .. Len(log)' BY <1>1, <1>3, <1>4 DEF Grown
  <2>4. escaped' \subseteq 1 .. Len(log)' BY <1>1, <1>3, <1>4 DEF Grown, LogInv, LogTyped
  <2>5. \A e \in escaped' : log'[e] = "prompt"
    BY <1>1, <1>3, <1>4 DEF Grown, LogInv, LogTyped
  <2> QED BY <1>3, <1>4, <2>1, <2>2, <2>3, <2>4, <2>5 DEF LogTyped, Grown, LogInv
<1>6. LastExists' BY <1>1, <1>3, LastExistsGrows DEF Grown, LogInv
<1>7. KnownTrue' BY <1>4 DEF LogInv, KnownTrue
<1>8. TurnOpen' BY <1>1, <1>3, <1>4 DEF TurnOpen, Grown, LogInv, LogTyped
<1>9. LastLine' BY <1>1, <1>3, <1>4 DEF LastLine, Grown
<1>10. StoppedOrAsked'
  <2> SUFFICES ASSUME NEW p \in 1 .. Len(log'), Open(p, Len(log))'
               PROVE  /\ p \in escaped' \/ (claude' = "asked" /\ opener' = p)
                      /\ \A i \in p + 1 .. Len(log') : log'[i] \in Meta
    BY DEF StoppedOrAsked
  <2>1. CASE p = Len(log) + 1 BY <1>1, <1>3, <1>4, <2>1 DEF Grown
  <2>2. CASE p \in 1 .. Len(log) /\ Open(p, Len(log)) /\ k \in Skipped
    <3>1. k \in Meta BY <2>2 DEF Skipped, Meta, StopRecords
    <3>2. p \in escaped /\ \A i \in p + 1 .. Len(log) : log[i] \in Meta
      BY <2>2 DEF LogInv, StoppedOrAsked, Working
    <3> QED BY <1>1, <1>3, <1>4, <2>2, <3>1, <3>2 DEF Grown
  <2> QED BY <1>1, <1>3, <2>1, <2>2, OpenGrows
<1>11. RestoredLast'
  <2>1. CASE box' # "restored" BY <1>4, <2>1 DEF RestoredLast
  <2>2. CASE box' = box /\ box = "restored" /\ k # "prompt"
    <3>1. PICK e \in escaped : \A i \in 1 .. Len(log) : log[i] = "prompt" => i <= e
      BY <2>2 DEF LogInv, RestoredLast
    <3>2. \A i \in 1 .. Len(log') : log'[i] = "prompt" => i <= e
      BY <1>1, <1>3, <2>2, <3>1 DEF Grown
    <3> QED BY <1>4, <3>1, <3>2 DEF RestoredLast
  <2> QED BY <2>1, <2>2
<1> QED BY <1>5, <1>6, <1>7, <1>8, <1>9, <1>10, <1>11 DEF LogInv

\* The turn ends with the record of the Stop hooks, or a line is written between turns.
LEMMA LogInvBetween ==
  ASSUME LogInv, NEW k \in StopRecords \cup {"local"}, Says(<<k>>),
         claude = "hooks" \/ k = "local", claude \in {"hooks", "idle"}, claude' = "idle",
         UNCHANGED <<opener, row, mirrored, quiet, known, escaped, box>>
  PROVE  LogInv'
<1>1. log \in Seq(Kinds) /\ Len(log) \in Nat BY DEF LogInv, LogTyped
<1>2. k \in Kinds BY DEF Kinds, Assistant, UserPrompts, Typed, Meta, StopRecords
<1>3. Grown(k) BY <1>1, <1>2, SaysGrows
<1>5. LogTyped'
  <2>2. mirrored' \in 0 .. Len(log)' BY <1>3 DEF Grown, LogInv, LogTyped
  <2>3. opener' \in 0 .. Len(log)' BY <1>3 DEF Grown, LogInv, LogTyped
  <2>4. escaped' \subseteq 1 .. Len(log)' BY <1>1, <1>3 DEF Grown, LogInv, LogTyped
  <2>5. \A e \in escaped' : log'[e] = "prompt" BY <1>1, <1>3 DEF Grown, LogInv, LogTyped
  <2> QED BY <1>3, <2>2, <2>3, <2>4, <2>5 DEF LogTyped, Grown, LogInv
<1>6. LastExists' BY <1>1, <1>3, LastExistsGrows DEF Grown, LogInv
<1>7. KnownTrue' BY DEF LogInv, KnownTrue
<1>8. TurnOpen' /\ LastLine' BY DEF TurnOpen, LastLine, Working
<1>9. StoppedOrAsked'
  <2> SUFFICES ASSUME NEW p \in 1 .. Len(log'), Open(p, Len(log))'
               PROVE  FALSE
    BY DEF StoppedOrAsked
  <2>1. p \in 1 .. Len(log) /\ Open(p, Len(log)) /\ k \in Skipped
    BY <1>1, <1>3, OpenGrows DEF StopRecords
  <2>2. k # "local" BY <2>1 DEF Skipped, Meta, StopRecords
  <2>3. log[Len(log)] = "reply" BY <2>2 DEF LogInv, LastLine
  <2> QED BY <1>1, <2>1, <2>3 DEF Open, Skipped, Meta, StopRecords
<1>10. RestoredLast'
  <2>1. CASE box' # "restored" BY <2>1 DEF RestoredLast
  <2>2. CASE box = "restored"
    <3>1. PICK e \in escaped : \A i \in 1 .. Len(log) : log[i] = "prompt" => i <= e
      BY <2>2 DEF LogInv, RestoredLast
    <3>2. \A i \in 1 .. Len(log') : log'[i] = "prompt" => i <= e
      BY <1>1, <1>3, <3>1 DEF Grown, StopRecords
    <3> QED BY <3>1, <3>2 DEF RestoredLast
  <2> QED BY <2>1, <2>2
<1> QED BY <1>5, <1>6, <1>7, <1>8, <1>9, <1>10 DEF LogInv

\* A turn ends that leaves no line: an early Esc, or hooks that write no record.
LEMMA LogInvStops ==
  ASSUME LogInv, HooksAllow \/ EarlyEsc, UNCHANGED log
  PROVE  LogInv'
<1>1. log \in Seq(Kinds) /\ Len(log) \in Nat /\ opener \in 0 .. Len(log) BY DEF LogInv, LogTyped
<1>2. UNCHANGED <<opener, row, mirrored, quiet, known>> /\ claude' = "idle"
  BY DEF HooksAllow, EarlyEsc
<1>3. LastExists' BY DEF LogInv, LastExists
<1>4. KnownTrue' /\ TurnOpen' /\ LastLine'
  BY <1>2 DEF LogInv, KnownTrue, TurnOpen, LastLine, Working
<1>5. CASE UNCHANGED <<box, escaped>>
  <2>1. LogTyped' BY <1>2, <1>5 DEF LogInv, LogTyped
  <2>2. RestoredLast' BY <1>2, <1>5 DEF LogInv, RestoredLast
  <2>3. ~Open(opener, Len(log)) \/ claude # "asked"
    BY <1>5 DEF EarlyEsc, HooksAllow, Open, LogInv, TurnOpen, Working, LogTyped
  <2>4. StoppedOrAsked' BY <1>2, <1>5, <2>3 DEF LogInv, StoppedOrAsked, Open
  <2> QED BY <1>3, <1>4, <2>1, <2>2, <2>4 DEF LogInv
<1>6. CASE EarlyEsc /\ log[opener] = "prompt"
  <2>1. box' = "restored" /\ escaped' = escaped \cup {opener} /\ claude = "asked"
    BY <1>6 DEF EarlyEsc
  <2>2. opener = Len(log) /\ opener # 0 BY <2>1 DEF LogInv, LastLine, TurnOpen, Working
  <2>3. LogTyped'
    <3>1. escaped' \subseteq 1 .. Len(log)'
      <4>1. escaped \subseteq 1 .. Len(log) BY DEF LogInv, LogTyped
      <4>2. opener \in 1 .. Len(log) BY <1>1, <2>2
      <4>3. escaped' \subseteq 1 .. Len(log) BY <2>1, <4>1, <4>2
      <4> QED BY <4>3
    <3>2. \A e \in escaped' : log'[e] = "prompt" BY <1>6, <2>1 DEF LogInv, LogTyped
    <3>3. box' \in {"empty", "draft", "restored", "menu"} BY <2>1
    <3> QED BY <1>2, <3>1, <3>2, <3>3 DEF LogInv, LogTyped
  <2>4. RestoredLast' BY <1>1, <1>2, <2>1, <2>2 DEF RestoredLast
  <2>5. StoppedOrAsked' BY <2>1 DEF LogInv, StoppedOrAsked, Open
  <2> QED BY <1>3, <1>4, <2>3, <2>4, <2>5 DEF LogInv
<1> QED BY <1>5, <1>6 DEF EarlyEsc, HooksAllow

\* Claude Code and the person.
Outside ==
  \/ Claude \/ Prompted \/ Answered \/ EarlyEsc \/ Esc \/ Notified \/ Handed

LEMMA LogInvOutside ==
  ASSUME LogInv, Outside
  PROVE  LogInv'
<1> USE DEF Writes
<1>1. CASE Works BY <1>1, LogInvWrites DEF Works, Working
<1>2. CASE Segment BY <1>2, LogInvWrites DEF Segment, Working, GoesOn
<1>3. CASE Replies BY <1>3, LogInvWrites DEF Replies, Working
<1>4. CASE Asks BY <1>4, LogInvWrites DEF Asks, Working
<1>5. CASE Fails BY <1>5, LogInvWrites DEF Fails, Working, GoesOn
<1>6. CASE HooksPush BY <1>6, LogInvWrites DEF HooksPush, Working
<1>7. CASE Answered BY <1>7, LogInvWrites DEF Answered, Working
<1>8. CASE Esc BY <1>8, LogInvWrites DEF Esc, Working
<1>9. CASE Handed
  <2>1. CASE claude = "working" /\ Says(<<"peer">>)
    BY <1>9, <2>1, LogInvWrites DEF Handed, Working
  <2>2. CASE claude = "idle" /\ Says(<<"local">>)
    BY <1>9, <2>2, LogInvBetween DEF Handed
  <2> QED BY <1>9, <2>1, <2>2 DEF Handed
<1>10. CASE HooksAllow
  <2>1. CASE UNCHANGED log BY <1>10, <2>1, LogInvStops
  <2>2. CASE \E r \in StopRecords : Says(<<r>>)
    BY <1>10, <2>2, LogInvBetween DEF HooksAllow
  <2> QED BY <1>10, <2>1, <2>2 DEF HooksAllow
<1>11. CASE EarlyEsc BY <1>11, LogInvStops DEF EarlyEsc
<1>12. CASE Prompted BY <1>12, LogInvOpens DEF Prompted, Working
<1>13. CASE PasteShows
  BY <1>13, LogInvOpens DEF PasteShows, Working, LogInv, RestoredLast
<1>14. CASE Notified BY <1>14, LogInvOpens DEF Notified, Working
<1> QED
  BY <1>1, <1>2, <1>3, <1>4, <1>5, <1>6, <1>7, <1>8, <1>9, <1>10, <1>11, <1>12, <1>13, <1>14
  DEF Outside, Claude

LEMMA LogInvKept == LogInv /\ [Next]_vars => LogInv'
<1> SUFFICES ASSUME LogInv, [Next]_vars PROVE LogInv' OBVIOUS
<1>1. CASE SendLook \/ SendRead \/ EchoEnds \/ Connect \/ WatchStep \/ Restart
  BY <1>1, LogInvServer
<1>2. CASE Paste BY <1>2, LogInvPaste
<1>3. CASE Drafts \/ Mirror \/ Tick BY <1>3, LogInvQuiet
<1>4. CASE Outside BY <1>4, LogInvOutside
<1>5. CASE UNCHANGED vars
  BY <1>5, LogInvReading DEF LogInv, LogTyped, KnownTrue
<1> QED
  BY <1>1, <1>2, <1>3, <1>4, <1>5
  DEF Next, Server, SendStep, Person, Outside

-----------------------------------------------------------------------------
(* The send path: an early Esc is reported before the next prompt. *)

\* Nothing that was written, read or stopped is undone.
LEMMA Grows ==
  ASSUME LogInv, [Next]_vars
  PROVE  /\ Len(log) \in Nat /\ Len(log') \in Nat /\ Len(log) <= Len(log')
         /\ \A i \in 1 .. Len(log) : log'[i] = log[i]
         /\ mirrored \in Nat /\ mirrored' \in Nat /\ mirrored <= mirrored'
         /\ escaped \subseteq escaped'
<1>1. log \in Seq(Kinds) /\ mirrored \in 0 .. Len(log) BY DEF LogInv, LogTyped
<1>2. /\ UNCHANGED log \/ \E k \in Kinds : Says(<<k>>)
      /\ mirrored' \in {mirrored, Len(log)}
      /\ escaped \subseteq escaped'
  <2> USE DEF Kinds, Assistant, UserPrompts, Typed, Meta, StopRecords, Opens, Writes
  <2>1. CASE Server
    BY <2>1 DEF Server, SendStep, SendLook, SendRead, NotFree, FreeOnce, Paste, EchoEnds,
      Connect, WatchStep, WatchRead, WatchLook, WatchPost, Restart
  <2>2. CASE Claude
    BY <2>2 DEF Claude, PasteShows, Works, Segment, Replies, Asks, Fails, HooksAllow,
      HooksPush, GoesOn
  <2>3. CASE Person BY <2>3 DEF Person, Prompted, Drafts, Answered, EarlyEsc, Esc
  <2>4. CASE Notified \/ Handed BY <2>4 DEF Notified, Handed
  <2>5. CASE Mirror \/ Tick BY <2>5 DEF Mirror, Tick
  <2>6. CASE UNCHANGED vars BY <2>6
  <2> QED BY <2>1, <2>2, <2>3, <2>4, <2>5, <2>6 DEF Next
<1>0. mirrored' \in 0 .. Len(log) /\ mirrored <= mirrored' BY <1>1, <1>2
<1>3. CASE UNCHANGED log
  <2>1. Len(log) \in Nat /\ Len(log') = Len(log) BY <1>1, <1>3
  <2>2. mirrored' \in Nat /\ mirrored \in Nat BY <1>0, <1>1, <2>1
  <2>3. \A i \in 1 .. Len(log) : log'[i] = log[i] BY <1>3
  <2> QED BY <1>0, <1>2, <2>1, <2>2, <2>3
<1>4. ASSUME NEW k \in Kinds, Says(<<k>>)
      PROVE  /\ Len(log') = Len(log) + 1
             /\ \A i \in 1 .. Len(log) : log'[i] = log[i]
  BY <1>1, <1>4, SaysGrows DEF Grown
<1>5. Len(log) \in Nat /\ mirrored' \in Nat /\ mirrored \in Nat BY <1>0, <1>1
<1>6. CASE \E k \in Kinds : Says(<<k>>) BY <1>0, <1>2, <1>4, <1>5, <1>6
<1> QED BY <1>2, <1>3, <1>6

LEMMA SenderInvInit == Init => SenderInv
<1> SUFFICES ASSUME Init PROVE SenderInv OBVIOUS
<1>1. LogInv BY LogInvInit
<1>2. Len(log) \in Nat BY <1>1 DEF LogInv, LogTyped
<1> QED
  BY <1>1, <1>2, TurnStateAssumption
  DEF SenderInv, SenderTyped, SecondSees, Init, Waiting, NoScreen, Screens

\* Steps of others leave the send path alone.
LEMMA SenderOnly ==
  ASSUME [Next]_vars, ~SendStep, ~Restart
  PROVE  UNCHANGED <<send, since, toPaste, ran>>
<1> USE DEF Opens, Writes
<1>1. CASE Server
  BY <1>1 DEF Server, EchoEnds, Connect, WatchStep, WatchRead, WatchLook, WatchPost
<1>2. CASE Claude
  BY <1>2 DEF Claude, PasteShows, Works, Segment, Replies, Asks, Fails, HooksAllow, HooksPush
<1>3. CASE Person BY <1>3 DEF Person, Prompted, Drafts, Answered, EarlyEsc, Esc
<1>4. CASE Notified \/ Handed BY <1>4 DEF Notified, Handed
<1>5. CASE Mirror \/ Tick BY <1>5 DEF Mirror, Tick
<1>6. CASE UNCHANGED vars BY <1>6
<1> QED BY <1>1, <1>2, <1>3, <1>4, <1>5, <1>6 DEF Next

LEMMA SenderInvKept == SenderInv /\ [Next]_vars => SenderInv'
<1> SUFFICES ASSUME SenderInv, [Next]_vars PROVE SenderInv' OBVIOUS
<1>1. LogInv' BY LogInvKept DEF SenderInv
<1>2. /\ Len(log) \in Nat /\ Len(log') \in Nat /\ Len(log) <= Len(log')
      /\ mirrored \in Nat /\ mirrored' \in Nat /\ mirrored <= mirrored'
  BY Grows DEF SenderInv
<1>3. /\ send \in [st : {"wait", "looked"}, screen : Screens, streak : 0 .. 1]
      /\ since \in 0 .. Len(log) /\ toPaste \in Int
  BY DEF SenderInv, SenderTyped
<1>4. CASE SendLook
  <2>1. PICK w \in RowShows :
          send' = [send EXCEPT !.st = "looked", !.screen = [working |-> w, box |-> box]]
    BY <1>4 DEF SendLook
  <2>2. [working |-> w, box |-> box] \in Screens
    BY Learns DEF Screens, SenderInv, LogInv, LogTyped
  <2>3. /\ send' \in [st : {"wait", "looked"}, screen : Screens, streak : 0 .. 1]
        /\ send'.streak = send.streak
    BY <2>1, <2>2, <1>3
  <2>4. /\ send.streak = 1 => mirrored >= since /\ since' = since
        /\ since' \in {since, Len(log)} /\ UNCHANGED <<mirrored, log, toPaste>>
    BY <1>4, <1>3 DEF SendLook
  <2>5. SenderTyped' BY <2>3, <2>4, <1>2, <1>3 DEF SenderTyped
  <2>6. SecondSees' BY <2>3, <2>4, <1>2, <1>3 DEF SecondSees
  <2> QED BY <1>1, <2>5, <2>6 DEF SenderInv
<1>5. CASE SendRead \/ Paste \/ Restart
  <2>1. send' = Waiting(0) \/ send' = Waiting(1)
    BY <1>5 DEF SendRead, NotFree, FreeOnce, Paste, Restart, Over
  <2>2. /\ send' \in [st : {"wait", "looked"}, screen : Screens, streak : 0 .. 1]
        /\ send'.st = "wait"
    <3> [working |-> FALSE, box |-> "menu"] \in Screens BY DEF Screens
    <3>1. Waiting(0) \in [st : {"wait", "looked"}, screen : Screens, streak : 0 .. 1]
          /\ Waiting(0).st = "wait" BY DEF Waiting, NoScreen
    <3>2. Waiting(1) \in [st : {"wait", "looked"}, screen : Screens, streak : 0 .. 1]
          /\ Waiting(1).st = "wait" BY DEF Waiting, NoScreen
    <3> QED BY <2>1, <3>1, <3>2
  <2>3. since' \in 0 .. Len(log') /\ toPaste' \in Int
    BY <1>2, <1>3, <1>5 DEF SendRead, NotFree, FreeOnce, Paste, Restart, Over
  <2> QED BY <1>1, <2>2, <2>3 DEF SenderInv, SenderTyped, SecondSees
<1>6. CASE ~SendStep /\ ~Restart
  <2>1. UNCHANGED <<send, since, toPaste>> BY <1>6, SenderOnly
  <2>2. SenderTyped' BY <2>1, <1>2, <1>3 DEF SenderTyped
  <2>3. SecondSees' BY <2>1, <1>2, <1>3 DEF SecondSees, SenderInv
  <2> QED BY <1>1, <2>2, <2>3 DEF SenderInv
<1> QED BY <1>4, <1>5, <1>6 DEF SendStep

LEMMA SenderInvHolds == Spec => []SenderInv
<1>1. Init => SenderInv BY SenderInvInit
<1>2. SenderInv /\ [Next]_vars => SenderInv' BY SenderInvKept
<1> QED BY <1>1, <1>2, PTL DEF Spec

\* What the verdicts of _turn_verdict mean, each by the first test that it passes.
LEMMA VerdictIs ==
  ASSUME NEW s, NEW q, NEW screen
  PROVE  LET v == TurnVerdict(s, q, screen)
         IN  /\ v # "transcript_none" /\ v # "interrupt_reported"
             /\ v = "log_finished" => ~InProgress(s)
             /\ v \in StoppedByScreen =>
                  /\ InProgress(s) /\ ~(q < LogQuiet) /\ ~HooksMayRun(s, q) /\ ~screen.working
                  /\ Restored(s, screen) \/ known \/ q >= Stalled
<1> DEFINE v == TurnVerdict(s, q, screen)
<1>1. CASE ~InProgress(s)
  <2>1. v = "log_finished" BY <1>1 DEF TurnVerdict
  <2> QED BY <1>1, <2>1 DEF StoppedByScreen
<1>2. CASE InProgress(s) /\ q < LogQuiet
  <2>1. v = "log_growing" BY <1>2 DEF TurnVerdict
  <2> QED BY <1>2, <2>1 DEF StoppedByScreen
<1>3. CASE InProgress(s) /\ ~(q < LogQuiet) /\ HooksMayRun(s, q)
  <2>1. v = "stop_hooks_running" BY <1>3 DEF TurnVerdict
  <2> QED BY <1>3, <2>1 DEF StoppedByScreen
<1>4. CASE InProgress(s) /\ ~(q < LogQuiet) /\ ~HooksMayRun(s, q) /\ screen.working
  <2>1. v = "status_row_working" BY <1>4 DEF TurnVerdict
  <2> QED BY <1>4, <2>1 DEF StoppedByScreen
<1>5. CASE InProgress(s) /\ ~(q < LogQuiet) /\ ~HooksMayRun(s, q) /\ ~screen.working
  <2>1. v = (IF Restored(s, screen) THEN "prompt_restored"
             ELSE IF known THEN "status_row_idle"
             ELSE IF q >= Stalled THEN "log_stalled" ELSE "status_row_unproven")
    BY <1>5 DEF TurnVerdict
  <2> QED BY <1>5, <2>1 DEF StoppedByScreen
<1> QED BY <1>1, <1>2, <1>3, <1>4, <1>5

\* Only Paste pastes.
LEMMA PastesInPaste ==
  ASSUME SenderInv, [Next]_vars, Pastes
  PROVE  Paste
<1>1. toPaste' # toPaste BY DEF Pastes, SenderInv, SenderTyped
<1> QED BY <1>1, SenderOnly DEF SendStep, SendLook, SendRead, NotFree, FreeOnce, Restart

\* A prompt that Esc stopped is recorded as reported before the next one is pasted.
LEMMA EscRecordedFirst ==
  ASSUME SenderInv, Paste, watched, Unanswered(log) \in escaped, Unanswered(log) <= since,
         reported # Unanswered(log), ~Busy, "unreadable" \notin Faults
  PROVE  FALSE
<1> DEFINE u == Unanswered(log)
           cut == Unanswered(Copy)
           why == TurnVerdict(Copy, quiet, send.screen)
<1>2. /\ log \in Seq(Kinds) /\ mirrored \in 0 .. Len(log) /\ LastExists
      /\ Len(log) \in Nat /\ escaped \subseteq 1 .. Len(log)
  BY DEF SenderInv, LogInv, LogTyped
<1>3. since <= mirrored /\ since \in Nat BY <1>2 DEF Paste, SenderInv, SecondSees, SenderTyped
<1>4. u \in 1 .. mirrored /\ reported # u /\ Open(u, Len(log))
  <2>1. SubSeq(log, 1, Len(log)) = log BY <1>2
  <2>2. LET w == Unanswered(SubSeq(log, 1, Len(log)))
        IN  w \in 0 .. Len(log) /\ (w # 0 => Open(w, Len(log)))
    BY <1>2, UnansweredIs
  <2>3. u \in escaped /\ u <= since /\ reported # u OBVIOUS
  <2>4. u \in 0 .. Len(log) /\ (u # 0 => Open(u, Len(log))) BY <2>1, <2>2
  <2> QED BY <1>2, <1>3, <2>3, <2>4
\* The copy shows the same, and that its turn is open.
<1>5. cut = u
  <2>1. Open(u, mirrored) BY <1>2, <1>4 DEF Open
  <2> QED BY <1>2, <1>4, <2>1, UnansweredIs DEF Copy
<1>6. InProgress(Copy)
  <2>1. \A i \in u + 1 .. Len(log) : log[i] \in Meta
    BY <1>2, <1>4 DEF SenderInv, LogInv, StoppedOrAsked
  <2>2. mirrored \in 1 .. Len(log) /\ log[mirrored] \in Meta \cup {"prompt"}
    BY <1>2, <1>4, <2>1 DEF Open
  <2> QED BY <1>2, <2>2, InProgressAt DEF Copy
\* So either Claude works, or the report is due.
<1> HIDE DEF cut, u
<1>7. why # "log_finished" /\ why # "transcript_none" /\ why # "interrupt_reported"
  BY <1>6, VerdictIs
<1> HIDE DEF why
<1>8. Why(send.screen) \in {"sent_prompt_not_in_log", "interrupt_not_reported_yet"}
      \/ (why \notin StoppedByScreen /\ Why(send.screen) = why)
  BY <1>2, <1>4, <1>5 DEF Why, ReportDue, cut, why
<1>9. Why(send.screen) \notin TurnIdle
  BY <1>7, <1>8 DEF TurnIdle, StoppedByScreen
<1> QED BY <1>9 DEF Paste, Free, FreeUnread, MayPaste

-----------------------------------------------------------------------------
(* The watcher: what it reports as stopped, Esc stopped. *)

\* What was an open prompt in lines already written is one for ever.
LEMMA OpenStays ==
  ASSUME NEW n \in 0 .. Len(log), Len(log) \in Nat, \A i \in 1 .. Len(log) : log'[i] = log[i],
         NEW p \in 1 .. n, Open(p, n)'
  PROVE  Open(p, n)
BY DEF Open, Skipped

\* Steps of others leave the watcher alone.
LEMMA WatcherOnly ==
  ASSUME [Next]_vars, ~WatchStep, ~Restart
  PROVE  UNCHANGED <<watch, reported>> /\ (watched' = watched \/ watched' = TRUE)
<1> USE DEF Opens, Writes
<1>1. CASE Server
  <2>1. CASE SendStep
    <3>1. UNCHANGED <<watch, reported, watched>>
      BY <2>1 DEF SendStep, SendLook, SendRead, NotFree, FreeOnce, Paste
    <3> QED BY <3>1
  <2>2. CASE EchoEnds \/ Connect BY <2>2 DEF EchoEnds, Connect
  <2> QED BY <1>1, <2>1, <2>2 DEF Server
<1>2. CASE Claude
  BY <1>2 DEF Claude, PasteShows, Works, Segment, Replies, Asks, Fails, HooksAllow, HooksPush
<1>3. CASE Person BY <1>3 DEF Person, Prompted, Drafts, Answered, EarlyEsc, Esc
<1>4. CASE Notified \/ Handed BY <1>4 DEF Notified, Handed
<1>5. CASE Mirror \/ Tick BY <1>5 DEF Mirror, Tick
<1>6. CASE UNCHANGED vars BY <1>6
<1> QED BY <1>1, <1>2, <1>3, <1>4, <1>5, <1>6 DEF Next

\* The copy changes with the mirror and with time only.
LEMMA CopyOnly ==
  ASSUME [Next]_vars, ~Mirror, ~Tick
  PROVE  UNCHANGED <<mirrored, quiet>>
<1> USE DEF Opens, Writes
<1>1. CASE Server
  BY <1>1 DEF Server, EchoEnds, Connect, SendStep, SendLook, SendRead, NotFree, FreeOnce, Paste,
    WatchStep, WatchRead, WatchLook, WatchPost, Restart
<1>2. CASE Claude
  BY <1>2 DEF Claude, PasteShows, Works, Segment, Replies, Asks, Fails, HooksAllow, HooksPush
<1>3. CASE Person BY <1>3 DEF Person, Prompted, Drafts, Answered, EarlyEsc, Esc
<1>4. CASE Notified \/ Handed BY <1>4 DEF Notified, Handed
<1>6. CASE UNCHANGED vars BY <1>6
<1> QED BY <1>1, <1>2, <1>3, <1>4, <1>6 DEF Next

LEMMA ReportInvInit == Init => ReportInv
<1> SUFFICES ASSUME Init PROVE ReportInv OBVIOUS
<1>1. LogInv BY LogInvInit
<1>2. mirrored \in Nat /\ Len(log) \in Nat BY <1>1 DEF LogInv, LogTyped
<1>3. watch = Resting(0, 0) /\ watched = FALSE /\ reported = 0 /\ claude = "idle" BY DEF Init
<1>4. WatcherTyped
  <2>1. watch \in WatchKinds BY <1>3 DEF WatchKinds, Resting, Stalled
  <2>2. watch.st = "rest" /\ watch.polls = 0 /\ watch.seen = 0 /\ watch.wrote = 0
    BY <1>3 DEF Resting
  <2>3. watched \in BOOLEAN BY <1>3
  <2>4. watch.seen <= mirrored /\ watch.wrote <= Len(log) BY <1>2, <2>2
  <2>5. ~(watch.st # "rest" \/ watch.polls = 1) BY <2>2
  <2> QED BY <2>1, <2>3, <2>4, <2>5 DEF WatcherTyped
<1> QED
  BY <1>1, <1>3, <1>4
  DEF ReportInv, NotSilent, Working, LookFresh, LookSecond, PollsTrue, ReportTrue, Resting

\* A Claude at work writes in time.
LEMMA WorkGoesOn ==
  ASSUME [Next]_vars
  PROVE  /\ row' = row
         /\ Working' =>
              \/ \E k \in {"prompt", "notice", "peer"} :
                   Opens(k) /\ (k = "peer" /\ Merges => "merge" \in Faults)
              \/ Answered
              \/ Working /\ opener' = opener /\ (claude = "asking" => claude' = "asking")
<1> USE DEF Writes, Working
<1>1. CASE Server
  BY <1>1 DEF Server, EchoEnds, Connect, SendStep, SendLook, SendRead, NotFree, FreeOnce, Paste,
    WatchStep, WatchRead, WatchLook, WatchPost, Restart, Busy
<1>2. CASE Works \/ Segment \/ Replies \/ Asks \/ Fails \/ HooksAllow \/ HooksPush
  BY <1>2 DEF Works, Segment, Replies, Asks, Fails, HooksAllow, HooksPush
<1>3. CASE PasteShows \/ Prompted \/ Notified
  <2>1. CASE Opens("prompt") BY <2>1 DEF Opens
  <2>2. CASE Opens("notice") BY <2>2 DEF Opens
  <2>3. CASE Opens("peer") /\ (Merges => "merge" \in Faults) BY <2>3 DEF Opens
  <2> QED BY <1>3, <2>1, <2>2, <2>3 DEF PasteShows, Prompted, Notified
<1>4. CASE Drafts \/ Answered \/ EarlyEsc \/ Esc \/ Handed
  BY <1>4 DEF Drafts, Answered, EarlyEsc, Esc, Handed
<1>5. CASE Mirror \/ Tick BY <1>5 DEF Mirror, Tick
<1>6. CASE UNCHANGED vars BY <1>6
<1> QED BY <1>1, <1>2, <1>3, <1>4, <1>5, <1>6 DEF Next, Claude, Person

LEMMA NotSilentKept ==
  ASSUME ReportInv, [Next]_vars, "silent" \notin Faults
  PROVE  NotSilent'
<1>0. /\ log \in Seq(Kinds) /\ mirrored \in 0 .. Len(log) /\ Len(log) \in Nat
      /\ quiet \in 0 .. Stalled /\ opener \in 0 .. Len(log)
  BY DEF ReportInv, LogInv, LogTyped
<1> SUFFICES ASSUME Working', claude' # "asking", ~row', Given'
             PROVE  (quiet < Stalled)'
  BY DEF NotSilent
<1>1. CASE Mirror BY <1>1 DEF Mirror, Stalled
<1>2. CASE Tick
  <2>1. UNCHANGED <<log, claude, row>> /\ quiet' = quiet + 1 /\ MayBeQuiet(quiet + 1)
    BY <1>2 DEF Tick
  <2> QED BY <2>1 DEF MayBeQuiet, Busy, Working
<1>3. CASE ~Mirror /\ ~Tick
  <2>1. UNCHANGED <<mirrored, quiet>> BY <1>3, CopyOnly
  <2>2. Len(log) <= Len(log') /\ \A i \in 1 .. Len(log) : log'[i] = log[i]
    BY Grows DEF ReportInv
  <2>3. CASE \E k \in {"prompt", "notice", "peer"} : Opens(k)
    <3>1. opener' = Len(log) + 1 BY <2>3 DEF Opens, Here
    <3> QED BY <1>0, <2>1, <3>1 DEF Given
  <2>4. CASE Answered
    <3>1. Says(<<"result">>) /\ "result" \in Kinds BY <2>4 DEF Answered, Writes, Kinds
    <3>2. Grown("result") BY <1>0, <3>1, SaysGrows
    <3>3. Len(log) + 1 \in 1 .. Len(log') /\ log'[Len(log) + 1] = "result"
      BY <1>0, <3>2 DEF Grown
    <3> QED BY <1>0, <2>1, <3>3 DEF Given
  <2>5. CASE Working /\ opener' = opener /\ (claude = "asking" => claude' = "asking")
    <3>1. Given BY <1>0, <2>1, <2>2, <2>5, Grows DEF Given, ReportInv
    <3>2. ~row /\ claude # "asking" BY <2>5, WorkGoesOn
    <3> QED BY <2>1, <2>5, <3>1, <3>2 DEF ReportInv, NotSilent
  <2> QED BY <2>3, <2>4, <2>5, WorkGoesOn
<1> QED BY <1>1, <1>2, <1>3

\* Everybody else writes, copies or waits.
LEMMA OthersKeepReport ==
  ASSUME ReportInv, [Next]_vars, ~WatchStep, ~Restart
  PROVE  WatcherTyped' /\ LookFresh' /\ LookSecond' /\ PollsTrue' /\ ReportTrue'
<1>1. /\ Len(log) \in Nat /\ Len(log') \in Nat /\ Len(log) <= Len(log')
      /\ \A i \in 1 .. Len(log) : log'[i] = log[i]
      /\ mirrored \in Nat /\ mirrored' \in Nat /\ mirrored <= mirrored'
      /\ escaped \subseteq escaped'
  BY Grows DEF ReportInv
<1>2. UNCHANGED <<watch, reported>> BY WatcherOnly
<1>3. /\ watch \in WatchKinds /\ watch.seen \in Nat /\ watch.wrote \in Nat
      /\ watch.seen <= mirrored /\ watch.wrote <= Len(log)
  BY DEF ReportInv, WatcherTyped, WatchKinds
<1>4. mirrored <= Len(log) /\ quiet \in 0 .. Stalled BY DEF ReportInv, LogInv, LogTyped
<1>5. WatcherTyped'
  <2>1. watched' \in BOOLEAN /\ (watch.st # "rest" \/ watch.polls = 1 => watched')
    <3>1. watched \in BOOLEAN /\ (watch.st # "rest" \/ watch.polls = 1 => watched)
      BY DEF ReportInv, WatcherTyped
    <3>2. CASE watched' = watched BY <3>1, <3>2
    <3>3. CASE watched' = TRUE BY <3>3
    <3> QED BY <3>2, <3>3, WatcherOnly
  <2>2. watch'.seen <= mirrored' /\ watch'.wrote <= Len(log') BY <1>1, <1>2, <1>3
  <2> QED BY <1>2, <1>3, <2>1, <2>2 DEF WatcherTyped
<1>6. LookSecond'
  <2> SUFFICES ASSUME watch.st = "look", watch.polls = 1,
                      NEW p \in 1 .. watch.seen, Open(p, watch.seen)'
               PROVE  p \in escaped'
    BY <1>2 DEF LookSecond
  <2>1. watch.seen \in 0 .. Len(log) BY <1>1, <1>3, <1>4
  <2>2. Open(p, watch.seen)
    <3> DEFINE n == watch.seen
    <3>1. log'[p] = "prompt" /\ \A i \in p + 1 .. n : log'[i] \in Skipped
      BY <1>2 DEF Open, Skipped
    <3> QED BY <1>1, <2>1, <3>1 DEF Open
  <2> QED BY <1>1, <2>2 DEF ReportInv, LookSecond
<1>7. ReportTrue' BY <1>1, <1>2 DEF ReportInv, ReportTrue
<1>8. CASE Mirror
  <2>1. quiet' = 0 BY <1>8 DEF Mirror
  <2> QED BY <1>5, <1>6, <1>7, <2>1 DEF LookFresh, PollsTrue, LogQuiet
<1>9. CASE Tick
  <2>1. /\ quiet' = quiet + 1 /\ UNCHANGED <<mirrored, log, escaped>> /\ watch.st # "look"
        /\ watched /\ quiet = Settled /\ SettleGate => watch.polls = 0
    BY <1>9 DEF Tick, NoReading
  <2>2. LookFresh' BY <1>2, <2>1 DEF LookFresh
  <2>3. PollsTrue'
    <3> SUFFICES ASSUME watch.polls = 1, quiet + 1 >= LogQuiet,
                        NEW p \in 1 .. mirrored, Open(p, mirrored)
                 PROVE  \/ p \in escaped
                        \/ \E i \in mirrored + 1 .. watch.wrote : log[i] \notin Skipped
      BY <1>2, <2>1 DEF PollsTrue, Open, Skipped
    <3>1. CASE quiet >= LogQuiet BY <2>1, <3>1 DEF ReportInv, PollsTrue
    \* The poll that finds the settle window over comes before the next step of time, if
    \* not a reply's Stop hooks hold it up.
    <3>2. CASE quiet = Settled
      <4>1. watched BY DEF ReportInv, WatcherTyped
      <4>2. ~SettleGate BY <2>1, <3>2, <4>1
      <4>3. AwaitingHooks(Suffix, Copy) BY <3>2, <4>2 DEF SettleGate, Settled
      <4>4. Copy[Len(Copy)] = "reply" BY <4>3 DEF AwaitingHooks, Last
      <4>5. log \in Seq(Kinds) BY DEF ReportInv, LogInv, LogTyped
      <4>6. log[mirrored] = "reply" BY <1>1, <1>4, <4>4, <4>5 DEF Copy
      <4> QED BY <1>1, <4>6 DEF Open, Skipped, Meta, StopRecords
    <3> QED BY <1>4, <3>1, <3>2 DEF LogQuiet, Settled
  <2> QED BY <1>5, <1>6, <1>7, <2>2, <2>3
<1>10. CASE ~Mirror /\ ~Tick
  <2>1. UNCHANGED <<mirrored, quiet>> BY <1>10, CopyOnly
  <2>2. LookFresh' BY <1>2, <2>1 DEF ReportInv, LookFresh
  <2>3. PollsTrue'
    <3> SUFFICES ASSUME watch.st # "look", watch.polls = 1, quiet >= LogQuiet,
                        NEW p \in 1 .. mirrored, Open(p, mirrored)'
                 PROVE  \/ p \in escaped'
                        \/ \E i \in mirrored + 1 .. watch.wrote : log'[i] \notin Skipped
      BY <1>2, <2>1 DEF PollsTrue, Skipped
    <3>1. Open(p, mirrored)
      <4>1. log'[p] = "prompt" /\ \A i \in p + 1 .. mirrored : log'[i] \in Skipped
        BY <2>1 DEF Open, Skipped
      <4> QED BY <1>1, <1>4, <4>1 DEF Open
    <3>2. p \in escaped \/ \E i \in mirrored + 1 .. watch.wrote : log[i] \notin Skipped
      BY <3>1 DEF ReportInv, PollsTrue
    <3>3. \A i \in mirrored + 1 .. watch.wrote : log'[i] = log[i] BY <1>1, <1>3
    <3> QED BY <1>1, <3>2, <3>3
  <2> QED BY <1>5, <1>6, <1>7, <2>2, <2>3
<1> QED BY <1>8, <1>9, <1>10

\* The watcher reads the copy. The one before was taken before the screen it looked at.
LEMMA WatchReadKeepsReport ==
  ASSUME ReportInv, WatchRead, "samecopy" \notin Faults
  PROVE  WatcherTyped' /\ LookFresh' /\ LookSecond' /\ PollsTrue' /\ ReportTrue'
<1>1. /\ Len(log) \in Nat /\ mirrored \in 0 .. Len(log) /\ quiet \in 0 .. Stalled
  BY DEF ReportInv, LogInv, LogTyped
<1>2. /\ UNCHANGED <<log, mirrored, quiet, reported, escaped, watched>> /\ watched
      /\ mirrored >= watch.wrote /\ watch.st = "rest"
  BY DEF WatchRead
<1>3. PICK look, polls :
        /\ look = (IF MayBeCutOff THEN "look" ELSE "post")
        /\ polls = (IF MayBeCutOff THEN watch.polls ELSE 0)
  OBVIOUS
<1>4. watch' = [Resting(polls, 0) EXCEPT !.st = look, !.quiet = quiet, !.seen = mirrored]
  BY <1>3 DEF WatchRead
<1>5. watch' = [st |-> look, polls |-> polls, wrote |-> 0, quiet |-> quiet, seen |-> mirrored,
                cut |-> 0]
  BY <1>4 DEF Resting
<1>6. look \in {"look", "post"} /\ polls \in 0 .. 1 /\ (look = "post" => polls = 0)
      /\ (look = "look" => quiet >= LogQuiet /\ polls = watch.polls)
  BY <1>3 DEF MayBeCutOff, ReportInv, WatcherTyped, WatchKinds
<1>7. WatcherTyped'
  <2>1. watch' \in WatchKinds BY <1>1, <1>5, <1>6 DEF WatchKinds
  <2>2. watch'.seen = mirrored /\ watch'.wrote = 0 BY <1>5
  <2>3. watched' \in BOOLEAN /\ watched'
    <3> watched \in BOOLEAN BY DEF ReportInv, WatcherTyped
    <3> QED BY <1>2
  <2> QED BY <1>1, <1>2, <2>1, <2>2, <2>3 DEF WatcherTyped
<1>8. watch'.st = look /\ watch'.polls = polls /\ watch'.seen = mirrored /\ watch'.quiet = quiet
  BY <1>5
<1>9. LookFresh' BY <1>2, <1>8 DEF LookFresh
<1>10. LookSecond'
  <2> SUFFICES ASSUME look = "look", polls = 1, NEW p \in 1 .. mirrored, Open(p, mirrored)
               PROVE  p \in escaped
    BY <1>2, <1>8 DEF LookSecond, Open, Skipped
  <2>1. p \in escaped \/ \E i \in mirrored + 1 .. watch.wrote : log[i] \notin Skipped
    BY <1>2, <1>6 DEF ReportInv, PollsTrue
  <2>2. watch.wrote \in Nat BY DEF ReportInv, WatcherTyped, WatchKinds
  <2> QED BY <1>1, <1>2, <2>1, <2>2
<1>11. PollsTrue' BY <1>6, <1>8 DEF PollsTrue
<1>12. ReportTrue' BY <1>2 DEF ReportInv, ReportTrue
<1> QED BY <1>7, <1>9, <1>10, <1>11, <1>12

\* A verdict that Claude stopped, from a transcript that is still the copy: the prompt cut
\* off was stopped by Esc, or Claude has written more than the copy shows.
LEMMA VerdictTrue ==
  ASSUME ReportInv, NEW w \in RowShows,
         TurnVerdict(Copy, quiet, [working |-> w, box |-> box]) \in StoppedByScreen,
         NEW p \in 1 .. mirrored, Open(p, mirrored), p \notin escaped
  PROVE  \E i \in mirrored + 1 .. Len(log) : log[i] \notin Skipped
<1> DEFINE screen == [working |-> w, box |-> box]
<1>1. /\ log \in Seq(Kinds) /\ Len(log) \in Nat /\ mirrored \in 0 .. Len(log)
      /\ quiet \in 0 .. Stalled /\ escaped \subseteq 1 .. Len(log)
      /\ \A e \in escaped : log[e] = "prompt"
  BY DEF ReportInv, LogInv, LogTyped
<1> SUFFICES ASSUME \A i \in mirrored + 1 .. Len(log) : log[i] \in Skipped PROVE FALSE
  OBVIOUS
<1>2. p \in 1 .. Len(log) /\ Open(p, Len(log)) BY <1>1 DEF Open
\* The prompt is the one Claude is at work on.
<1>3. claude = "asked" /\ opener = p BY <1>2 DEF ReportInv, LogInv, StoppedOrAsked
<1>4. ~w /\ (Restored(Copy, screen) \/ known \/ quiet >= Stalled)
  <2>1. screen.working = w BY DEF screen
  <2> QED BY <2>1, VerdictIs
<1>5. ~row BY <1>3, <1>4 DEF RowShows
<1>6. ~known BY <1>5 DEF ReportInv, LogInv, KnownTrue
<1>7. ~(quiet >= Stalled)
  <2>1. Given
    <3>1. \A i \in 1 .. Len(log) : log[i] = "result" => i <= p
      BY <1>1, <1>2 DEF Open, Skipped, Meta, StopRecords
    <3> QED BY <1>1, <1>3, <3>1 DEF Given
  <2> QED BY <1>1, <1>3, <1>5, <2>1 DEF ReportInv, NotSilent, Working, Stalled
<1>8. box = "restored"
  <2>1. screen.box = box BY DEF screen
  <2> QED BY <1>4, <1>6, <1>7, <2>1 DEF Restored
<1>9. PICK e \in escaped : \A i \in 1 .. Len(log) : log[i] = "prompt" => i <= e
  BY <1>8 DEF ReportInv, LogInv, RestoredLast
<1>10. e \in 1 .. Len(log) /\ log[e] = "prompt" /\ p <= e
  BY <1>1, <1>2, <1>9 DEF Open
<1>11. e = p BY <1>2, <1>10 DEF Open, Skipped, Meta, StopRecords
<1> QED BY <1>11

LEMMA WatchLookKeepsReport ==
  ASSUME ReportInv, WatchLook
  PROVE  WatcherTyped' /\ LookFresh' /\ LookSecond' /\ PollsTrue' /\ ReportTrue'
<1>1. /\ log \in Seq(Kinds) /\ Len(log) \in Nat /\ mirrored \in 0 .. Len(log)
      /\ quiet \in 0 .. Stalled /\ LastExists
  BY DEF ReportInv, LogInv, LogTyped
<1>2. /\ UNCHANGED <<log, mirrored, quiet, escaped, watched>> /\ watch.st = "look"
  BY DEF WatchLook
<1>3. /\ watch \in WatchKinds /\ watch.seen \in 0 .. mirrored /\ watch.polls \in 0 .. 1
      /\ watched \in BOOLEAN /\ watched
  BY <1>1, <1>2 DEF ReportInv, WatcherTyped, WatchKinds
<1>4. PICK w \in RowShows :
        LET why == Verdict([working |-> w, box |-> box])
        IN  /\ watch' = [watch EXCEPT
                           !.st = "post",
                           !.polls = PollsAfter(why),
                           !.wrote = IF PollsAfter(why) = 0 THEN 0 ELSE Len(log),
                           !.cut = IF Confirms(why) THEN CutOffAfter(Read) ELSE 0]
            /\ reported' = (IF Confirms(why) THEN CutOffAfter(Read) ELSE reported)
  BY DEF WatchLook
<1> DEFINE screen == [working |-> w, box |-> box]
           why == Verdict(screen)
           cut == CutOffAfter(Read)
<1>5. cut \in 0 .. watch.seen /\ (cut # 0 => Open(cut, watch.seen))
  <2>1. watch.seen \in 0 .. Len(log) BY <1>1, <1>3
  <2>2. LET u == Unanswered(SubSeq(log, 1, watch.seen))
        IN  u \in 0 .. watch.seen /\ (u # 0 => Open(u, watch.seen))
    BY <1>1, <2>1, UnansweredIs
  <2> QED BY <2>1, <2>2 DEF CutOffAfter, Read
<1>6. why \in StoppedByScreen => why = TurnVerdict(Read, watch.quiet, screen)
  BY DEF Verdict, StoppedByScreen
<1>7. /\ PollsAfter(why) \in 0 .. 1
      /\ Confirms(why) => PollsAfter(why) = 0 /\ watch.polls = 1
      /\ PollsAfter(why) = 1 => why \in StoppedByScreen \/ watch.polls = 1
  BY <1>3 DEF PollsAfter, Confirms
<1> HIDE DEF why, cut
<1>8. /\ watch'.st = "post" /\ watch'.polls = PollsAfter(why) /\ watch'.seen = watch.seen
      /\ watch'.wrote = (IF PollsAfter(why) = 0 THEN 0 ELSE Len(log))
      /\ watch' \in WatchKinds
      /\ reported' \in {reported, cut} /\ (reported' = reported \/ Confirms(why))
  <2>1. cut \in Nat BY <1>3, <1>5
  <2>2. (IF PollsAfter(why) = 0 THEN 0 ELSE Len(log)) \in Nat BY <1>1
  <2> QED BY <1>3, <1>4, <1>7, <2>1, <2>2 DEF WatchKinds, why, cut
<1>9. WatcherTyped'
  <2>1. watch'.seen <= mirrored' /\ watch'.wrote <= Len(log') BY <1>1, <1>2, <1>3, <1>7, <1>8
  <2>2. watched' \in BOOLEAN /\ watched' BY <1>2, <1>3
  <2> QED BY <1>8, <2>1, <2>2 DEF WatcherTyped
<1>10. LookFresh' /\ LookSecond' BY <1>8 DEF LookFresh, LookSecond
<1>11. ReportTrue'
  <2>1. CASE reported' = reported BY <1>2, <2>1 DEF ReportInv, ReportTrue
  <2>2. CASE reported' = cut /\ watch.polls = 1
    BY <1>2, <1>3, <1>5, <2>2 DEF ReportInv, LookSecond, ReportTrue
  <2> QED BY <1>7, <1>8, <2>1, <2>2
<1>12. PollsTrue'
  <2> SUFFICES ASSUME PollsAfter(why) = 1, quiet >= LogQuiet,
                      NEW p \in 1 .. mirrored, Open(p, mirrored), p \notin escaped
               PROVE  \E i \in mirrored + 1 .. Len(log) : log[i] \notin Skipped
    BY <1>2, <1>8 DEF PollsTrue, Open, Skipped
  <2>1. watch.seen = mirrored /\ watch.quiet = quiet
    BY <1>1, <1>2 DEF ReportInv, LookFresh, LogQuiet
  <2>2. watch.polls # 1 BY <1>2, <2>1 DEF ReportInv, LookSecond
  <2>3. TurnVerdict(Copy, quiet, screen) \in StoppedByScreen
    <3> Read = Copy BY <2>1 DEF Read, Copy
    <3> QED BY <1>6, <1>7, <2>1, <2>2
  <2> QED BY <2>3, VerdictTrue
<1> QED BY <1>9, <1>10, <1>11, <1>12

LEMMA RestKeepsReport ==
  ASSUME ReportInv, WatchPost \/ Restart
  PROVE  WatcherTyped' /\ LookFresh' /\ LookSecond' /\ PollsTrue' /\ ReportTrue'
<1>1. /\ Len(log) \in Nat /\ mirrored \in 0 .. Len(log)
  BY DEF ReportInv, LogInv, LogTyped
<1>2. UNCHANGED <<log, mirrored, quiet, escaped, watched, reported>> BY DEF WatchPost, Restart
<1>3. /\ watch \in WatchKinds /\ watch.polls \in 0 .. 1 /\ watch.wrote \in 0 .. Len(log)
      /\ watched \in BOOLEAN /\ (watch.st # "rest" \/ watch.polls = 1 => watched)
  BY <1>1 DEF ReportInv, WatcherTyped, WatchKinds
<1>4. PICK polls \in {0, watch.polls}, wrote \in {0, watch.wrote} :
        /\ watch' = Resting(polls, wrote)
        /\ polls = 1 => wrote = watch.wrote /\ watch.polls = 1 /\ watch.st = "post"
  BY DEF WatchPost, Restart
<1>5. watch' = [st |-> "rest", polls |-> polls, wrote |-> wrote, quiet |-> 0, seen |-> 0,
                cut |-> 0]
  BY <1>4 DEF Resting
<1>6. watch'.st = "rest" /\ watch'.polls = polls /\ watch'.wrote = wrote /\ watch'.seen = 0
  BY <1>5
<1>7. WatcherTyped'
  <2>1. watch' \in WatchKinds BY <1>3, <1>5 DEF WatchKinds, Stalled
  <2>2. watch'.seen <= mirrored' /\ watch'.wrote <= Len(log') BY <1>1, <1>2, <1>3, <1>6
  <2>3. polls = 1 => watched BY <1>3, <1>4
  <2> QED BY <1>2, <1>3, <1>6, <2>1, <2>2, <2>3 DEF WatcherTyped
<1>8. LookFresh' /\ LookSecond' BY <1>6 DEF LookFresh, LookSecond
<1>9. PollsTrue'
  <2> SUFFICES ASSUME polls = 1, quiet >= LogQuiet,
                      NEW p \in 1 .. mirrored, Open(p, mirrored), p \notin escaped
               PROVE  \E i \in mirrored + 1 .. wrote : log[i] \notin Skipped
    BY <1>2, <1>6 DEF PollsTrue, Open, Skipped
  <2> QED BY <1>4 DEF ReportInv, PollsTrue
<1>10. ReportTrue' BY <1>2 DEF ReportInv, ReportTrue
<1> QED BY <1>7, <1>8, <1>9, <1>10

LEMMA ReportInvKept ==
  ASSUME ReportInv, [Next]_vars, "silent" \notin Faults, "samecopy" \notin Faults
  PROVE  ReportInv'
<1>1. LogInv' BY LogInvKept DEF ReportInv
<1>2. NotSilent' BY NotSilentKept
<1>3. WatcherTyped' /\ LookFresh' /\ LookSecond' /\ PollsTrue' /\ ReportTrue'
  BY OthersKeepReport, WatchReadKeepsReport, WatchLookKeepsReport, RestKeepsReport
  DEF WatchStep
<1> QED BY <1>1, <1>2, <1>3 DEF ReportInv

LEMMA ReportInvHolds ==
  ASSUME "silent" \notin Faults, "samecopy" \notin Faults
  PROVE  Spec => []ReportInv
<1>1. Init => ReportInv BY ReportInvInit
<1>2. ReportInv /\ [Next]_vars => ReportInv' BY ReportInvKept
<1> QED BY <1>1, <1>2, PTL DEF Spec

(***************************************************************************)
(* Only a prompt that Esc really stopped is reported as stopped            *)
(* (_interrupted_before_output), while Claude writes at least once in      *)
(* _LOG_STALL_S where the row is not recognized, and a copy of the mirror  *)
(* falls between two polls of the watcher. TLC shows both are needed.      *)
(***************************************************************************)
THEOREM ReportsOnlyWhatEscStopped ==
  ASSUME "silent" \notin Faults, "samecopy" \notin Faults
  PROVE  Spec => []ReportTrue
<1>1. ReportInv => ReportTrue BY DEF ReportInv
<1> QED BY <1>1, ReportInvHolds, PTL

-----------------------------------------------------------------------------
(* The send path again: nothing is pasted into a running turn. *)

\* What Claude works on.
LEMMA CurrentIs ==
  ASSUME LogInv
  PROVE  /\ claude = "given" => Current = Len(log) + 1
         /\ claude # "given" =>
              /\ Current \in 0 .. Len(log) /\ opener <= Current
              /\ \A i \in 1 .. Len(log) : log[i] = "result" => i <= Current
              /\ Current = opener \/ log[Current] = "result"
<1>1. log \in Seq(Kinds) /\ Len(log) \in Nat /\ opener \in 0 .. Len(log) /\ LastExists
  BY DEF LogInv, LogTyped
<1>2. CASE claude = "given" BY <1>2 DEF Current
<1>3. CASE claude # "given"
  <2> DEFINE l == LastOf(log, {"result"})
  <2>1. SubSeq(log, 1, Len(log)) = log BY <1>1
  <2>2. LET k == LastOf(SubSeq(log, 1, Len(log)), {"result"})
        IN  /\ k \in 0 .. Len(log)
            /\ k # 0 => log[k] \in {"result"}
            /\ \A i \in k + 1 .. Len(log) : log[i] \notin {"result"}
    BY <1>1, LastOfIs
  <2>3. /\ l \in 0 .. Len(log)
        /\ l # 0 => log[l] = "result"
        /\ \A i \in l + 1 .. Len(log) : log[i] # "result"
    BY <2>1, <2>2
  <2>4. Current = Max({opener, l}) BY <1>3 DEF Current
  <2> HIDE DEF l
  <2>5. Current = (IF opener >= l THEN opener ELSE l)
    <3> DEFINE S == {opener, l}
    <3>0. S \in SUBSET Int /\ opener \in Int /\ l \in Int BY <1>1, <2>3
    <3>1. CASE opener >= l
      <4> opener \in S /\ \A t \in S : t <= opener BY <3>0, <3>1
      <4> Max(S) = opener BY <3>0, MaxIs
      <4> QED BY <2>4, <3>1
    <3>2. CASE ~(opener >= l)
      <4> l \in S /\ \A t \in S : t <= l BY <3>0, <3>2
      <4> Max(S) = l BY <3>0, MaxIs
      <4> QED BY <2>4, <3>2
    <3> QED BY <3>1, <3>2
  <2> QED BY <1>1, <1>3, <2>3, <2>5
<1> QED BY <1>2, <1>3

\* What is written does not change the copy.
LEMMA CopyStays ==
  ASSUME LogInv, [Next]_vars, UNCHANGED mirrored
  PROVE  Copy' = Copy
<1>1. /\ Len(log) \in Nat /\ Len(log') \in Nat /\ Len(log) <= Len(log')
      /\ \A i \in 1 .. Len(log) : log'[i] = log[i]
  BY Grows
<1>2. log \in Seq(Kinds) /\ mirrored \in 0 .. Len(log) BY DEF LogInv, LogTyped
<1>3. log' \in Seq(Kinds) BY LogInvKept DEF LogInv, LogTyped
<1>4. Copy = [i \in 1 .. mirrored |-> log[i]] BY <1>2 DEF Copy
<1>5. Copy' = [i \in 1 .. mirrored |-> log'[i]] BY <1>1, <1>2, <1>3 DEF Copy
<1>6. \A i \in 1 .. mirrored : log'[i] = log[i] BY <1>1, <1>2
<1> QED BY <1>4, <1>5, <1>6

\* A prompt that Esc stopped is not the open turn's, and hides nothing of it.
LEMMA StoppedIsNotOpen ==
  ASSUME PasteInv, Working, opener <= mirrored,
         NEW p \in escaped, p <= mirrored, Open(p, mirrored)
  PROVE  FALSE
<1>1. /\ log \in Seq(Kinds) /\ Len(log) \in Nat /\ mirrored \in 0 .. Len(log)
      /\ escaped \subseteq 1 .. Len(log)
  BY DEF PasteInv, ReportInv, LogInv, LogTyped
<1>2. /\ opener \in 1 .. Len(log) /\ opener # p /\ log[opener] \in {"prompt", "notice", "peer"}
      /\ \A i \in opener + 1 .. Len(log) : log[i] \in Assistant \cup Meta \cup {"result"}
  BY DEF PasteInv, ReportInv, LogInv, LogTyped, TurnOpen
<1>3. p \in 1 .. mirrored /\ log[p] = "prompt" /\ \A i \in p + 1 .. mirrored : log[i] \in Skipped
  BY <1>1 DEF Open
<1>4. CASE opener < p BY <1>1, <1>2, <1>3, <1>4 DEF Assistant, Meta
<1>5. CASE p < opener
  <2>1. log[opener] = "peer" BY <1>1, <1>2, <1>3, <1>5 DEF Skipped, Meta, StopRecords
  <2>2. p \in 1 .. opener - 1 BY <1>1, <1>2, <1>3, <1>5
  <2>3. PICK i \in p + 1 .. opener - 1 : log[i] \notin Skipped
    BY <2>1, <2>2, <1>3 DEF PasteInv, PeerFresh
  <2> QED BY <1>1, <1>2, <1>3, <2>3
<1> QED BY <1>1, <1>2, <1>3, <1>4, <1>5

\* Where the answer may be that Claude is idle, by the evidence for it.
LEMMA MayPasteIs ==
  ASSUME NEW screen, MayPaste(screen)
  PROVE  /\ screen.box = "empty" /\ ~(echo /\ ~Arrived)
         /\ \/ mirrored = 0
            \/ Unanswered(Copy) # 0 /\ reported = Unanswered(Copy)
            \/ ~InProgress(Copy)
            \/ /\ InProgress(Copy) /\ ~(quiet < LogQuiet) /\ ~HooksMayRun(Copy, quiet)
               /\ ~screen.working
               /\ known \/ quiet >= Stalled
<1> DEFINE why == TurnVerdict(Copy, quiet, screen)
           cut == Unanswered(Copy)
<1>1. screen.box = "empty" /\ Why(screen) \in TurnIdle BY DEF MayPaste
<1>2. Why(screen) = (IF echo /\ ~Arrived THEN "sent_prompt_not_in_log"
                     ELSE IF mirrored = 0 THEN "transcript_none"
                     ELSE IF cut # 0 /\ ~screen.working /\ reported = cut
                       THEN "interrupt_reported"
                     ELSE IF ReportDue(cut, why) THEN "interrupt_not_reported_yet" ELSE why)
  BY DEF Why
<1>3. ~Restored(Copy, screen) BY <1>1 DEF Restored
<1>4. why \in TurnIdle =>
        \/ ~InProgress(Copy)
        \/ /\ InProgress(Copy) /\ ~(quiet < LogQuiet) /\ ~HooksMayRun(Copy, quiet)
           /\ ~screen.working
           /\ known \/ quiet >= Stalled
  <2> HIDE DEF why
  <2>1. why \in TurnIdle => \/ why = "log_finished" \/ why \in StoppedByScreen
                            \/ why = "transcript_none" \/ why = "interrupt_reported"
    BY DEF TurnIdle
  <2> QED BY <1>3, <2>1, VerdictIs DEF why
<1> HIDE DEF why, cut
<1>5. Why(screen) = "sent_prompt_not_in_log" \/ Why(screen) = "interrupt_not_reported_yet" =>
        Why(screen) \notin TurnIdle
  BY DEF TurnIdle, StoppedByScreen
<1> QED BY <1>1, <1>2, <1>4, <1>5 DEF cut

LEMMA NeverIntoRunningTurnStep ==
  ASSUME PasteInv, [Next]_vars, Pastes, Busy, ran = Current, "unreadable" \notin Faults
  PROVE  Unseen
<1>1. Paste BY PastesInPaste DEF PasteInv
<1>2. send.st = "looked" /\ send.streak = 1 /\ MayPaste(send.screen)
  BY <1>1 DEF Paste, Free, FreeUnread
<1> SUFFICES ASSUME ~Unseen PROVE FALSE OBVIOUS
<1>3. /\ log \in Seq(Kinds) /\ Len(log) \in Nat /\ mirrored \in 0 .. Len(log) /\ LastExists
      /\ opener \in 0 .. Len(log) /\ quiet \in 0 .. Stalled
      /\ claude \in {"idle", "given", "asked", "working", "between", "asking", "hooks"}
      /\ since \in 0 .. Len(log) /\ since <= mirrored /\ ran \in Nat
  BY <1>2 DEF PasteInv, ReportInv, SenderInv, SenderTyped, SecondSees, LogInv, LogTyped
\* The turn is in the copy, and what it was last given.
<1>4. Working /\ opener # 0 /\ opener <= ran /\ ran <= mirrored /\ ran # 0 /\ Given
  <2>1. ran # 0
    <3>1. CASE claude = "given" BY <1>3, <3>1, CurrentIs DEF PasteInv, ReportInv
    <3>2. CASE claude # "given"
      <4> opener <= Current /\ opener # 0 /\ Current \in Nat
        BY <3>2, <1>3, CurrentIs DEF PasteInv, ReportInv, LogInv, TurnOpen, Working, Busy
      <4> QED BY <1>3
    <3> QED BY <3>1, <3>2
  <2>2. ran <= mirrored BY <1>2, <1>3, <2>1 DEF PasteInv, FirstFree
  <2>3. claude # "given" BY <1>3, <2>2, CurrentIs DEF PasteInv, ReportInv
  <2>4. Working BY <2>3 DEF Working, Busy
  <2>5. opener # 0 BY <2>4 DEF PasteInv, ReportInv, LogInv, TurnOpen
  <2>6. opener <= ran /\ \A i \in 1 .. Len(log) : log[i] = "result" => i <= ran
    BY <2>3, CurrentIs DEF PasteInv, ReportInv
  <2> QED BY <1>3, <2>1, <2>2, <2>4, <2>5, <2>6 DEF Given
<1>5. mirrored \in 1 .. Len(log) /\ opener <= mirrored BY <1>3, <1>4
\* It shows there, for all that the copy can show.
<1>6. InProgress(Copy)
  <2>1. CASE mirrored = opener
    <3> log[mirrored] \in {"prompt", "notice", "peer"}
      BY <1>4, <2>1 DEF PasteInv, ReportInv, LogInv, TurnOpen
    <3> QED BY <1>3, <1>5, InProgressAt DEF Copy, Meta
  <2>2. CASE opener < mirrored
    <3>1. log[mirrored] \in Assistant \cup Meta \cup {"result"}
      BY <1>3, <1>4, <1>5, <2>2 DEF PasteInv, ReportInv, LogInv, TurnOpen
    <3>2. claude # "given" BY <1>4 DEF Working
    <3>3. log[mirrored] \notin {"error", "ask"}
          /\ (log[mirrored] = "reply" => HasStopRecords(Copy))
      BY <2>2, <3>2 DEF Unseen
    <3> QED BY <1>3, <1>5, <3>1, <3>3, InProgressAt DEF Copy, Assistant
  <2> QED BY <1>3, <1>5, <2>1, <2>2
<1>7. ~(Unanswered(Copy) # 0 /\ reported = Unanswered(Copy))
  <2> SUFFICES ASSUME Unanswered(Copy) # 0, reported = Unanswered(Copy) PROVE FALSE
    OBVIOUS
  <2>1. reported \in escaped BY DEF PasteInv, ReportInv, ReportTrue
  <2>2. reported <= mirrored /\ Open(reported, mirrored)
    <3> LET u == Unanswered(SubSeq(log, 1, mirrored))
        IN  u \in 0 .. mirrored /\ (u # 0 => Open(u, mirrored))
      BY <1>3, UnansweredIs
    <3> QED BY <1>3 DEF Copy
  <2> QED BY <1>4, <1>5, <2>1, <2>2, StoppedIsNotOpen
<1>8. /\ send.screen.box = "empty" /\ ~(quiet < LogQuiet) /\ ~HooksMayRun(Copy, quiet)
      /\ known \/ quiet >= Stalled
  BY <1>2, <1>5, <1>6, <1>7, MayPasteIs
\* Where the row is not recognized, Claude would have written.
<1>9. CASE ~row
  <2>1. quiet >= Stalled BY <1>8, <1>9 DEF PasteInv, ReportInv, LogInv, KnownTrue
  <2>2. quiet < Stalled
    BY <1>2, <1>4, <1>8, <1>9 DEF PasteInv, ReportInv, NotSilent, AskedNow
  <2> QED BY <1>3, <2>1, <2>2 DEF Stalled
\* Where it is, Stop hooks are running.
<1>10. CASE row
  <2>1. HooksHeld
    <3>1. quiet >= Settled BY <1>3, <1>8 DEF LogQuiet, Settled, Stalled
    <3> QED BY <1>2, <1>4, <1>5, <1>6, <1>10, <3>1, StoppedIsNotOpen DEF PasteInv, FirstFree
  <2>2. mirrored = since /\ log[mirrored] = "reply" /\ opener < mirrored
    BY <1>3, <1>4, <2>1 DEF HooksHeld
  <2>3. HasStopRecords(Copy) BY <1>4, <2>2 DEF Unseen, Working
  <2>4. quiet < HooksWaited BY <2>1, <2>2, <2>3 DEF HooksHeld
  <2>5. Copy # <<>> /\ Last(Copy) = "reply" BY <1>3, <1>5, <2>2 DEF Copy, Last
  <2> QED BY <1>8, <2>3, <2>4, <2>5 DEF HooksMayRun, AwaitingHooks
<1> QED BY <1>9, <1>10

\* The rare events with which a reading cannot tell: left out are "late" and "lateesc".
Blinding == {"slowhook", "lateprompt", "quickrestart", "silent", "samecopy", "merge",
             "unreadable"}

LEMMA PasteInvInit == Init => PasteInv
<1> SUFFICES ASSUME Init PROVE PasteInv OBVIOUS
<1>1. ReportInv /\ SenderInv BY ReportInvInit, SenderInvInit
<1>2. claude = "idle" /\ send = Waiting(0) /\ ran = 0 BY DEF Init
<1>3. RecordsTrue
  <2>1. log = <<>> \/ (records /\ log = <<"prompt", "reply", "duration">>)
        \/ log = <<"local", "prompt", "reply">>
    BY DEF Init, Exchange
  <2>2. CASE log = <<>> BY <2>2 DEF RecordsTrue
  <2>3. CASE records BY <2>3 DEF RecordsTrue
  <2>4. CASE log = <<"local", "prompt", "reply">>
    <3> Len(log) = 3 /\ log[1] = "local" /\ log[2] = "prompt" /\ log[3] = "reply" BY <2>4
    <3> HIDE <2>4
    <3> QED BY DEF RecordsTrue, StopRecords
  <2> QED BY <2>1, <2>2, <2>3, <2>4
<1> QED
  BY <1>1, <1>2, <1>3
  DEF PasteInv, GivenEcho, PeerFresh, AskedNow, HooksReport, FirstLook, FirstFree, Working,
    Waiting

\* A paste on its way is waited for, until the transcript shows it.
LEMMA GivenEchoKept ==
  ASSUME PasteInv, [Next]_vars, "lateprompt" \notin Faults, "quickrestart" \notin Faults
  PROVE  GivenEcho'
<1> SUFFICES ASSUME claude' = "given" PROVE echo' BY DEF GivenEcho
<1>0. claude = "given" => echo /\ ~Arrived BY DEF PasteInv, GivenEcho, Arrived
<1>1. CASE Paste
  <2>1. claude # "given" BY <1>0, <1>1, MayPasteIs DEF Paste, Free, FreeUnread
  <2>2. ~Busy BY <1>1, <2>1 DEF Paste
  <2> QED BY <1>1, <2>2 DEF Paste
<1>2. CASE SendRead
  <2>1. claude = "given" BY <1>2 DEF SendRead, NotFree, FreeOnce
  <2>2. echo' = (echo /\ ~Arrived) BY <1>2 DEF SendRead
  <2> QED BY <1>0, <2>1, <2>2
<1>3. CASE EchoEnds BY <1>0, <1>3 DEF EchoEnds
<1>4. CASE Restart BY <1>4 DEF Restart
<1>5. CASE ~Paste /\ ~SendRead /\ ~EchoEnds /\ ~Restart
  <2>1. claude = "given" /\ echo' = echo
    <3> USE DEF Opens, Writes
    <3>1. CASE SendLook \/ Connect \/ WatchStep
      BY <3>1 DEF SendLook, Connect, WatchStep, WatchRead, WatchLook, WatchPost
    <3>2. CASE Claude
      BY <3>2 DEF Claude, PasteShows, Works, Segment, Replies, Asks, Fails, HooksAllow, HooksPush
    <3>3. CASE Person BY <3>3 DEF Person, Prompted, Drafts, Answered, EarlyEsc, Esc
    <3>4. CASE Notified \/ Handed BY <3>4 DEF Notified, Handed
    <3>5. CASE Mirror \/ Tick BY <3>5 DEF Mirror, Tick
    <3>6. CASE UNCHANGED vars BY <3>6
    <3> QED BY <1>5, <3>1, <3>2, <3>3, <3>4, <3>5, <3>6 DEF Next, Server, SendStep
  <2> QED BY <1>0, <2>1
<1> QED BY <1>1, <1>2, <1>3, <1>4, <1>5

\* A message that opens a turn finds every prompt before it answered.
LEMMA PeerFreshKept ==
  ASSUME PasteInv, [Next]_vars, "merge" \notin Faults
  PROVE  PeerFresh'
<1>0. /\ log \in Seq(Kinds) /\ Len(log) \in Nat /\ opener \in 0 .. Len(log) /\ LastExists
  BY DEF PasteInv, ReportInv, LogInv, LogTyped
<1>1. /\ \A i \in 1 .. Len(log) : log'[i] = log[i]
      /\ Len(log') \in Nat
  BY Grows DEF PasteInv, ReportInv
<1> SUFFICES ASSUME Working', log'[opener'] = "peer",
                    NEW p \in 1 .. opener' - 1, log'[p] = "prompt"
             PROVE  \E i \in p + 1 .. opener' - 1 : log'[i] \notin Skipped
  BY DEF PeerFresh, Skipped
<1>2. CASE \E k \in {"prompt", "notice", "peer"} : Opens(k) /\ ~(k = "peer" /\ Merges)
  <2>1. PICK k \in {"prompt", "notice", "peer"} : Opens(k) /\ ~(k = "peer" /\ Merges) BY <1>2
  <2>2. opener' = Len(log) + 1 /\ log' = log \o <<k>> BY <2>1 DEF Opens, Here, Says
  <2>3. k = "peer" /\ log[p] = "prompt" /\ p \in 1 .. Len(log) BY <1>0, <1>1, <2>2
  <2>4. ~InProgress(log) BY <2>1, <2>3 DEF Merges
  <2>5. ~Open(p, Len(log))
    <3> SUFFICES ASSUME Open(p, Len(log)) PROVE FALSE OBVIOUS
    <3>1. \A i \in p + 1 .. Len(log) : log[i] \in Meta
      BY <2>3 DEF PasteInv, ReportInv, LogInv, StoppedOrAsked
    <3>2. Len(log) \in 1 .. Len(log) /\ log[Len(log)] \in Meta \cup {"prompt"}
      BY <1>0, <2>3, <3>1
    <3>3. SubSeq(log, 1, Len(log)) = log BY <1>0
    <3>4. InProgress(SubSeq(log, 1, Len(log))) BY <1>0, <3>2, InProgressAt
    <3> QED BY <2>4, <3>3, <3>4
  <2> QED BY <1>0, <1>1, <2>2, <2>3, <2>5 DEF Open
<1>3. CASE Working /\ opener' = opener
  <2>1. opener # 0 BY <1>3 DEF PasteInv, ReportInv, LogInv, TurnOpen
  <2>2. log[opener] = "peer" /\ p \in 1 .. opener - 1 /\ log[p] = "prompt"
    BY <1>0, <1>1, <1>3, <2>1
  <2>3. PICK i \in p + 1 .. opener - 1 : log[i] \notin Skipped
    BY <1>3, <2>2 DEF PasteInv, PeerFresh
  <2>4. i \in 1 .. Len(log) BY <1>0, <2>3
  <2> QED BY <1>1, <1>3, <2>3, <2>4
<1>4. Answered => Working /\ opener' = opener BY DEF Answered, Writes, Working
<1> QED BY <1>2, <1>3, <1>4, WorkGoesOn

\* A question that comes after the look came after something was written.
LEMMA AskedNowKept ==
  ASSUME PasteInv, [Next]_vars
  PROVE  AskedNow'
<1>0. /\ log \in Seq(Kinds) /\ Len(log) \in Nat /\ opener \in 0 .. Len(log)
      /\ mirrored \in 0 .. Len(log)
      /\ send \in [st : {"wait", "looked"}, screen : Screens, streak : 0 .. 1]
  BY DEF PasteInv, ReportInv, SenderInv, SenderTyped, LogInv, LogTyped
<1> SUFFICES ASSUME send'.st = "looked", send'.screen.box = "empty", claude' = "asking", ~row',
                    Given'
             PROVE  quiet' < Stalled
  BY DEF AskedNow, Stalled
<1>1. CASE SendLook
  <2>1. claude = "asking" /\ send'.screen.box = box
    <3>1. PICK w \in RowShows :
            send' = [send EXCEPT !.st = "looked", !.screen = [working |-> w, box |-> box]]
      BY <1>1 DEF SendLook
    <3> QED BY <1>0, <1>1, <3>1 DEF SendLook
  <2> QED BY <2>1 DEF PasteInv, ReportInv, LogInv, LastLine
<1>2. CASE SendRead \/ Paste \/ Restart
  BY <1>2 DEF SendRead, NotFree, FreeOnce, Paste, Restart, Over, Waiting
<1>3. CASE ~SendStep /\ ~Restart
  <2>1. send' = send BY <1>3, SenderOnly
  <2>2. ~Tick BY <2>1 DEF Tick, NoReading
  <2>3. CASE Mirror BY <2>3 DEF Mirror, Stalled
  <2>4. CASE ~Mirror
    <3>1. UNCHANGED <<mirrored, quiet>> BY <2>2, <2>4, CopyOnly
    <3>2. Len(log') \in Nat /\ Len(log) <= Len(log') /\ \A i \in 1 .. Len(log) : log'[i] = log[i]
      BY Grows DEF PasteInv, ReportInv
    <3>3. Working /\ opener' = opener
      <4>1. ~\E k \in {"prompt", "notice", "peer"} : Opens(k) BY DEF Opens
      <4>2. ~Answered BY DEF Answered, Writes
      <4>3. Working' BY DEF Working
      <4> QED BY <4>1, <4>2, <4>3, WorkGoesOn
    <3>4. Given BY <1>0, <3>1, <3>2, <3>3 DEF Given
    <3>5. ~row BY WorkGoesOn
    <3> QED BY <2>1, <3>1, <3>3, <3>4, <3>5 DEF PasteInv, ReportInv, NotSilent, AskedNow
  <2> QED BY <2>3, <2>4
<1> QED BY <1>1, <1>2, <1>3 DEF SendStep

\* Stop records come from a Claude Code that writes them.
LEMMA RecordsTrueKept ==
  ASSUME PasteInv, [Next]_vars
  PROVE  RecordsTrue' /\ records' = records
<1>1. log \in Seq(Kinds) /\ Len(log) \in Nat BY DEF PasteInv, ReportInv, LogInv, LogTyped
<1>2. /\ records' = records
      /\ UNCHANGED log \/ \E k \in Kinds : Says(<<k>>) /\ (k \in StopRecords => records)
  <2> USE DEF Kinds, Assistant, UserPrompts, Typed, Meta, StopRecords, Opens, Writes
  <2>1. CASE Server
    BY <2>1 DEF Server, SendStep, SendLook, SendRead, NotFree, FreeOnce, Paste, EchoEnds,
      Connect, WatchStep, WatchRead, WatchLook, WatchPost, Restart
  <2>2. CASE Claude
    BY <2>2 DEF Claude, PasteShows, Works, Segment, Replies, Asks, Fails, HooksAllow,
      HooksPush, GoesOn
  <2>3. CASE Person BY <2>3 DEF Person, Prompted, Drafts, Answered, EarlyEsc, Esc
  <2>4. CASE Notified \/ Handed BY <2>4 DEF Notified, Handed
  <2>5. CASE Mirror \/ Tick BY <2>5 DEF Mirror, Tick
  <2>6. CASE UNCHANGED vars BY <2>6
  <2> QED BY <2>1, <2>2, <2>3, <2>4, <2>5, <2>6 DEF Next
<1>3. CASE UNCHANGED log BY <1>2, <1>3 DEF PasteInv, RecordsTrue, StopRecords
<1>4. CASE \E k \in Kinds : Says(<<k>>) /\ (k \in StopRecords => records)
  <2>1. PICK k \in Kinds : Says(<<k>>) /\ (k \in StopRecords => records) BY <1>4
  <2>2. Grown(k) BY <1>1, <2>1, SaysGrows
  <2>3. ASSUME NEW i \in 1 .. Len(log'), log'[i] \in StopRecords PROVE records
    BY <1>1, <2>1, <2>2, <2>3 DEF Grown, PasteInv, RecordsTrue
  <2> QED BY <1>2, <2>3 DEF RecordsTrue, StopRecords
<1> QED BY <1>2, <1>3, <1>4

\* The hooks run until there is one more line, where they write any.
LEMMA HooksRun ==
  ASSUME PasteInv, [Next]_vars, claude = "hooks", Len(log') = Len(log)
  PROVE  claude' = "hooks" \/ ~records
<1>1. log \in Seq(Kinds) /\ Len(log) \in Nat BY DEF PasteInv, ReportInv, LogInv, LogTyped
<1>2. ASSUME NEW k \in Kinds, Says(<<k>>) PROVE FALSE
  <2> Grown(k) BY <1>1, <1>2, SaysGrows
  <2> QED BY <1>1 DEF Grown
<1> USE DEF Kinds, Assistant, UserPrompts, Typed, Meta, StopRecords, Opens, Writes
<1>3. CASE Server
  BY <1>3 DEF Server, SendStep, SendLook, SendRead, NotFree, FreeOnce, Paste, EchoEnds, Busy,
    Connect, WatchStep, WatchRead, WatchLook, WatchPost, Restart
<1>4. CASE Claude
  BY <1>2, <1>4 DEF Claude, PasteShows, Works, Segment, Replies, Asks, Fails, HooksAllow, HooksPush
<1>5. CASE Person BY <1>5 DEF Person, Prompted, Drafts, Answered, EarlyEsc, Esc
<1>6. CASE Notified \/ Handed BY <1>6 DEF Notified, Handed
<1>7. CASE Mirror \/ Tick BY <1>7 DEF Mirror, Tick
<1>8. CASE UNCHANGED vars BY <1>8
<1> QED BY <1>3, <1>4, <1>5, <1>6, <1>7, <1>8 DEF Next

LEMMA HooksReportKept ==
  ASSUME PasteInv, [Next]_vars, "slowhook" \notin Faults
  PROVE  HooksReport'
<1>0. /\ log \in Seq(Kinds) /\ Len(log) \in Nat /\ mirrored \in 0 .. Len(log)
      /\ quiet \in 0 .. Stalled
  BY DEF PasteInv, ReportInv, LogInv, LogTyped
<1> SUFFICES ASSUME claude' = "hooks", mirrored' = Len(log'), HasStopRecords(Copy')
             PROVE  quiet' < HooksWaited
  BY DEF HooksReport, HasStopRecords, HooksWaited
<1>1. CASE Mirror BY <1>1 DEF Mirror, HooksWaited
<1>2. CASE Tick
  <2>1. UNCHANGED <<claude, log, mirrored>> /\ quiet' = quiet + 1 /\ MayBeQuiet(quiet + 1)
        /\ mirrored = Len(log)
    BY <1>2 DEF Tick
  <2>2. Copy' = log BY <1>0, <2>1 DEF Copy
  <2> QED BY <2>1, <2>2 DEF MayBeQuiet
<1>3. CASE ~Mirror /\ ~Tick
  <2>1. UNCHANGED <<mirrored, quiet>> BY <1>3, CopyOnly
  <2>2. Copy' = Copy BY <2>1, CopyStays DEF PasteInv, ReportInv
  <2>3. Len(log') = Len(log) BY <1>0, <2>1, Grows DEF PasteInv, ReportInv
  <2>4. claude = "hooks"
    <3>1. ASSUME NEW k \in Kinds, Says(<<k>>) PROVE FALSE
      <4> Grown(k) BY <1>0, <3>1, SaysGrows
      <4> QED BY <1>0, <2>3 DEF Grown
    <3> USE DEF Kinds, Assistant, UserPrompts, Typed, Meta, StopRecords, Opens, Writes
    <3>2. CASE Server
      BY <3>2 DEF Server, SendStep, SendLook, SendRead, NotFree, FreeOnce, Paste, EchoEnds, Busy,
        Connect, WatchStep, WatchRead, WatchLook, WatchPost, Restart
    <3>3. CASE Claude
      BY <3>1, <3>3 DEF Claude, PasteShows, Works, Segment, Replies, Asks, Fails, HooksAllow,
        HooksPush
    <3>4. CASE Person BY <3>4 DEF Person, Prompted, Drafts, Answered, EarlyEsc, Esc
    <3>5. CASE Notified \/ Handed BY <3>5 DEF Notified, Handed
    <3>6. CASE UNCHANGED vars BY <3>6
    <3> QED BY <1>3, <3>2, <3>3, <3>4, <3>5, <3>6 DEF Next
  <2> QED BY <2>1, <2>2, <2>3, <2>4 DEF PasteInv, HooksReport
<1> QED BY <1>1, <1>2, <1>3

\* The hooks seen at the first look, while nothing more is copied.
LEMMA HooksHeldStays ==
  ASSUME PasteInv, [Next]_vars, HooksHeld, UNCHANGED <<since, ran, mirrored, quiet>>
  PROVE  HooksHeld'
<1>0. /\ Len(log) \in Nat /\ mirrored \in 0 .. Len(log) /\ since \in 0 .. Len(log)
  BY DEF PasteInv, ReportInv, SenderInv, SenderTyped, LogInv, LogTyped
<1>1. /\ Len(log') \in Nat /\ Len(log) <= Len(log') /\ \A i \in 1 .. Len(log) : log'[i] = log[i]
  BY Grows DEF PasteInv, ReportInv
<1>2. since # 0 /\ log'[since] = "reply" /\ ran < since /\ mirrored <= since
  BY <1>0, <1>1 DEF HooksHeld
<1>3. since = Len(log') => claude' = "hooks" \/ ~records'
  <2> SUFFICES ASSUME since = Len(log') PROVE claude' = "hooks" \/ ~records' OBVIOUS
  <2>1. since = Len(log) /\ Len(log') = Len(log) BY <1>0, <1>1
  <2>2. records' = records BY RecordsTrueKept
  <2>3. claude = "hooks" \/ ~records BY <2>1 DEF HooksHeld
  <2> QED BY <2>1, <2>2, <2>3, HooksRun
<1>4. Copy' = Copy BY CopyStays DEF PasteInv, ReportInv
<1>5. mirrored = since /\ HasStopRecords(Copy') => quiet < HooksWaited BY <1>4 DEF HooksHeld
<1> QED BY <1>2, <1>3, <1>5 DEF HooksHeld, HasStopRecords, HooksWaited

\* While they run, time passes to _STOP_HOOK_WAIT_S at most.
LEMMA HooksHeldTicks ==
  ASSUME PasteInv, HooksHeld, Tick, "slowhook" \notin Faults
  PROVE  HooksHeld'
<1>0. /\ log \in Seq(Kinds) /\ Len(log) \in Nat /\ since \in 0 .. Len(log)
  BY DEF PasteInv, ReportInv, SenderInv, SenderTyped, LogInv, LogTyped
<1>1. /\ UNCHANGED <<log, claude, records, since, ran, mirrored>> /\ mirrored = Len(log)
      /\ quiet' = quiet + 1 /\ MayBeQuiet(quiet + 1)
  BY DEF Tick
<1>2. Copy = log /\ Copy' = log BY <1>0, <1>1 DEF Copy
<1>3. since = Len(log) BY <1>0, <1>1 DEF HooksHeld
<1>4. HasStopRecords(log) => claude = "hooks"
  <2> SUFFICES ASSUME HasStopRecords(log) PROVE claude = "hooks" OBVIOUS
  <2>1. PICK i \in DOMAIN log : log[i] \in StopRecords BY DEF HasStopRecords
  <2>2. records BY <1>0, <2>1 DEF PasteInv, RecordsTrue
  <2> QED BY <1>3, <2>2 DEF HooksHeld
<1>5. HasStopRecords(log) => quiet + 1 < HooksWaited BY <1>1, <1>4 DEF MayBeQuiet
<1>6. since # 0 /\ log[since] = "reply" /\ ran < since /\ mirrored <= since
      /\ (claude = "hooks" \/ ~records)
  BY <1>3 DEF HooksHeld
<1> QED BY <1>1, <1>2, <1>5, <1>6 DEF HooksHeld, HasStopRecords, HooksWaited

\* The first look.
LEMMA SendLookKeeps ==
  ASSUME PasteInv, SendLook
  PROVE  ran' \in Nat /\ FirstLook' /\ FirstFree'
<1>0. /\ log \in Seq(Kinds) /\ Len(log) \in Nat /\ mirrored \in 0 .. Len(log)
      /\ opener \in 0 .. Len(log) /\ ran \in Nat /\ row \in BOOLEAN
      /\ claude \in {"idle", "given", "asked", "working", "between", "asking", "hooks"}
      /\ send \in [st : {"wait", "looked"}, screen : Screens, streak : 0 .. 1]
  BY DEF PasteInv, ReportInv, SenderInv, SenderTyped, LogInv, LogTyped
<1>1. /\ UNCHANGED <<log, mirrored, quiet, opener, claude, box, row, records, escaped, echo>>
      /\ send.st = "wait"
      /\ IF send.streak = 0
           THEN since' = Len(log) /\ ran' = (IF Busy /\ ~Unseen THEN Current ELSE 0)
           ELSE UNCHANGED <<since, ran>>
  BY DEF SendLook
<1>2. PICK w \in RowShows :
        send' = [send EXCEPT !.st = "looked", !.screen = [working |-> w, box |-> box]]
  BY DEF SendLook
<1>3. send'.st = "looked" /\ send'.streak = send.streak /\ send'.screen.working = w
      /\ send'.screen.box = box
  BY <1>0, <1>2
<1>4. CASE send.streak = 1
  <2>1. UNCHANGED <<since, ran>> BY <1>1, <1>4
  <2>2. FirstFree' = FirstFree
    BY <1>1, <1>3, <2>1 DEF FirstFree, HooksHeld, HasStopRecords, Copy, Open, Skipped, InProgress
  <2> QED BY <1>0, <1>3, <1>4, <2>1, <2>2 DEF FirstLook, PasteInv
<1>5. CASE send.streak = 0
  <2>1. since' = Len(log) /\ ran' = (IF Busy /\ ~Unseen THEN Current ELSE 0)
    BY <1>1, <1>5
  <2>2. FirstFree' BY <1>3, <1>5 DEF FirstFree
  <2>3. ran' \in Nat
    <3>1. Current \in Nat BY <1>0, CurrentIs DEF PasteInv, ReportInv
    <3> QED BY <2>1, <3>1
  <2>4. ASSUME ran' # 0, row, ~w, box = "empty" PROVE HooksHeld'
    <3>1. Busy /\ ran' = Current BY <2>1, <2>4
    <3>2. claude = "hooks"
      <4>1. claude # "asking" BY <2>4 DEF PasteInv, ReportInv, LogInv, LastLine
      <4>2. claude \notin {"given", "asked", "working", "between"} BY <2>4 DEF RowShows
      <4> QED BY <1>0, <3>1, <4>1, <4>2 DEF Busy
    <3>3. opener < Len(log) /\ log[Len(log)] = "reply"
      BY <3>2 DEF PasteInv, ReportInv, LogInv, LastLine
    <3>4. ran' < Len(log)
      <4>1. Current \in 0 .. Len(log) /\ (Current = opener \/ log[Current] = "result")
        BY <3>2, CurrentIs DEF PasteInv, ReportInv
      <4> QED BY <1>0, <3>1, <3>3, <4>1
    <3>5. mirrored = Len(log) /\ HasStopRecords(Copy) => quiet < HooksWaited
      BY <3>2 DEF PasteInv, HooksReport
    <3>6. Copy' = Copy BY <1>1 DEF Copy
    <3> QED BY <1>0, <1>1, <2>1, <3>2, <3>3, <3>4, <3>5, <3>6
          DEF HooksHeld, HasStopRecords, HooksWaited
  <2>5. ran' # 0 => ran' <= since' \/ (claude = "given" /\ ran' = Len(log) + 1)
    BY <1>0, <2>1, CurrentIs DEF PasteInv, ReportInv
  <2>6. FirstLook' BY <1>1, <1>3, <2>4, <2>5 DEF FirstLook
  <2> QED BY <2>2, <2>3, <2>6
<1> QED BY <1>0, <1>4, <1>5

\* The first reading is free: what it found of a running turn.
LEMMA FreeOnceKeeps ==
  ASSUME PasteInv, SendRead, FreeOnce, "unreadable" \notin Faults
  PROVE  FirstFree'
<1>0. /\ log \in Seq(Kinds) /\ Len(log) \in Nat /\ mirrored \in 0 .. Len(log)
      /\ opener \in 0 .. Len(log) /\ ran \in Nat /\ LastExists /\ quiet \in 0 .. Stalled
  BY DEF PasteInv, ReportInv, LogInv, LogTyped
<1>1. /\ UNCHANGED <<log, claude, records, mirrored, quiet, row, escaped, since, ran>>
      /\ send.st = "looked" /\ send.streak = 0 /\ MayPaste(send.screen)
  BY DEF SendRead, FreeOnce, Free, FreeUnread
<1> SUFFICES ASSUME ran # 0
             PROVE  /\ ran <= since \/ ran <= mirrored
                    /\ quiet >= Settled =>
                         \/ ~InProgress(Copy) \/ mirrored = 0 \/ ~row
                         \/ \E p \in escaped : p <= mirrored /\ Open(p, mirrored)
                         \/ HooksHeld
  <2>1. Copy' = Copy BY <1>1 DEF Copy
  <2>2. HooksHeld' = HooksHeld BY <1>1, <2>1 DEF HooksHeld, HasStopRecords
  <2> QED BY <1>1, <2>1, <2>2 DEF FirstFree, Open, Skipped, InProgress
<1>2. ~(echo /\ ~Arrived) /\ send.screen.box = "empty" BY <1>1, MayPasteIs
<1>3. ran <= since \/ ran <= mirrored
  <2>1. claude # "given" BY <1>2 DEF PasteInv, GivenEcho, Arrived
  <2>2. echo => opener <= mirrored BY <1>2 DEF Arrived
  <2> QED BY <1>0, <1>1, <2>1, <2>2 DEF PasteInv, FirstLook
<1>4. ASSUME quiet >= Settled, InProgress(Copy), mirrored # 0, row,
             ~\E p \in escaped : p <= mirrored /\ Open(p, mirrored)
      PROVE  HooksHeld
  <2>1. ~(Unanswered(Copy) # 0 /\ reported = Unanswered(Copy))
    <3> SUFFICES ASSUME Unanswered(Copy) # 0, reported = Unanswered(Copy) PROVE FALSE
      OBVIOUS
    <3>1. reported \in escaped BY DEF PasteInv, ReportInv, ReportTrue
    <3>2. LET u == Unanswered(SubSeq(log, 1, mirrored))
          IN  u \in 0 .. mirrored /\ (u # 0 => Open(u, mirrored))
      BY <1>0, UnansweredIs
    <3>3. reported <= mirrored /\ Open(reported, mirrored) BY <1>0, <3>2 DEF Copy
    <3> QED BY <1>4, <3>1, <3>3
  <2>2. ~send.screen.working
    <3>1. \/ mirrored = 0
          \/ Unanswered(Copy) # 0 /\ reported = Unanswered(Copy)
          \/ ~InProgress(Copy)
          \/ /\ InProgress(Copy) /\ ~(quiet < LogQuiet) /\ ~HooksMayRun(Copy, quiet)
             /\ ~send.screen.working
             /\ known \/ quiet >= Stalled
      BY <1>1, MayPasteIs, Zenon
    <3> QED BY <1>4, <2>1, <3>1, Zenon
  <2>3. HooksHeld \/ quiet = 0 BY <1>1, <1>2, <1>4, <2>2 DEF PasteInv, FirstLook
  <2> QED BY <1>4, <2>3 DEF Settled
<1> QED BY <1>3, <1>4

\* Where the turn stands that the first look found, as things go on.
LEMMA RanKeeps ==
  ASSUME PasteInv, [Next]_vars, ~SendStep, ~Restart, "lateprompt" \notin Faults,
         ran <= since \/ ran <= mirrored
           \/ (claude = "given" /\ ran = Len(log) + 1) \/ (echo /\ ran <= opener)
  PROVE  ran' <= since' \/ ran' <= mirrored'
           \/ (claude' = "given" /\ ran' = Len(log') + 1) \/ (echo' /\ ran' <= opener')
<1>0. /\ log \in Seq(Kinds) /\ Len(log) \in Nat /\ mirrored \in 0 .. Len(log)
      /\ opener \in 0 .. Len(log) /\ ran \in Nat /\ since \in 0 .. Len(log)
  BY DEF PasteInv, ReportInv, SenderInv, SenderTyped, LogInv, LogTyped
<1>1. UNCHANGED <<since, ran>> BY SenderOnly
<1>2. mirrored' \in Nat /\ mirrored <= mirrored' BY Grows DEF PasteInv, ReportInv
<1>3. CASE ran <= since \/ ran <= mirrored BY <1>0, <1>1, <1>2, <1>3
<1>4. CASE claude = "given" /\ ran = Len(log) + 1
  <2>1. CASE PasteShows
    <3>1. opener' = Len(log) + 1 /\ echo' = echo BY <2>1 DEF PasteShows, Opens, Here
    <3> QED BY <1>0, <1>1, <1>4, <3>1 DEF PasteInv, GivenEcho
  <2>2. CASE ~PasteShows
    <3>1. UNCHANGED <<claude, log>>
      <4> USE DEF Opens, Writes
      <4>1. CASE EchoEnds \/ Connect \/ WatchStep
        BY <4>1 DEF EchoEnds, Connect, WatchStep, WatchRead, WatchLook, WatchPost
      <4>2. CASE Claude
        BY <1>4, <2>2, <4>2 DEF Claude, Works, Segment, Replies, Asks, Fails, HooksAllow, HooksPush
      <4>3. CASE Person BY <1>4, <4>3 DEF Person, Prompted, Drafts, Answered, EarlyEsc, Esc
      <4>4. CASE Notified \/ Handed BY <1>4, <4>4 DEF Notified, Handed
      <4>5. CASE Mirror \/ Tick BY <4>5 DEF Mirror, Tick
      <4>6. CASE UNCHANGED vars BY <4>6
      <4> QED BY <4>1, <4>2, <4>3, <4>4, <4>5, <4>6 DEF Next, Server
    <3> QED BY <1>1, <1>4, <3>1
  <2> QED BY <2>1, <2>2
<1>5. CASE echo /\ ran <= opener
  <2>1. CASE EchoEnds
    <3>1. opener <= mirrored BY <2>1 DEF EchoEnds, Arrived
    <3> QED BY <1>0, <1>1, <1>2, <1>5, <3>1
  <2>2. CASE ~EchoEnds
    <3>1. echo' = echo /\ opener' \in {opener, Len(log) + 1}
      <4> USE DEF Opens, Writes, Here
      <4>1. CASE Connect \/ WatchStep
        BY <4>1 DEF Connect, WatchStep, WatchRead, WatchLook, WatchPost
      <4>2. CASE Claude
        BY <4>2 DEF Claude, PasteShows, Works, Segment, Replies, Asks, Fails, HooksAllow, HooksPush
      <4>3. CASE Person BY <4>3 DEF Person, Prompted, Drafts, Answered, EarlyEsc, Esc
      <4>4. CASE Notified \/ Handed BY <4>4 DEF Notified, Handed
      <4>5. CASE Mirror \/ Tick BY <4>5 DEF Mirror, Tick
      <4>6. CASE UNCHANGED vars BY <4>6
      <4> QED BY <2>2, <4>1, <4>2, <4>3, <4>4, <4>5, <4>6 DEF Next, Server
    <3>2. ran <= opener' BY <1>0, <1>5, <3>1
    <3> QED BY <1>1, <1>5, <3>1, <3>2
  <2> QED BY <2>1, <2>2
<1> QED BY <1>3, <1>4, <1>5

LEMMA OthersKeepReadings ==
  ASSUME PasteInv, [Next]_vars, ~SendStep, ~Restart, Faults \cap Blinding = {}
  PROVE  ran' \in Nat /\ FirstLook' /\ FirstFree'
<1>0. /\ Len(log) \in Nat /\ mirrored \in 0 .. Len(log) /\ quiet \in 0 .. Stalled
      /\ ran \in Nat /\ since \in Nat
  BY DEF PasteInv, ReportInv, SenderInv, SenderTyped, LogInv, LogTyped
<1>1. UNCHANGED <<send, since, ran>> BY SenderOnly
<1>2. row' = row BY WorkGoesOn
<1>3. /\ Len(log') \in Nat /\ Len(log) <= Len(log') /\ \A i \in 1 .. Len(log) : log'[i] = log[i]
      /\ mirrored' \in Nat /\ mirrored <= mirrored' /\ escaped \subseteq escaped'
  BY Grows DEF PasteInv, ReportInv
<1>4. "lateprompt" \notin Faults /\ "slowhook" \notin Faults BY DEF Blinding
<1>5. ran <= since \/ ran <= mirrored => ran' <= since' \/ ran' <= mirrored'
  BY <1>0, <1>1, <1>3
\* Nothing is copied: a prompt stopped, or hooks held, stay.
<1>6. ASSUME Copy' = Copy, UNCHANGED mirrored, HooksHeld => HooksHeld',
             \/ ~InProgress(Copy) \/ mirrored = 0 \/ ~row
             \/ \E p \in escaped : p <= mirrored /\ Open(p, mirrored)
             \/ HooksHeld
      PROVE  \/ ~InProgress(Copy') \/ mirrored' = 0 \/ ~row'
             \/ \E p \in escaped' : p <= mirrored' /\ Open(p, mirrored)'
             \/ HooksHeld'
  <2>1. ASSUME NEW p \in escaped, p <= mirrored, Open(p, mirrored)
        PROVE  p \in escaped' /\ p <= mirrored' /\ Open(p, mirrored)'
    <3>1. p \in 1 .. Len(log) BY DEF PasteInv, ReportInv, LogInv, LogTyped
    <3> QED BY <1>0, <1>3, <1>6, <2>1, <3>1 DEF Open, Skipped
  <2> QED BY <1>2, <1>6, <2>1
<1>7. CASE send.streak = 1 /\ ran # 0 /\ ~Mirror
  <2>1. Copy' = Copy /\ UNCHANGED mirrored
    <3>1. UNCHANGED mirrored BY <1>7, CopyOnly DEF Tick
    <3> QED BY <3>1, CopyStays DEF PasteInv, ReportInv
  <2>2. CASE Tick
    <3>1. quiet >= Settled BY <1>7, <2>2 DEF Tick
    <3>2. HooksHeld => HooksHeld' BY <1>4, <2>2, HooksHeldTicks
    <3> QED BY <1>1, <1>5, <1>6, <1>7, <2>1, <3>1, <3>2
            DEF PasteInv, FirstFree, FirstLook, InProgress
  <2>3. CASE ~Tick
    <3>1. UNCHANGED quiet BY <1>7, <2>3, CopyOnly
    <3>2. HooksHeld => HooksHeld' BY <1>1, <2>1, <3>1, HooksHeldStays
    <3> QED BY <1>1, <1>5, <1>6, <1>7, <2>1, <3>1, <3>2
            DEF PasteInv, FirstFree, FirstLook, InProgress, Settled
  <2> QED BY <2>2, <2>3
<1>8. CASE send.st = "looked" /\ send.streak = 0 /\ ran # 0 /\ ~Mirror
  <2>1. ~Tick BY <1>8 DEF Tick, NoReading
  <2>2. UNCHANGED <<mirrored, quiet>> BY <1>8, <2>1, CopyOnly
  <2>3. HooksHeld => HooksHeld' BY <1>1, <2>2, HooksHeldStays
  <2>4. FirstLook'
    <3>1. row /\ ~send.screen.working /\ send.screen.box = "empty" => HooksHeld' \/ quiet' = 0
      BY <1>8, <2>2, <2>3 DEF PasteInv, FirstLook
    <3>2. ran' <= since' \/ ran' <= mirrored'
           \/ (claude' = "given" /\ ran' = Len(log') + 1) \/ (echo' /\ ran' <= opener')
      BY <1>4, <1>8, RanKeeps DEF PasteInv, FirstLook
    <3> QED BY <1>1, <1>2, <3>1, <3>2 DEF FirstLook
  <2>5. FirstFree' BY <1>1, <1>8 DEF FirstFree
  <2> QED BY <1>0, <1>1, <2>4, <2>5
<1>9. CASE Mirror
  <2>1. quiet' = 0 BY <1>9 DEF Mirror
  <2>2. FirstFree' BY <1>1, <1>5, <2>1 DEF PasteInv, FirstFree, Settled
  <2>3. FirstLook'
    <3> SUFFICES ASSUME send.st = "looked", send.streak = 0, ran # 0
                 PROVE  ran' <= since' \/ ran' <= mirrored'
                          \/ (claude' = "given" /\ ran' = Len(log') + 1)
                          \/ (echo' /\ ran' <= opener')
      BY <1>1, <2>1 DEF FirstLook
    <3> QED BY <1>4, RanKeeps DEF PasteInv, FirstLook
  <2> QED BY <1>0, <1>1, <2>2, <2>3
<1>10. CASE ran = 0 \/ (send.st # "looked" /\ send.streak # 1)
  BY <1>0, <1>1, <1>10 DEF FirstLook, FirstFree
<1>11. send.streak \in 0 .. 1 BY DEF PasteInv, SenderInv, SenderTyped
<1> QED BY <1>7, <1>8, <1>9, <1>10, <1>11

LEMMA PasteInvKept ==
  ASSUME PasteInv, [Next]_vars, Faults \cap Blinding = {}
  PROVE  PasteInv'
<1>1. ReportInv' /\ SenderInv'
  BY ReportInvKept, SenderInvKept DEF PasteInv, Blinding
<1>2. GivenEcho' /\ PeerFresh' /\ AskedNow' /\ RecordsTrue' /\ HooksReport'
  BY GivenEchoKept, PeerFreshKept, AskedNowKept, RecordsTrueKept, HooksReportKept DEF Blinding
<1>3. ran' \in Nat /\ FirstLook' /\ FirstFree'
  <2>1. CASE SendLook BY <2>1, SendLookKeeps
  <2>2. CASE SendRead /\ FreeOnce
    <3>1. send' = Waiting(1) /\ ran' = ran BY <2>2 DEF FreeOnce
    <3> QED BY <2>2, <3>1, FreeOnceKeeps DEF FirstLook, Waiting, PasteInv, Blinding
  <2>3. CASE (SendRead /\ NotFree) \/ Paste \/ Restart
    <3>1. send' = Waiting(0) /\ ran' = 0 BY <2>3 DEF NotFree, Paste, Restart, Over
    <3> QED BY <3>1 DEF FirstLook, FirstFree
  <2>4. CASE ~SendStep /\ ~Restart BY <2>4, OthersKeepReadings
  <2> QED BY <2>1, <2>2, <2>3, <2>4 DEF SendStep, SendRead
<1> QED BY <1>1, <1>2, <1>3 DEF PasteInv

(***************************************************************************)
(* A prompt is never pasted into a turn that was running at the first of   *)
(* the two free readings (_wait_until_free), what the copy cannot show     *)
(* left out, unless a rare event blinds the readings.                      *)
(***************************************************************************)
THEOREM NeverPastedIntoRunningTurn ==
  ASSUME Faults \cap Blinding = {}
  PROVE  Spec => NeverIntoRunningTurn
<1>1. Init => PasteInv BY PasteInvInit
<1>2. PasteInv /\ [Next]_vars => PasteInv' BY PasteInvKept
<1>3. PasteInv /\ [Next]_vars => [Pastes => ~(Busy /\ ran = Current) \/ Unseen]_vars
  BY NeverIntoRunningTurnStep DEF Blinding
<1> QED BY <1>1, <1>2, <1>3, PTL DEF Spec, NeverIntoRunningTurn

-----------------------------------------------------------------------------
(* The opener that is named.                                               *)

Scanned == Scan(log)[Len(log)]

\* The scan knows the opener of the turn it takes for open, or none.
ScanTrue == Scanned.open => Scanned.opener \in {0, opener}

\* A turn it takes for open with no reply ends on a line of a turn in progress.
ScanOpen ==
  Scanned.open /\ ~(Scanned.saw /\ Scanned.ended) =>
    log # <<>> /\ Last(log) \in {"prompt", "notice", "peer", "feedback", "work", "result"}

\* Behind a tool call the turn is open, and not at a reply.
ScanWork == log # <<>> /\ Last(log) = "work" => Scanned.open /\ ~Scanned.ended

OpenerInv == LogInv /\ ScanTrue /\ ScanOpen /\ ScanWork

\* What is written, and when: a line that opens a turn, one of the turn that runs, one
\* that ends it.
Opening(k) ==
  /\ opener' = Len(log) + 1 /\ claude' = "asked"
  /\ k \in {"prompt", "notice", "peer"} /\ claude \in {"idle", "given"}
  /\ k = "peer" /\ Merges => "merge" \in Faults

Inside(k) ==
  /\ opener' = opener
  /\ \/ k = "local" /\ claude = "idle"
     \/ k = "peer" /\ claude = "working" /\ log[Len(log)] = "work"
     \/ k \in Assistant \cup {"interrupt"} /\ claude \in {"asked", "working", "between", "asking"}
     \/ k = "result" /\ claude = "asking"
     \/ k \in StopRecords \cup {"feedback"} /\ claude = "hooks"

LEMMA LineWritten ==
  ASSUME LogInv, [Next]_vars
  PROVE  \/ UNCHANGED <<log, opener>>
         \/ \E k \in Kinds : Grown(k) /\ (Opening(k) \/ Inside(k))
<1>1. log \in Seq(Kinds) BY DEF LogInv, LogTyped
<1>2. \A k \in Kinds : Says(<<k>>) => Grown(k) BY <1>1, SaysGrows
<1> USE DEF Kinds, Assistant, UserPrompts, Typed, Meta, StopRecords, Opens, Writes
<1>3. CASE Server
  BY <1>3 DEF Server, SendStep, SendLook, SendRead, NotFree, FreeOnce, Paste, EchoEnds,
    Connect, WatchStep, WatchRead, WatchLook, WatchPost, Restart
<1>4. CASE Works \/ Segment \/ Replies \/ Asks \/ Fails \/ Esc \/ Answered \/ HooksPush \/ EarlyEsc
  BY <1>4, <1>2 DEF Works, Segment, Replies, Asks, Fails, HooksPush, Esc, Answered, EarlyEsc,
    Inside
<1>5. CASE HooksAllow BY <1>5, <1>2 DEF HooksAllow, Inside
<1>6. CASE PasteShows \/ Prompted \/ Notified
  BY <1>6, <1>2 DEF PasteShows, Prompted, Notified, Opening, Here
<1>7. CASE Handed
  <2>1. CASE claude = "idle" /\ Says(<<"local">>) BY <1>7, <2>1, <1>2 DEF Handed, Inside
  <2>2. CASE claude = "working" /\ Says(<<"peer">>) /\ Last(log) = "work"
    BY <1>7, <2>2, <1>2 DEF Handed, Inside, Last
  <2> QED BY <1>7, <2>1, <2>2 DEF Handed
<1>8. CASE Drafts \/ Mirror \/ Tick BY <1>8 DEF Drafts, Mirror, Tick
<1>9. CASE UNCHANGED vars BY <1>9
<1> QED BY <1>3, <1>4, <1>5, <1>6, <1>7, <1>8, <1>9 DEF Next, Claude, Person

LEMMA ScannedGrows ==
  ASSUME LogInv, NEW k, Grown(k)
  PROVE  Scanned' = ReadOpener(Scanned, k, Len(log) + 1)
<1>1. Len(log) \in Nat BY DEF LogInv, LogTyped
<1>2. Scan(log')[Len(log) + 1] = ReadOpener(Scan(log')[Len(log)], k, Len(log) + 1)
  BY <1>1, ScanIs DEF Grown
<1>3. Scan(log')[Len(log)] = Scan(log)[Len(log)] BY <1>1, ScanSame DEF Grown
<1> QED BY <1>2, <1>3 DEF Scanned, Grown

LEMMA OpenerInvKept ==
  ASSUME "merge" \notin Faults, OpenerInv, [Next]_vars
  PROVE  OpenerInv'
<1>1. LogInv /\ LogInv' BY LogInvKept DEF OpenerInv
<1>2. CASE UNCHANGED <<log, opener>>
  BY <1>1, <1>2 DEF OpenerInv, ScanTrue, ScanOpen, ScanWork, Scanned
<1>3. ASSUME NEW k \in Kinds, Grown(k), Opening(k) \/ Inside(k)
      PROVE  ScanTrue' /\ ScanOpen' /\ ScanWork'
  <2>1. Scanned' = ReadOpener(Scanned, k, Len(log) + 1) BY <1>1, <1>3, ScannedGrows
  <2>2. Len(log) \in Nat /\ Scanned \in Scans /\ log \in Seq(Kinds)
    <3>1. log \in Seq(Kinds) BY <1>1 DEF LogInv, LogTyped
    <3>2. Len(log) \in Nat BY <3>1
    <3> QED BY <3>1, <3>2, ScanIs DEF Scanned
  <2>3. log' # <<>> /\ Last(log') = k BY <1>3, <2>2 DEF Grown, Last
  <2>4. ScanTrue /\ ScanOpen /\ ScanWork BY DEF OpenerInv
  <2>5. CASE Opening(k) /\ OpensTurn(Scanned, k)
    BY <2>1, <2>2, <2>3, <2>5 DEF Opening, OpensTurn, ReadOpener, ScanTrue, ScanOpen, ScanWork, Assistant
  <2>6. CASE Opening(k) /\ ~OpensTurn(Scanned, k)
    <3>1. k = "peer" /\ Scanned.open /\ ~(Scanned.saw /\ Scanned.ended)
      BY <2>6 DEF Opening, OpensTurn
    <3>2. Len(log) \in 1 .. Len(log)
          /\ log[Len(log)] \in {"prompt", "notice", "peer", "feedback", "work", "result"}
      BY <2>2, <2>4, <3>1 DEF ScanOpen, Last
    <3>3. SubSeq(log, 1, Len(log)) = log BY <2>2
    <3>4. InProgress(log) BY <1>1, <2>2, <3>2, <3>3, InProgressAt DEF LogInv, Meta
    <3> QED BY <2>6, <3>1, <3>4 DEF Opening, Merges
  <2>7. CASE Inside(k) /\ k \in Assistant
    BY <2>1, <2>2, <2>3, <2>4, <2>7
    DEF Inside, ReadOpener, ScanTrue, ScanOpen, ScanWork, Assistant
  <2>8. CASE Inside(k) /\ k \in {"local", "duration", "interrupt"}
    <3>1. ~Scanned'.open BY <2>1, <2>2, <2>8, ReadOpenerCloses
    <3> QED BY <2>3, <2>8, <3>1 DEF ScanTrue, ScanOpen, ScanWork
  <2>9. CASE Inside(k) /\ k = "peer"
    <3>1. claude = "working" /\ log[Len(log)] = "work"
      BY <2>9 DEF Inside, Assistant, StopRecords
    <3>2. opener < Len(log) /\ opener \in Nat BY <1>1, <3>1 DEF LogInv, LogTyped, LastLine
    <3>3. Scanned.open /\ ~Scanned.ended BY <2>2, <2>4, <3>1, <3>2 DEF ScanWork, Last
    <3>4. Scanned' = Scanned /\ opener' = opener
      BY <2>1, <2>9, <3>3 DEF Inside, ReadOpener, OpensTurn, Assistant
    <3> QED BY <2>3, <2>4, <2>9, <3>4 DEF ScanTrue, ScanOpen, ScanWork
  <2>10. CASE Inside(k) /\ k \in {"result", "feedback", "summary"}
    <3>1. Scanned' = Scanned /\ opener' = opener
      BY <2>1, <2>10 DEF Inside, ReadOpener, OpensTurn, Assistant
    <3>2. CASE k # "summary" BY <2>3, <2>4, <2>10, <3>1, <3>2 DEF ScanTrue, ScanOpen, ScanWork
    <3>3. CASE k = "summary"
      <4>0. claude = "hooks" BY <2>10, <3>3 DEF Inside, Assistant, StopRecords
      <4>1. log[Len(log)] = "reply" /\ Len(log) # 0
        BY <1>1, <2>2, <4>0 DEF LogInv, LogTyped, LastLine
      <4>2. Scanned.open => Scanned.saw /\ Scanned.ended
        BY <2>4, <4>1 DEF ScanOpen, Last
      <4> QED BY <2>3, <2>4, <3>1, <3>3, <4>2 DEF ScanTrue, ScanOpen, ScanWork
    <3> QED BY <3>2, <3>3
  <2>11. k \in {"prompt", "notice", "peer", "local", "duration", "interrupt", "result",
               "feedback", "summary"} \cup Assistant
    BY DEF Kinds, UserPrompts, Typed, Meta, StopRecords
  <2>12. Inside(k) => k \notin {"prompt", "notice"}
    BY DEF Inside, Assistant, StopRecords
  <2> QED BY <1>3, <2>5, <2>6, <2>7, <2>8, <2>9, <2>10, <2>11, <2>12
<1> QED BY <1>1, <1>2, <1>3, LineWritten DEF OpenerInv

LEMMA OpenerInvInit == Init => OpenerInv
<1> SUFFICES ASSUME Init PROVE OpenerInv OBVIOUS
<1>1. LogInv BY LogInvInit
<1>2. log = <<>> \/ log = <<"prompt", "reply", "duration">> \/ log = <<"local", "prompt", "reply">>
  BY DEF Init, Exchange
<1>3. Scan(log)[0] = NoScan BY ScanIs
<1>4. \A n \in {1, 2, 3} : Scan(log)[n] = ReadOpener(Scan(log)[n - 1], log[n], n)
  <2>1. \A n \in Nat : Scan(log)[n + 1] = ReadOpener(Scan(log)[n], log[n + 1], n + 1) BY ScanIs
  <2>2. 0 + 1 = 1 /\ 1 + 1 = 2 /\ 2 + 1 = 3 OBVIOUS
  <2> QED BY <2>1, <2>2
<1>5. CASE log = <<>>
  <2>1. ~Scanned.open BY <1>3, <1>5 DEF Scanned, NoScan
  <2>2. ScanTrue /\ ScanOpen BY <2>1 DEF ScanTrue, ScanOpen
  <2>3. ScanWork BY <1>5 DEF ScanWork
  <2> QED BY <1>1, <2>2, <2>3 DEF OpenerInv
<1>6. CASE log = <<"prompt", "reply", "duration">>
  <2>1. Len(log) = 3 /\ log[1] = "prompt" /\ log[2] = "reply" /\ log[3] = "duration" BY <1>6
  <2>2. Scanned = ReadOpener(Scan(log)[2], "duration", 3) BY <1>4, <2>1 DEF Scanned
  <2>3. Scan(log)[2] \in Scans BY ScanIs
  <2>4. ~Scanned.open BY <2>2, <2>3, ReadOpenerCloses
  <2>5. Last(log) # "work" BY <2>1 DEF Last
  <2>6. ScanTrue /\ ScanOpen BY <2>4 DEF ScanTrue, ScanOpen
  <2>7. ScanWork BY <2>5 DEF ScanWork
  <2> QED BY <1>1, <2>6, <2>7 DEF OpenerInv
<1>7. CASE log = <<"local", "prompt", "reply">>
  <2>1. Len(log) = 3 /\ log[1] = "local" /\ log[2] = "prompt" /\ log[3] = "reply" BY <1>7
  <2>2. Scan(log)[2] = [opener |-> 2, open |-> TRUE, saw |-> FALSE, ended |-> FALSE]
    BY <1>4, <2>1 DEF ReadOpener, OpensTurn, Assistant
  <2>3. Scanned = [opener |-> 2, open |-> TRUE, saw |-> TRUE, ended |-> TRUE]
    <3>1. Scanned = ReadOpener(Scan(log)[2], "reply", 3) BY <1>4, <2>1 DEF Scanned
    <3>2. "reply" \in Assistant BY DEF Assistant
    <3>3. Scanned = [opener |-> IF Scan(log)[2].open THEN Scan(log)[2].opener ELSE 0,
                     open |-> TRUE, saw |-> TRUE, ended |-> "reply" # "work"]
      BY <3>1, <3>2, ReadOpenerReplies
    <3>4. Scan(log)[2].open /\ Scan(log)[2].opener = 2 BY <2>2
    <3> HIDE <2>2
    <3> QED BY <3>3, <3>4
  <2>4. opener = 2
    <3>0. log \in Seq(Kinds) BY <1>1 DEF LogInv, LogTyped
    <3>1. opener = LastOf(SubSeq(log, 1, 3), {"prompt"})
      <4>1. log = SubSeq(log, 1, 3) BY <2>1, <3>0
      <4> QED BY <4>1 DEF Init
    <3>2. log \in Seq(Kinds) /\ LastExists BY <1>1 DEF LogInv, LogTyped
    <3>3. opener \in 0 .. 3 /\ (opener # 0 => log[opener] = "prompt")
          /\ \A i \in opener + 1 .. 3 : log[i] # "prompt"
      BY <2>1, <3>1, <3>2, LastOfIs
    <3> QED BY <2>1, <3>3
  <2>5. Last(log) # "work" BY <2>1 DEF Last
  <2>6. ScanTrue /\ ScanOpen BY <2>3, <2>4 DEF ScanTrue, ScanOpen
  <2>7. ScanWork BY <2>5 DEF ScanWork
  <2> QED BY <1>1, <2>6, <2>7 DEF OpenerInv
<1> QED BY <1>2, <1>5, <1>6, <1>7

(***************************************************************************)
(* The line open_turn names as the opener of the turn in progress opened   *)
(* it, unless a session's message opened a turn where the transcript shows *)
(* one open that an early Esc stopped: no reader takes such a message for  *)
(* the end of what came before it.                                         *)
(***************************************************************************)
THEOREM OpenerIsNamed ==
  ASSUME "merge" \notin Faults
  PROVE  Spec => []OpenerNamed
<1>1. Init => OpenerInv BY OpenerInvInit
<1>2. OpenerInv /\ [Next]_vars => OpenerInv' BY OpenerInvKept
<1>3. OpenerInv => OpenerNamed BY DEF OpenerInv, ScanTrue, Scanned, OpenerNamed, OpenTurn
<1> QED BY <1>1, <1>2, <1>3, PTL DEF Spec

-----------------------------------------------------------------------------
(* What the watcher has read, and what it makes of it. *)

WatchTyped ==
  /\ watch \in WatchKinds /\ watched \in BOOLEAN
  /\ watch.wrote <= Len(log) /\ watch.seen <= mirrored /\ watch.cut <= watch.seen
  /\ watch.st # "rest" => watched /\ anchor <= watch.seen

\* A prompt found cut off in what was read is the one at its end, until it is posted.
CutTrue ==
  /\ watch.st = "look" => CutOffAfter(Read) # 0
  /\ watch.st # "post" => watch.cut = 0
  /\ watch.cut # 0 => watch.cut = CutOffAfter(Read)

Marks ==
  /\ anchor \in 0 .. mirrored /\ base \in 0 .. anchor /\ reported \in 0 .. mirrored
  /\ ~watched => anchor = 0 /\ got = {}

\* What is delivered lies up to the watermark.
GotBehind == \A t \in got : \A x \in t.text : x \in 1 .. anchor

MarksInv ==
  /\ LogInv /\ WatchTyped /\ CutTrue /\ Marks /\ GotBehind /\ TextOnce

LEMMA CutOffIn ==
  ASSUME LastExists, log \in Seq(Kinds), anchor \in Nat, watch.seen \in 0 .. Len(log)
  PROVE  /\ CutOffAfter(Read) \in 0 .. watch.seen
         /\ CutOffAfter(Read) # 0 =>
              /\ CutOffAfter(Read) = Unanswered(Read) /\ CutOffAfter(Read) > anchor
              /\ Open(CutOffAfter(Read), watch.seen)
<1>1. LET u == Unanswered(SubSeq(log, 1, watch.seen))
      IN  u \in 0 .. watch.seen /\ (u # 0 => Open(u, watch.seen))
  BY UnansweredIs
<1>2. Unanswered(Read) \in 0 .. watch.seen
      /\ (Unanswered(Read) # 0 => Open(Unanswered(Read), watch.seen))
  BY <1>1 DEF Read
<1> QED BY <1>2 DEF CutOffAfter

\* What was read stays as it is while more is written.
LEMMA ReadStays ==
  ASSUME log \in Seq(Kinds), watch.seen \in 0 .. Len(log), [Next]_vars, LogInv,
         UNCHANGED <<watch, anchor>>
  PROVE  Read' = Read /\ CutOffAfter(Read)' = CutOffAfter(Read)
<1>1. /\ Len(log) \in Nat /\ Len(log') \in Nat /\ Len(log) <= Len(log')
      /\ \A i \in 1 .. Len(log) : log'[i] = log[i]
  BY Grows
<1>2. log' \in Seq(Kinds) BY LogInvKept DEF LogInv, LogTyped
<1> DEFINE n == watch.seen
<1>3. SubSeq(log', 1, n) = SubSeq(log, 1, n)
  <2> HIDE DEF n
  <2>1. n \in 0 .. Len(log) BY DEF n
  <2>2. SubSeq(log', 1, n) = [i \in 1 .. n |-> log'[i]] BY <1>1, <1>2, <2>1
  <2>3. SubSeq(log, 1, n) = [i \in 1 .. n |-> log[i]] BY <2>1
  <2>4. \A i \in 1 .. n : log'[i] = log[i] BY <1>1, <2>1
  <2> QED BY <2>2, <2>3, <2>4
<1>4. Read' = Read BY <1>3 DEF Read
<1> QED BY <1>4 DEF CutOffAfter

\* What goes out comes after the watermark, one turn after the other.
LEMMA OutgoingIs ==
  ASSUME LogInv, WatchTyped, CutTrue, Marks, watch.st = "post"
  PROVE  LET n == Len(Outgoing) IN
         /\ n \in Nat /\ DOMAIN Outgoing = 1 .. n
         /\ \A j \in 1 .. n :
              /\ Outgoing[j].anchor \in anchor + 1 .. watch.seen
              /\ \A x \in Outgoing[j].text : x \in anchor + 1 .. Outgoing[j].anchor
         /\ \A j, k \in 1 .. n : j < k =>
              /\ Outgoing[j].anchor < Outgoing[k].anchor
              /\ \A x \in Outgoing[k].text : Outgoing[j].anchor < x
         /\ LastAnchor(Outgoing, anchor) = IF n = 0 THEN anchor ELSE Outgoing[n].anchor
         /\ \A j \in 1 .. n : j <= Len(NewTurns) => Outgoing[j] = NewTurns[j]
         /\ watch.cut = 0 => Outgoing = NewTurns
         /\ watch.cut # 0 => n = Len(NewTurns) + 1 /\ n # 0 /\ Outgoing[n] = CutTurn
<1>1. /\ log \in Seq(Kinds) /\ Len(log) \in Nat /\ mirrored \in 0 .. Len(log) /\ LastExists
      /\ watch.seen \in 0 .. Len(log) /\ anchor \in Nat /\ anchor <= watch.seen
      /\ watch.cut \in Nat
  BY DEF LogInv, LogTyped, WatchTyped, Marks, WatchKinds
<1> DEFINE p == Pass(log, anchor + 1)[watch.seen]
           m == Len(NewTurns)
<1>2. p \in Passes /\ Sound(p, anchor + 1, watch.seen, log) BY <1>1, PassSound
<1>3. NewTurns = Flush(p).turns BY <1>1, CompletedIs DEF NewTurns, Read
<1> HIDE DEF p
<1>4. Flush(p) \in Passes BY <1>2, FlushIs
<1>5. NewTurns \in Seq(Turns) BY <1>3, <1>4 DEF Passes
<1>6. TurnsSound(NewTurns, anchor + 1, watch.seen, log)
  <2>1. /\ TurnsSound(p.turns, anchor + 1, watch.seen, log)
        /\ GroupSound(p.turns, p.group, anchor + 1, watch.seen, log)
    BY <1>2 DEF Sound
  <2>2. anchor + 1 \in Nat \ {0} /\ watch.seen \in Nat BY <1>1
  <2>3. Sound(Flush(p), anchor + 1, watch.seen, log) BY <1>2, <2>1, <2>2, SoundFlush
  <2> QED BY <1>3, <2>3 DEF Sound
<1>7. \A j \in 1 .. m : NewTurns[j].anchor \in Nat /\ NewTurns[j].text \subseteq Nat
  <2>1. \A j \in 1 .. m : NewTurns[j] \in Turns BY <1>5
  <2> QED BY <2>1 DEF Turns
<1>8. m \in Nat /\ DOMAIN NewTurns = 1 .. m BY <1>5
<1> HIDE DEF m
<1>9. \A j \in 1 .. m :
        /\ NewTurns[j].anchor \in anchor + 1 .. watch.seen /\ log[NewTurns[j].anchor] \in Ends
        /\ \A x \in NewTurns[j].text : x \in anchor + 1 .. NewTurns[j].anchor
  <2> DEFINE o == NewTurns
  <2> HIDE DEF o, NewTurns
  <2> SUFFICES ASSUME NEW j \in 1 .. m
               PROVE  /\ o[j].anchor \in anchor + 1 .. watch.seen /\ log[o[j].anchor] \in Ends
                      /\ \A x \in o[j].text : x \in anchor + 1 .. o[j].anchor
    BY DEF o
  <2>1. /\ o[j].anchor \in anchor + 1 .. watch.seen /\ log[o[j].anchor] \in Ends
        /\ \A x \in o[j].text : anchor + 1 <= x /\ x <= o[j].anchor
    BY <1>6, <1>8 DEF TurnsSound, o
  <2>2. o[j].text \subseteq Nat /\ o[j].anchor \in Nat BY <1>7 DEF o
  <2> QED BY <1>1, <2>1, <2>2
<1>10. \A j, k \in 1 .. m : j < k =>
        /\ NewTurns[j].anchor < NewTurns[k].anchor
        /\ \A x \in NewTurns[k].text : NewTurns[j].anchor < x
  BY <1>6, <1>8 DEF TurnsSound
<1>11. CASE watch.cut = 0
  <2>1. Outgoing = NewTurns BY <1>11 DEF Outgoing
  <2>2. LastAnchor(Outgoing, anchor) = IF m = 0 THEN anchor ELSE Outgoing[m].anchor
    <3>1. NewTurns = <<>> <=> m = 0 BY <1>5 DEF m
    <3>2. Last(NewTurns) = NewTurns[m] BY DEF Last, m
    <3> QED BY <2>1, <3>1, <3>2 DEF LastAnchor
  <2>3. Len(Outgoing) = m BY <2>1 DEF m
  <2> HIDE DEF NewTurns
  <2> QED BY <1>8, <1>9, <1>10, <1>11, <2>1, <2>2, <2>3
<1>12. CASE watch.cut # 0
  <2>1. Outgoing = Append(NewTurns, CutTurn) BY <1>12 DEF Outgoing
  <2>2. /\ Len(Outgoing) = m + 1 /\ DOMAIN Outgoing = 1 .. m + 1
        /\ \A j \in 1 .. m : Outgoing[j] = NewTurns[j]
        /\ Outgoing[m + 1] = CutTurn
    BY <1>5, <2>1 DEF m
  <2>3. CutTurn.anchor = watch.cut /\ CutTurn.text = {} BY DEF CutTurn
  <2>4. /\ watch.cut \in anchor + 1 .. watch.seen /\ Open(watch.cut, watch.seen)
    <3>1. watch.cut = CutOffAfter(Read) BY <1>12 DEF CutTrue
    <3> QED BY <1>1, <1>12, <3>1, CutOffIn
  <2>5. \A j \in 1 .. m : NewTurns[j].anchor < watch.cut
    <3> SUFFICES ASSUME NEW j \in 1 .. m, ~(NewTurns[j].anchor < watch.cut) PROVE FALSE
      BY <1>7, <2>4
    <3>1. NewTurns[j].anchor \in watch.cut .. watch.seen BY <1>1, <1>9, <2>4
    <3>2. log[NewTurns[j].anchor] \in Skipped \cup {"prompt"} BY <2>4, <3>1 DEF Open
    <3> QED BY <1>9, <3>2 DEF Ends, Skipped, Meta, StopRecords
  <2>6. LastAnchor(Outgoing, anchor) = Outgoing[m + 1].anchor
    <3>1. Outgoing # <<>> BY <1>5, <2>1
    <3>2. Last(Outgoing) = Outgoing[m + 1] BY <2>2 DEF Last
    <3> QED BY <3>1, <3>2 DEF LastAnchor
  <2>7. \A j \in 1 .. m + 1 : j # m + 1 => j \in 1 .. m BY <1>8
  <2> DEFINE o == Outgoing
  <2> HIDE DEF o, NewTurns
  <2>8. \A j \in 1 .. m + 1 :
          /\ o[j].anchor \in anchor + 1 .. watch.seen
          /\ \A x \in o[j].text : x \in anchor + 1 .. o[j].anchor
    BY <1>9, <2>2, <2>3, <2>4, <2>7 DEF o
  <2>9. \A j, k \in 1 .. m + 1 : j < k =>
          /\ o[j].anchor < o[k].anchor
          /\ \A x \in o[k].text : o[j].anchor < x
    <3> SUFFICES ASSUME NEW j \in 1 .. m + 1, NEW k \in 1 .. m + 1, j < k
                 PROVE  o[j].anchor < o[k].anchor /\ \A x \in o[k].text : o[j].anchor < x
      OBVIOUS
    <3>1. j \in 1 .. m /\ o[j] = NewTurns[j] BY <1>8, <2>2 DEF o
    <3>2. CASE k = m + 1
      <4>1. o[k].anchor = watch.cut /\ o[k].text = {} BY <2>2, <2>3, <3>2 DEF o
      <4> QED BY <2>5, <3>1, <4>1
    <3>3. CASE k # m + 1
      <4>1. k \in 1 .. m /\ o[k] = NewTurns[k] BY <1>8, <2>2, <3>3 DEF o
      <4> QED BY <1>10, <3>1, <4>1
    <3> QED BY <3>2, <3>3
  <2>10. m + 1 \in Nat /\ m + 1 # 0 BY <1>8
  <2>11. Len(NewTurns) = m BY DEF m
  <2> QED BY <1>12, <2>2, <2>6, <2>7, <2>8, <2>9, <2>10, <2>11 DEF o
<1> QED BY <1>11, <1>12

\* Who moves the watermark, and who reports.
LEMMA MarksOnly ==
  ASSUME [Next]_vars, ~WatchStep, ~Restart, ~Connect
  PROVE  UNCHANGED <<watch, reported, watched, anchor, base, got>>
<1> USE DEF Opens, Writes
<1>1. CASE Server
  <2>1. CASE SendStep BY <2>1 DEF SendStep, SendLook, SendRead, NotFree, FreeOnce, Paste
  <2>2. CASE EchoEnds BY <2>2 DEF EchoEnds
  <2> QED BY <1>1, <2>1, <2>2 DEF Server
<1>2. CASE Claude
  BY <1>2 DEF Claude, PasteShows, Works, Segment, Replies, Asks, Fails, HooksAllow, HooksPush
<1>3. CASE Person BY <1>3 DEF Person, Prompted, Drafts, Answered, EarlyEsc, Esc
<1>4. CASE Notified \/ Handed BY <1>4 DEF Notified, Handed
<1>5. CASE Mirror \/ Tick BY <1>5 DEF Mirror, Tick
<1>6. CASE UNCHANGED vars BY <1>6
<1> QED BY <1>1, <1>2, <1>3, <1>4, <1>5, <1>6 DEF Next

LEMMA MarksInvInit == Init => MarksInv
<1> SUFFICES ASSUME Init PROVE MarksInv OBVIOUS
<1>1. LogInv BY LogInvInit
<1>2. Len(log) \in Nat /\ mirrored \in Nat BY <1>1 DEF LogInv, LogTyped
<1>3. watch = [st |-> "rest", polls |-> 0, wrote |-> 0, quiet |-> 0, seen |-> 0, cut |-> 0]
      /\ watched = FALSE /\ anchor = 0 /\ base = 0 /\ got = {} /\ reported = 0
  BY DEF Init, Resting
<1>4. WatchTyped
  <2>1. watch \in WatchKinds BY <1>3 DEF WatchKinds, Stalled
  <2>2. watch.st = "rest" /\ watch.wrote = 0 /\ watch.seen = 0 /\ watch.cut = 0 BY <1>3
  <2>3. watched \in BOOLEAN BY <1>3
  <2> QED BY <1>2, <2>1, <2>2, <2>3 DEF WatchTyped
<1>5. CutTrue BY <1>3 DEF CutTrue
<1>6. Marks /\ GotBehind /\ TextOnce BY <1>2, <1>3 DEF Marks, GotBehind, TextOnce
<1> QED BY <1>1, <1>4, <1>5, <1>6 DEF MarksInv

\* The last anchor of what a pass completes in the copy is in the copy.
LEMMA LastAnchorIn ==
  ASSUME LogInv
  PROVE  LastAnchor(CompletedTurns(Copy, 1), 0) \in 0 .. mirrored
<1>1. log \in Seq(Kinds) /\ mirrored \in 0 .. Len(log) /\ Len(log) \in Nat
  BY DEF LogInv, LogTyped
<1> DEFINE p == Pass(log, 1)[mirrored]
           turns == Flush(p).turns
<1>2. p \in Passes /\ Sound(p, 1, mirrored, log) BY <1>1, PassSound
<1>3. CompletedTurns(Copy, 1) = turns BY <1>1, CompletedIs DEF Copy
<1> HIDE DEF p
<1>4. Sound(Flush(p), 1, mirrored, log)
  <2>1. TurnsSound(p.turns, 1, mirrored, log) /\ GroupSound(p.turns, p.group, 1, mirrored, log)
    BY <1>2 DEF Sound
  <2> QED BY <1>1, <1>2, <2>1, SoundFlush
<1>5. turns \in Seq(Turns) BY <1>2, FlushIs DEF Passes
<1>6. TurnsSound(turns, 1, mirrored, log) BY <1>4 DEF Sound
<1> HIDE DEF turns
<1>7. CASE turns = <<>> BY <1>1, <1>3, <1>7 DEF LastAnchor
<1>8. CASE turns # <<>>
  <2>1. Len(turns) \in DOMAIN turns BY <1>5, <1>8
  <2>2. turns[Len(turns)].anchor \in 1 .. mirrored BY <1>6, <2>1 DEF TurnsSound
  <2> QED BY <1>1, <1>3, <1>8, <2>2 DEF LastAnchor, Last
<1> QED BY <1>7, <1>8

LEMMA WatchPostKeepsMarks ==
  ASSUME MarksInv, WatchPost
  PROVE  WatchTyped' /\ CutTrue' /\ Marks' /\ GotBehind' /\ TextOnce'
<1>1. /\ LogInv /\ WatchTyped /\ CutTrue /\ Marks /\ GotBehind /\ TextOnce
      /\ watch.st = "post" /\ Len(log) \in Nat
      /\ UNCHANGED <<log, mirrored, watched, base, reported>>
  BY DEF MarksInv, WatchPost, LogInv, LogTyped
<1> DEFINE o == Outgoing
           n == Len(o)
<1>2. /\ n \in Nat /\ DOMAIN o = 1 .. n
      /\ \A j \in 1 .. n :
           /\ o[j].anchor \in anchor + 1 .. watch.seen
           /\ \A x \in o[j].text : x \in anchor + 1 .. o[j].anchor
      /\ \A j, k \in 1 .. n : j < k =>
           /\ o[j].anchor < o[k].anchor
           /\ \A x \in o[k].text : o[j].anchor < x
      /\ LastAnchor(o, anchor) = IF n = 0 THEN anchor ELSE o[n].anchor
  BY <1>1, OutgoingIs
<1>3. /\ got' = got \cup {o[i] : i \in DOMAIN o} /\ anchor' = LastAnchor(o, anchor)
      /\ watch' = Resting(watch.polls, watch.wrote)
  BY DEF WatchPost
<1> HIDE DEF o, n
<1>4. /\ anchor \in 0 .. mirrored /\ base \in 0 .. anchor /\ mirrored \in Nat
      /\ watch.seen \in Nat /\ watch.seen <= mirrored /\ watched
      /\ watch.polls \in 0 .. 1 /\ watch.wrote \in 0 .. Len(log)
  BY <1>1 DEF Marks, WatchTyped, WatchKinds, LogInv, LogTyped
<1>5. anchor' \in anchor .. mirrored /\ \A j \in 1 .. n : o[j].anchor <= anchor'
  <2>1. CASE n = 0 BY <1>2, <1>3, <1>4, <2>1
  <2>2. CASE n # 0
    <3>1. n \in 1 .. n /\ anchor' = o[n].anchor BY <1>2, <1>3, <2>2
    <3>2. \A j \in 1 .. n : j # n => o[j].anchor < o[n].anchor
      <4> SUFFICES ASSUME NEW j \in 1 .. n, j # n PROVE o[j].anchor < o[n].anchor OBVIOUS
      <4>1. j < n BY <1>2
      <4> QED BY <1>2, <3>1, <4>1
    <3>3. o[n].anchor \in anchor + 1 .. watch.seen BY <1>2, <3>1
    <3>4. \A j \in 1 .. n : o[j].anchor \in Int BY <1>2
    <3> QED BY <1>4, <3>1, <3>2, <3>3, <3>4
  <2> QED BY <2>1, <2>2
<1>6. watch' = [st |-> "rest", polls |-> watch.polls, wrote |-> watch.wrote, quiet |-> 0,
                seen |-> 0, cut |-> 0]
  BY <1>3 DEF Resting
<1>7. WatchTyped'
  <2>1. watch' \in WatchKinds BY <1>4, <1>6 DEF WatchKinds, Stalled
  <2>2. /\ watch'.wrote = watch.wrote /\ watch'.seen = 0 /\ watch'.cut = 0 /\ watch'.st = "rest"
    BY <1>6
  <2> QED BY <1>1, <1>4, <2>1, <2>2 DEF WatchTyped
<1>8. CutTrue' BY <1>6 DEF CutTrue
<1>9. Marks' BY <1>1, <1>4, <1>5 DEF Marks
<1>10. GotBehind'
  <2> SUFFICES ASSUME NEW t \in got', NEW x \in t.text PROVE x \in 1 .. anchor'
    BY DEF GotBehind
  <2>1. CASE t \in got
    <3>1. x \in 1 .. anchor BY <1>1, <2>1 DEF GotBehind
    <3> QED BY <1>4, <1>5, <3>1
  <2>2. CASE \E j \in 1 .. n : t = o[j]
    <3>1. PICK j \in 1 .. n : t = o[j] BY <2>2
    <3>2. x \in anchor + 1 .. o[j].anchor /\ o[j].anchor <= anchor' /\ o[j].anchor \in Int
      BY <1>2, <1>5, <3>1
    <3> QED BY <1>4, <1>5, <3>2
  <2> QED BY <1>2, <1>3, <2>1, <2>2
<1>11. TextOnce'
  <2> SUFFICES ASSUME NEW t \in got', NEW u \in got', NEW x \in t.text, x \in u.text
               PROVE  t = u
    BY DEF TextOnce
  <2>1. \A v \in got : v.text \cap (anchor + 1 .. anchor') = {}
    BY <1>1, <1>4 DEF GotBehind
  <2>2. \A v \in got' : v \in got \/ \E j \in 1 .. n : v = o[j] BY <1>2, <1>3
  <2>3. \A j \in 1 .. n : \A y \in o[j].text : y \in anchor + 1 .. anchor'
    <3> SUFFICES ASSUME NEW j \in 1 .. n, NEW y \in o[j].text
                 PROVE  y \in anchor + 1 .. anchor' OBVIOUS
    <3>1. y \in anchor + 1 .. o[j].anchor /\ o[j].anchor <= anchor' /\ o[j].anchor \in Int
      BY <1>2, <1>5
    <3> QED BY <1>4, <1>5, <3>1
  <2>4. CASE t \in got /\ u \in got BY <1>1, <2>4 DEF TextOnce
  <2>5. CASE t \in got /\ \E j \in 1 .. n : u = o[j] BY <2>1, <2>3, <2>5
  <2>6. CASE u \in got /\ \E j \in 1 .. n : t = o[j] BY <2>1, <2>3, <2>6
  <2>7. CASE (\E j \in 1 .. n : t = o[j]) /\ (\E k \in 1 .. n : u = o[k])
    <3>1. PICK j \in 1 .. n : t = o[j] BY <2>7
    <3>2. PICK k \in 1 .. n : u = o[k] BY <2>7
    <3>3. j \in Int /\ k \in Int BY <1>2
    <3>4. x \in Int /\ x <= o[j].anchor /\ x <= o[k].anchor BY <1>2, <3>1, <3>2
    <3>5. o[j].anchor \in Int /\ o[k].anchor \in Int BY <1>2
    <3>6. CASE j < k
      <4>1. o[j].anchor < x BY <1>2, <3>2, <3>6
      <4> QED BY <3>4, <3>5, <4>1
    <3>7. CASE k < j
      <4>1. o[k].anchor < x BY <1>2, <3>1, <3>7
      <4> QED BY <3>4, <3>5, <4>1
    <3>8. CASE j = k BY <3>1, <3>2, <3>8
    <3> QED BY <3>3, <3>6, <3>7, <3>8
  <2> QED BY <2>2, <2>4, <2>5, <2>6, <2>7
<1> QED BY <1>7, <1>8, <1>9, <1>10, <1>11

LEMMA WatchReadKeepsMarks ==
  ASSUME MarksInv, WatchRead
  PROVE  WatchTyped' /\ CutTrue' /\ Marks' /\ GotBehind' /\ TextOnce'
<1>1. /\ log \in Seq(Kinds) /\ Len(log) \in Nat /\ mirrored \in 0 .. Len(log)
      /\ quiet \in 0 .. Stalled /\ anchor \in 0 .. mirrored
      /\ watch.polls \in 0 .. 1
  BY DEF MarksInv, LogInv, LogTyped, Marks, WatchTyped, WatchKinds
<1>2. UNCHANGED <<log, mirrored, reported, watched, anchor, base, got>> /\ watched
  BY DEF WatchRead
<1>3. PICK look, polls :
        /\ look = (IF MayBeCutOff THEN "look" ELSE "post")
        /\ polls = (IF MayBeCutOff THEN watch.polls ELSE 0)
  OBVIOUS
<1>4. watch' = [Resting(polls, 0) EXCEPT !.st = look, !.quiet = quiet, !.seen = mirrored]
  BY <1>3 DEF WatchRead
<1>5. watch' = [st |-> look, polls |-> polls, wrote |-> 0, quiet |-> quiet, seen |-> mirrored,
                cut |-> 0]
  BY <1>4 DEF Resting
<1>6. look \in {"look", "post"} /\ polls \in 0 .. 1 /\ (look = "look" => CutOffAfter(Copy) # 0)
  BY <1>1, <1>3 DEF MayBeCutOff
<1>7. WatchTyped'
  <2>1. watch' \in WatchKinds BY <1>1, <1>5, <1>6 DEF WatchKinds
  <2>2. watch'.seen = mirrored /\ watch'.wrote = 0 /\ watch'.cut = 0 BY <1>5
  <2>3. watched' \in BOOLEAN /\ watched'
    <3> watched \in BOOLEAN BY DEF MarksInv, WatchTyped
    <3> QED BY <1>2
  <2> QED BY <1>1, <1>2, <2>1, <2>2, <2>3 DEF WatchTyped
<1>8. CutTrue'
  <2>1. watch'.st = look /\ watch'.seen = mirrored /\ watch'.cut = 0 BY <1>5
  <2>2. Read' = Copy BY <1>2, <2>1 DEF Read, Copy
  <2>3. CutOffAfter(Read)' = CutOffAfter(Copy) BY <1>2, <2>2 DEF CutOffAfter
  <2> QED BY <1>6, <2>1, <2>3 DEF CutTrue
<1>9. Marks' /\ GotBehind' /\ TextOnce'
  BY <1>2 DEF MarksInv, Marks, GotBehind, TextOnce
<1> QED BY <1>7, <1>8, <1>9

LEMMA WatchLookKeepsMarks ==
  ASSUME MarksInv, WatchLook
  PROVE  WatchTyped' /\ CutTrue' /\ Marks' /\ GotBehind' /\ TextOnce'
<1>1. /\ log \in Seq(Kinds) /\ Len(log) \in Nat /\ mirrored \in 0 .. Len(log) /\ LastExists
      /\ anchor \in 0 .. mirrored /\ watch \in WatchKinds
      /\ watch.seen \in 0 .. mirrored /\ watch.polls \in 0 .. 1 /\ watched /\ anchor <= watch.seen
  BY DEF MarksInv, LogInv, LogTyped, Marks, WatchTyped, WatchKinds, WatchLook
<1>2. UNCHANGED <<log, mirrored, watched, anchor, base, got>> /\ watch.st = "look"
  BY DEF WatchLook
<1>3. PICK w \in RowShows :
        LET why == Verdict([working |-> w, box |-> box])
        IN  /\ watch' = [watch EXCEPT
                           !.st = "post",
                           !.polls = PollsAfter(why),
                           !.wrote = IF PollsAfter(why) = 0 THEN 0 ELSE Len(log),
                           !.cut = IF Confirms(why) THEN CutOffAfter(Read) ELSE 0]
            /\ reported' = (IF Confirms(why) THEN CutOffAfter(Read) ELSE reported)
  BY DEF WatchLook
<1> DEFINE why == Verdict([working |-> w, box |-> box])
           cut == CutOffAfter(Read)
<1>4. cut \in 0 .. watch.seen BY <1>1, CutOffIn
<1>5. PollsAfter(why) \in 0 .. 1 BY <1>1 DEF PollsAfter
<1> HIDE DEF why, cut
<1>6. /\ watch'.st = "post" /\ watch'.seen = watch.seen
      /\ watch'.wrote = (IF PollsAfter(why) = 0 THEN 0 ELSE Len(log))
      /\ watch' \in WatchKinds /\ watch'.cut \in {0, cut} /\ reported' \in {reported, cut}
  <2>1. cut \in Nat BY <1>1, <1>4
  <2>2. (IF PollsAfter(why) = 0 THEN 0 ELSE Len(log)) \in Nat BY <1>1
  <2> QED BY <1>1, <1>3, <1>5, <2>1, <2>2 DEF WatchKinds, why, cut
<1>7. WatchTyped'
  <2>1. watched \in BOOLEAN BY DEF MarksInv, WatchTyped
  <2>2. watch'.cut \in Nat /\ watch'.cut <= watch'.seen BY <1>1, <1>4, <1>6
  <2>3. watch'.wrote <= Len(log) BY <1>1, <1>6
  <2> QED BY <1>1, <1>2, <1>6, <2>1, <2>2, <2>3 DEF WatchTyped
<1>8. CutTrue'
  <2>1. Read' = Read BY <1>2, <1>6 DEF Read
  <2>2. CutOffAfter(Read)' = cut BY <1>2, <2>1 DEF CutOffAfter, cut
  <2> QED BY <1>6, <2>2 DEF CutTrue
<1>9. Marks' BY <1>1, <1>2, <1>4, <1>6 DEF MarksInv, Marks
<1>10. GotBehind' /\ TextOnce' BY <1>2 DEF MarksInv, GotBehind, TextOnce
<1> QED BY <1>7, <1>8, <1>9, <1>10

LEMMA MarksInvKept == MarksInv /\ [Next]_vars => MarksInv'
<1> SUFFICES ASSUME MarksInv, [Next]_vars PROVE MarksInv' OBVIOUS
<1>1. LogInv' BY LogInvKept DEF MarksInv
<1>2. /\ log \in Seq(Kinds) /\ Len(log) \in Nat /\ mirrored \in 0 .. Len(log)
      /\ Len(log') \in Nat /\ Len(log) <= Len(log')
      /\ mirrored' \in Nat /\ mirrored <= mirrored'
  BY Grows DEF MarksInv, LogInv, LogTyped
<1>3. /\ WatchTyped /\ CutTrue /\ Marks /\ GotBehind /\ TextOnce /\ LogInv
      /\ watch \in WatchKinds /\ watch.seen \in Nat /\ watch.wrote \in Nat /\ watch.cut \in Nat
      /\ watch.seen <= mirrored /\ watch.wrote <= Len(log)
  BY DEF MarksInv, WatchTyped, WatchKinds
<1>4. CASE ~WatchStep /\ ~Restart /\ ~Connect
  <2>1. UNCHANGED <<watch, reported, watched, anchor, base, got>> BY <1>4, MarksOnly
  <2>2. WatchTyped' BY <1>2, <1>3, <2>1 DEF WatchTyped
  <2>3. watch.seen \in 0 .. Len(log) BY <1>2, <1>3
  <2>4. CutOffAfter(Read)' = CutOffAfter(Read) BY <1>2, <1>3, <2>1, <2>3, ReadStays
  <2>5. CutTrue' BY <1>3, <2>1, <2>4 DEF CutTrue
  <2>6. Marks' BY <1>2, <1>3, <2>1 DEF Marks
  <2>7. GotBehind' /\ TextOnce' BY <1>3, <2>1 DEF GotBehind, TextOnce
  <2> QED BY <1>1, <2>2, <2>5, <2>6, <2>7 DEF MarksInv
<1>5. CASE WatchStep
  BY <1>1, <1>5, WatchReadKeepsMarks, WatchLookKeepsMarks, WatchPostKeepsMarks
  DEF WatchStep, MarksInv
<1>6. CASE Restart
  <2>1. watch' = [st |-> "rest", polls |-> 0, wrote |-> 0, quiet |-> 0, seen |-> 0, cut |-> 0]
        /\ UNCHANGED <<log, mirrored, reported, watched, anchor, base, got>>
    BY <1>6 DEF Restart, Resting
  <2>2. WatchTyped'
    <3>1. watch' \in WatchKinds BY <2>1 DEF WatchKinds, Stalled
    <3>2. watched \in BOOLEAN BY <1>3 DEF WatchTyped
    <3> QED BY <1>2, <2>1, <3>1, <3>2 DEF WatchTyped
  <2>3. CutTrue' BY <2>1 DEF CutTrue
  <2>4. Marks' /\ GotBehind' /\ TextOnce' BY <1>3, <2>1 DEF Marks, GotBehind, TextOnce
  <2> QED BY <1>1, <2>2, <2>3, <2>4 DEF MarksInv
<1>7. CASE Connect
  <2>1. /\ UNCHANGED <<log, mirrored, reported, watch, got>> /\ ~watched /\ watched' = TRUE
        /\ anchor' = LastAnchor(CompletedTurns(Copy, 1), 0) /\ base' = anchor'
    BY <1>7 DEF Connect
  <2>2. anchor' \in 0 .. mirrored BY <1>3, <2>1, LastAnchorIn
  <2>3. watch.st = "rest" /\ got = {} BY <1>3, <2>1 DEF WatchTyped, Marks, WatchKinds
  <2>4. WatchTyped' BY <1>3, <2>1, <2>3 DEF WatchTyped
  <2>5. CutTrue' BY <1>3, <2>1, <2>3 DEF CutTrue
  <2>6. Marks' BY <1>2, <1>3, <2>1, <2>2 DEF Marks
  <2>7. GotBehind' /\ TextOnce' BY <2>1, <2>3 DEF GotBehind, TextOnce
  <2> QED BY <1>1, <2>4, <2>5, <2>6, <2>7 DEF MarksInv
<1> QED BY <1>4, <1>5, <1>6, <1>7

LEMMA MarksInvHolds == Spec => []MarksInv
<1>1. Init => MarksInv BY MarksInvInit
<1>2. MarksInv /\ [Next]_vars => MarksInv' BY MarksInvKept
<1> QED BY <1>1, <1>2, PTL DEF Spec

(***************************************************************************)
(* The text of a reply goes out in one turn only, whatever Claude Code,    *)
(* the person and the host do: a pass starts behind the watermark, and no  *)
(* two of its turns share a line.                                          *)
(***************************************************************************)
THEOREM ReplyTextGoesOutOnce == Spec => []TextOnce
<1>1. MarksInv => TextOnce BY DEF MarksInv
<1> QED BY <1>1, MarksInvHolds, PTL

-----------------------------------------------------------------------------
(* What is recorded as reported goes out. *)

ReportGoesOut ==
  reported # 0 => watch.cut = reported \/ \E t \in got : t.anchor = reported

LEMMA ReportGoesOutKept ==
  ASSUME MarksInv, ReportGoesOut, [Next]_vars, "cutpost" \notin Faults
  PROVE  ReportGoesOut'
<1>1. WatchTyped /\ CutTrue /\ Marks /\ LogInv BY DEF MarksInv
<1>2. CASE ~WatchStep /\ ~Restart /\ ~Connect
  <2>1. UNCHANGED <<watch, reported, got>> BY <1>2, MarksOnly
  <2> QED BY <2>1 DEF ReportGoesOut
<1>3. CASE Connect
  <2>1. UNCHANGED <<watch, reported, got>> BY <1>3 DEF Connect
  <2> QED BY <2>1 DEF ReportGoesOut
<1>4. CASE Restart
  <2>1. watch.cut = 0 /\ UNCHANGED <<reported, got>> BY <1>4 DEF Restart
  <2> QED BY <2>1 DEF ReportGoesOut
<1>5. CASE WatchRead
  <2>1. watch.cut = 0 /\ UNCHANGED <<reported, got>> BY <1>1, <1>5 DEF WatchRead, CutTrue
  <2> QED BY <2>1 DEF ReportGoesOut
<1>6. CASE WatchLook
  <2>1. watch.cut = 0 /\ UNCHANGED got /\ watch \in WatchKinds
    BY <1>1, <1>6 DEF WatchLook, CutTrue, WatchTyped
  <2>2. PICK why :
          /\ watch'.cut = (IF Confirms(why) THEN CutOffAfter(Read) ELSE 0)
          /\ reported' = (IF Confirms(why) THEN CutOffAfter(Read) ELSE reported)
    <3>1. PICK w \in RowShows :
            LET why == Verdict([working |-> w, box |-> box])
            IN  /\ watch' = [watch EXCEPT
                               !.st = "post",
                               !.polls = PollsAfter(why),
                               !.wrote = IF PollsAfter(why) = 0 THEN 0 ELSE Len(log),
                               !.cut = IF Confirms(why) THEN CutOffAfter(Read) ELSE 0]
                /\ reported' = (IF Confirms(why) THEN CutOffAfter(Read) ELSE reported)
      BY <1>6 DEF WatchLook
    <3> DEFINE v == Verdict([working |-> w, box |-> box])
    <3> HIDE DEF v
    <3>2. /\ watch'.cut = (IF Confirms(v) THEN CutOffAfter(Read) ELSE 0)
          /\ reported' = (IF Confirms(v) THEN CutOffAfter(Read) ELSE reported)
      BY <2>1, <3>1 DEF v, WatchKinds
    <3> QED BY <3>2
  <2> QED BY <2>1, <2>2 DEF ReportGoesOut
<1>7. CASE WatchPost
  <2>1. /\ got' = got \cup {Outgoing[i] : i \in DOMAIN Outgoing} /\ reported' = reported
        /\ watch.st = "post"
    BY <1>7 DEF WatchPost
  <2>2. ASSUME watch.cut # 0 PROVE \E t \in got' : t.anchor = watch.cut
    <3>1. LET n == Len(Outgoing)
          IN  n \in Nat /\ n # 0 /\ DOMAIN Outgoing = 1 .. n /\ Outgoing[n] = CutTurn
      BY <1>1, <2>1, <2>2, OutgoingIs
    <3> DEFINE n == Len(Outgoing)
    <3>2. n \in DOMAIN Outgoing /\ Outgoing[n] = CutTurn
      <4> HIDE DEF n
      <4>1. n \in Nat /\ n # 0 /\ DOMAIN Outgoing = 1 .. n /\ Outgoing[n] = CutTurn
        BY <3>1 DEF n
      <4> QED BY <4>1
    <3>3. CutTurn \in got' BY <2>1, <3>2
    <3> QED BY <3>3 DEF CutTurn
  <2> QED BY <2>1, <2>2 DEF ReportGoesOut
<1> QED BY <1>2, <1>3, <1>4, <1>5, <1>6, <1>7 DEF WatchStep

(***************************************************************************)
(* While a watcher is open, the report of a prompt Esc stopped before      *)
(* Claude wrote anything is posted before the next prompt is pasted        *)
(* (_session_state, interrupt_not_reported_yet), with every rare event     *)
(* but two between the record of the report and its answer, and a          *)
(* transcript that cannot be read.                                         *)
(***************************************************************************)
THEOREM EscReportedBeforeNextPrompt ==
  ASSUME "slowpost" \notin Faults, "cutpost" \notin Faults, "unreadable" \notin Faults
  PROVE  Spec => EscReportedFirst
<1> DEFINE Inv == SenderInv /\ MarksInv /\ ReportGoesOut
<1>1. Init => Inv
  <2>1. Init => ReportGoesOut BY DEF Init, ReportGoesOut
  <2> QED BY <2>1, SenderInvInit, MarksInvInit
<1>2. Inv /\ [Next]_vars => Inv' BY SenderInvKept, MarksInvKept, ReportGoesOutKept
<1>3. Inv /\ [Next]_vars => [Pastes => ~(watched /\ ~Busy /\ UnreportedEsc)]_vars
  <2> SUFFICES ASSUME Inv, [Next]_vars, Pastes, watched, ~Busy, UnreportedEsc PROVE FALSE
    OBVIOUS
  <2> DEFINE u == Unanswered(log)
  <2>1. Paste /\ watch.cut = 0 BY PastesInPaste DEF Paste
  <2>2. u \in escaped /\ u <= since /\ \A t \in got : t.anchor # u BY DEF UnreportedEsc
  <2>3. u # 0 BY <2>2 DEF SenderInv, LogInv, LogTyped
  <2>4. reported # u BY <2>1, <2>2, <2>3 DEF ReportGoesOut
  <2> QED BY <2>1, <2>2, <2>4, EscRecordedFirst
<1> QED BY <1>1, <1>2, <1>3, PTL DEF Spec, EscReportedFirst

-----------------------------------------------------------------------------
(* Types. *)

\* There is a prompt to paste while the send path looks, or has seen Claude free once.
PasteTyped ==
  /\ records \in BOOLEAN /\ echo \in BOOLEAN
  /\ toPaste \in 0 .. MaxPastes /\ (send.st = "looked" => toPaste > 0)
  /\ ran \in 0 .. Len(log) + 1

TypeInv == SenderInv /\ MarksInv /\ PasteTyped

LEMMA PasteTypedOnly ==
  ASSUME [Next]_vars, ~SendStep, ~Restart, ~EchoEnds
  PROVE  UNCHANGED <<send, toPaste, ran, echo, records>>
<1> USE DEF Opens, Writes
<1>1. CASE Server
  BY <1>1 DEF Server, Connect, WatchStep, WatchRead, WatchLook, WatchPost
<1>2. CASE Claude
  BY <1>2 DEF Claude, PasteShows, Works, Segment, Replies, Asks, Fails, HooksAllow, HooksPush
<1>3. CASE Person BY <1>3 DEF Person, Prompted, Drafts, Answered, EarlyEsc, Esc
<1>4. CASE Notified \/ Handed BY <1>4 DEF Notified, Handed
<1>5. CASE Mirror \/ Tick BY <1>5 DEF Mirror, Tick
<1>6. CASE UNCHANGED vars BY <1>6
<1> QED BY <1>1, <1>2, <1>3, <1>4, <1>5, <1>6 DEF Next

LEMMA PasteTypedKept ==
  ASSUME TypeInv, [Next]_vars
  PROVE  PasteTyped'
<1>1. /\ Len(log) \in Nat /\ Len(log') \in Nat /\ Len(log) <= Len(log') /\ LogInv
      /\ opener \in 0 .. Len(log)
  BY Grows DEF TypeInv, SenderInv, LogInv, LogTyped
<1>2. /\ records \in BOOLEAN /\ echo \in BOOLEAN
      /\ toPaste \in 0 .. MaxPastes /\ (send.st = "looked" => toPaste > 0)
      /\ ran \in 0 .. Len(log) + 1 /\ MaxPastes \in Nat
      /\ send \in [st : {"wait", "looked"}, screen : Screens, streak : 0 .. 1]
  BY TurnStateAssumption DEF TypeInv, PasteTyped, SenderInv, SenderTyped
<1>3. CASE SendLook
  <2>1. Current \in 0 .. Len(log) + 1 BY <1>1, CurrentIs
  <2>2. /\ toPaste > 0 /\ UNCHANGED <<log, toPaste, records, echo>>
        /\ ran' \in {ran, 0, Current}
    BY <1>2, <1>3 DEF SendLook
  <2> QED BY <1>1, <1>2, <2>1, <2>2 DEF PasteTyped
<1>4. CASE SendRead
  <2>1. /\ send' \in {Waiting(0), Waiting(1)} /\ UNCHANGED <<log, toPaste, records>>
        /\ echo' = (echo /\ ~Arrived) /\ ran' \in {ran, 0}
    BY <1>4 DEF SendRead, NotFree, FreeOnce, Over
  <2>2. send'.st = "wait" BY <2>1 DEF Waiting
  <2>3. echo' \in BOOLEAN BY <2>1
  <2> QED BY <1>1, <1>2, <2>1, <2>2, <2>3 DEF PasteTyped
<1>5. CASE Paste
  <2>1. /\ send' = Waiting(0) /\ UNCHANGED <<log, records>> /\ toPaste' = toPaste - 1
        /\ toPaste > 0 /\ echo' = ~Busy /\ ran' = 0
    BY <1>2, <1>5 DEF Paste, Over
  <2>2. send'.st = "wait" BY <2>1 DEF Waiting
  <2>3. echo' \in BOOLEAN BY <2>1 DEF Busy
  <2> QED BY <1>1, <1>2, <2>1, <2>2, <2>3 DEF PasteTyped
<1>6. CASE Restart
  <2>1. send' = Waiting(0) /\ UNCHANGED <<log, records, toPaste>> /\ echo' = FALSE /\ ran' = 0
    BY <1>6 DEF Restart, Over
  <2>2. send'.st = "wait" BY <2>1 DEF Waiting
  <2>3. records' \in BOOLEAN /\ echo' \in BOOLEAN BY <1>2, <2>1
  <2>4. toPaste' \in 0 .. MaxPastes /\ ran' \in 0 .. Len(log)' + 1 BY <1>1, <1>2, <2>1
  <2> QED BY <2>2, <2>3, <2>4 DEF PasteTyped
<1>7. CASE EchoEnds
  <2>1. UNCHANGED <<log, send, records, toPaste, ran>> /\ echo' = FALSE BY <1>7 DEF EchoEnds
  <2> QED BY <1>1, <1>2, <2>1 DEF PasteTyped
<1>8. CASE ~SendStep /\ ~Restart /\ ~EchoEnds
  <2>1. UNCHANGED <<send, toPaste, ran, echo, records>> BY <1>8, PasteTypedOnly
  <2>2. records' \in BOOLEAN /\ echo' \in BOOLEAN BY <1>2, <2>1
  <2> QED BY <1>1, <1>2, <2>1, <2>2 DEF PasteTyped
<1> QED BY <1>3, <1>4, <1>5, <1>6, <1>7, <1>8 DEF SendStep

\* Every variable has its type, whatever happens.
THEOREM TurnStateTypes == Spec => []TypeOK
<1>1. Init => TypeInv
  <2> SUFFICES ASSUME Init PROVE TypeInv OBVIOUS
  <2>1. SenderInv /\ MarksInv BY SenderInvInit, MarksInvInit
  <2>2. Len(log) \in Nat BY <2>1 DEF SenderInv, LogInv, LogTyped
  <2>3. send.st = "wait" BY DEF Init, Waiting
  <2>4. records \in BOOLEAN /\ echo \in BOOLEAN /\ toPaste = MaxPastes /\ ran = 0 BY DEF Init
  <2>5. PasteTyped BY <2>2, <2>3, <2>4, TurnStateAssumption DEF PasteTyped
  <2> QED BY <2>1, <2>5 DEF TypeInv
<1>2. TypeInv /\ [Next]_vars => TypeInv'
  BY SenderInvKept, MarksInvKept, PasteTypedKept DEF TypeInv
<1>3. TypeInv => TypeOK
  <2> SUFFICES ASSUME TypeInv PROVE TypeOK OBVIOUS
  <2>1. LogTyped /\ SenderTyped /\ WatchTyped /\ Marks /\ PasteTyped
    BY DEF TypeInv, SenderInv, MarksInv, LogInv
  <2>2. log \in Seq(Kinds) /\ Len(log) \in Nat /\ mirrored \in 0 .. Len(log)
    BY <2>1 DEF LogTyped
  <2>3. /\ watch \in WatchKinds /\ watch.wrote <= Len(log) /\ watch.seen <= mirrored
        /\ watch.cut <= watch.seen /\ watched \in BOOLEAN
    BY <2>1 DEF WatchTyped
  <2>4. /\ watch.st \in {"rest", "look", "post"} /\ watch.polls \in 0 .. 1
        /\ watch.wrote \in 0 .. Len(log) /\ watch.quiet \in 0 .. Stalled
        /\ watch.seen \in 0 .. mirrored /\ watch.cut \in 0 .. watch.seen
    BY <2>2, <2>3 DEF WatchKinds
  <2>5. anchor \in 0 .. mirrored /\ base \in 0 .. mirrored /\ reported \in 0 .. mirrored
    BY <2>1, <2>2 DEF Marks
  <2> QED BY <2>1, <2>2, <2>3, <2>4, <2>5 DEF TypeOK, LogTyped, SenderTyped, PasteTyped
<1> QED BY <1>1, <1>2, <1>3, PTL DEF Spec

-----------------------------------------------------------------------------
(* What Claude does, told by the line it writes. *)

\* Nothing is written: Claude is where it was, is given a prompt, or was stopped early.
Rests ==
  /\ UNCHANGED <<log, opener, ended, went>>
  /\ \/ claude' = claude
     \/ claude = "idle" /\ claude' = "given"
     \/ /\ claude = "asked" /\ claude' = "idle"
        /\ log[opener] = "prompt" => opener \in escaped'

\* The Stop hooks let Claude stop.
Stops ==
  /\ claude = "hooks" /\ claude' = "idle" /\ UNCHANGED <<opener, anchor, went>>
  /\ ended' = ended \cup {<<Len(log), opener>>}

\* A line opens a turn.
Begins(k) ==
  /\ k \in {"prompt", "notice", "peer"} /\ ~Working /\ claude' = "asked"
  /\ opener' = Len(log) + 1 /\ UNCHANGED <<ended, went>>
  /\ k = "peer" => ~Undelivered

\* A line that opens none and ends none.
Continues(k) ==
  /\ UNCHANGED <<opener, ended>>
  /\ \/ k = "local" /\ ~Working /\ claude' = claude /\ went' = went
     \/ k = "peer" /\ claude = "working" /\ claude' = claude /\ went' = went
     \/ k = "work" /\ claude \in {"asked", "working", "between"} /\ claude' = "working" /\ went' = went
     \/ k = "result" /\ claude = "asking" /\ claude' = "working" /\ went' = went
     \/ k = "feedback" /\ claude = "hooks" /\ claude' = "working" /\ went' = went
     \/ k = "reply" /\ claude \in {"asked", "working", "between"} /\ claude' = "hooks" /\ went' = went
     \/ /\ k \in {"reply", "error"} /\ claude \in {"asked", "working"} /\ claude' = "between"
        /\ went' = went \cup {<<Len(log) + 1, opener>>}

\* A line that ends a turn, or puts a question.
Finishes(k) ==
  /\ UNCHANGED <<opener, went>> /\ ended' = ended \cup {<<Len(log) + 1, opener>>}
  /\ \/ k = "ask" /\ claude \in {"asked", "working"} /\ claude' = "asking"
     \/ k = "error" /\ claude \in {"asked", "working"} /\ claude' = "idle"
     \/ k = "interrupt" /\ claude \in {"working", "between", "asking"} /\ ~Resumed /\ claude' = "idle"

Line(k) ==
  /\ Grown(k) /\ anchor' = anchor
  /\ Begins(k) \/ Continues(k) \/ Finishes(k) \/ (k \in StopRecords /\ Stops)

LEMMA LastReply ==
  ASSUME LogInv, claude = "hooks"
  PROVE  LastOf(log, {"reply"}) = Len(log)
<1>1. log \in Seq(Kinds) /\ Len(log) \in Nat /\ LastExists /\ Len(log) # 0
      /\ log[Len(log)] = "reply"
  BY DEF LogInv, LogTyped, LastLine
<1>2. SubSeq(log, 1, Len(log)) = log BY <1>1
<1> DEFINE l == LastOf(SubSeq(log, 1, Len(log)), {"reply"})
<1>3. l \in 0 .. Len(log) /\ \A i \in l + 1 .. Len(log) : log[i] \notin {"reply"}
  BY <1>1, LastOfIs
<1> HIDE DEF l
<1>4. l = Len(log) BY <1>1, <1>3
<1> QED BY <1>2, <1>4 DEF l

LEMMA StepIs ==
  ASSUME LogInv, [Next]_vars, Faults \cap {"undelivered", "lateesc"} = {}
  PROVE  Rests \/ (log' = log /\ Stops) \/ \E k \in Kinds : Line(k)
<1>1. log \in Seq(Kinds) BY DEF LogInv, LogTyped
<1>2. \A k \in Kinds : Says(<<k>>) => Grown(k) BY <1>1, SaysGrows
<1>3. {"prompt", "notice", "peer", "local", "work", "reply", "ask", "error", "result",
       "feedback", "interrupt"} \cup StopRecords \subseteq Kinds
  BY DEF Kinds, Assistant, UserPrompts, Typed, Meta, StopRecords
<1>4. Faults \cap {"undelivered"} = {} /\ "lateesc" \notin Faults /\ "undelivered" \notin Faults OBVIOUS
<1> USE DEF Opens, Writes, Here, Working
<1>5. CASE Server
  BY <1>5 DEF Server, SendStep, SendLook, SendRead, NotFree, FreeOnce, Paste, EchoEnds,
    Connect, WatchStep, WatchRead, WatchLook, WatchPost, Restart, Rests, Busy
<1>6. CASE Drafts \/ Mirror \/ Tick \/ EarlyEsc \/ UNCHANGED vars
  BY <1>6 DEF Drafts, Mirror, Tick, EarlyEsc, Rests
<1>7. CASE PasteShows \/ Prompted
  <2>1. Says(<<"prompt">>) /\ Begins("prompt") /\ anchor' = anchor
    BY <1>7 DEF PasteShows, Prompted, Begins
  <2> QED BY <1>2, <1>3, <2>1 DEF Line
<1>8. CASE Notified
  <2>1. \E k \in {"notice", "peer"} : Says(<<k>>) /\ Begins(k) /\ anchor' = anchor
    BY <1>4, <1>8 DEF Notified, Begins
  <2> QED BY <1>2, <1>3, <2>1 DEF Line
<1>9. CASE Handed
  <2>1. \E k \in {"local", "peer"} : Says(<<k>>) /\ Continues(k) /\ anchor' = anchor
    BY <1>9 DEF Handed, Continues
  <2> QED BY <1>2, <1>3, <2>1 DEF Line
<1>10. CASE Works \/ Segment \/ Replies \/ Answered \/ HooksPush
  <2>1. \E k \in {"work", "reply", "result", "feedback"} :
          Says(<<k>>) /\ Continues(k) /\ anchor' = anchor
    BY <1>10 DEF Works, Segment, GoesOn, Replies, Answered, HooksPush, Continues
  <2> QED BY <1>2, <1>3, <2>1 DEF Line
<1>11. CASE Asks \/ Esc
  <2>1. \E k \in {"ask", "interrupt"} : Says(<<k>>) /\ Finishes(k) /\ anchor' = anchor
    BY <1>4, <1>11 DEF Asks, Esc, Finishes
  <2> QED BY <1>2, <1>3, <2>1 DEF Line
<1>12. CASE Fails
  <2>1. Says(<<"error">>) /\ (Finishes("error") \/ Continues("error")) /\ anchor' = anchor
    BY <1>12 DEF Fails, GoesOn, Finishes, Continues
  <2> QED BY <1>2, <1>3, <2>1 DEF Line
<1>13. CASE HooksAllow
  <2>1. Stops BY <1>13, LastReply DEF HooksAllow, Stops
  <2>2. log' = log \/ \E k \in StopRecords : Says(<<k>>) BY <1>13 DEF HooksAllow
  <2>3. anchor' = anchor BY <1>13 DEF HooksAllow
  <2> QED BY <1>2, <1>3, <2>1, <2>2, <2>3 DEF Line
<1> QED BY <1>5, <1>6, <1>7, <1>8, <1>9, <1>10, <1>11, <1>12, <1>13 DEF Next, Claude, Person

-----------------------------------------------------------------------------
(* What Claude wrote is in a turn, or waits in the group.                   *)

\* An error that did not end its turn: Claude Code retried it.
Excused(s, ends, i) == s[i] = "error" /\ \A e \in ends : e[1] # i

\* What Claude wrote in lines f .. n, such errors excepted.
Due(s, ends, f, n) == {i \in f .. n : s[i] \in Assistant /\ ~Excused(s, ends, i)}

EndedIn ==
  /\ ended \subseteq (1 .. Len(log)) \X (1 .. Len(log))
  /\ went \subseteq (1 .. Len(log)) \X (1 .. Len(log))

\* What the group of a pass holds, by what Claude does.
Held(g, c, o, s, ends) ==
  /\ c \in {"idle", "given", "hooks"} => g.pending \subseteq g.text
  /\ c \in {"asked", "asking"} => ~g.saw
  /\ c \notin {"idle", "given"} => \A x \in g.text : x \in g.pending \/ Excused(s, ends, x)
  /\ c \in {"working", "between"} /\ g.anchor # 0 =>
       /\ g.anchor > o /\ s[g.anchor] \in {"reply", "error"}
       /\ \A j \in g.anchor .. Len(s) : s[j] \notin {"feedback", "ask"}

AllHas ==
  \A f \in anchor + 1 .. Len(log) + 1 : \A n \in f - 1 .. Len(log) : 
    Has(Pass(log, f)[n], Due(log, ended, f, n))

AllHeld ==
  \A f \in anchor + 1 .. Len(log) + 1 :
    Held(Pass(log, f)[Len(log)].group, claude, opener, log, ended)

WrittenInv == MarksInv /\ EndedIn /\ AllHas /\ AllHeld

\* The Excused ones stay so.
LEMMA ExcusedStays ==
  ASSUME LogInv, EndedIn, Rests \/ (log' = log /\ Stops) \/ \E k \in Kinds : Line(k),
         NEW x \in 1 .. Len(log)
  PROVE  Excused(log', ended', x) <=> Excused(log, ended, x)
<1>1. log'[x] = log[x] /\ Len(log) \in Nat
  BY DEF Rests, Line, Grown, LogInv, LogTyped
<1>2. CASE ended' = ended BY <1>1, <1>2 DEF Excused
<1>3. CASE Stops
  <2>1. log[Len(log)] = "reply" BY <1>3 DEF Stops, LogInv, LastLine
  <2>2. ended' = ended \cup {<<Len(log), opener>>} BY <1>3 DEF Stops
  <2>3. log[x] = "error" => x # Len(log) BY <2>1
  <2> QED BY <1>1, <2>2, <2>3 DEF Excused
<1>4. CASE \E k \in Kinds : Finishes(k)
  <2>1. ended' = ended \cup {<<Len(log) + 1, opener>>} BY <1>4 DEF Finishes
  <2>2. x # Len(log) + 1 BY <1>1
  <2> QED BY <1>1, <2>1, <2>2 DEF Excused
<1> QED BY <1>2, <1>3, <1>4 DEF Rests, Line, Begins, Continues

LEMMA EndedInKept ==
  ASSUME LogInv, EndedIn, Rests \/ (log' = log /\ Stops) \/ \E k \in Kinds : Line(k)
  PROVE  EndedIn'
<1>1. Len(log) \in Nat /\ opener \in 0 .. Len(log) BY DEF LogInv, LogTyped
<1>2. Len(log') \in {Len(log), Len(log) + 1} BY DEF Rests, Line, Grown
<1>3. Working => opener \in 1 .. Len(log) BY <1>1 DEF LogInv, TurnOpen
<1> DEFINE R == (1 .. Len(log)) \X (1 .. Len(log))
           Q == (1 .. Len(log')) \X (1 .. Len(log'))
<1>4. R \subseteq Q BY <1>1, <1>2
<1>5. CASE ended' = ended /\ went' = went BY <1>4, <1>5 DEF EndedIn
<1>6. CASE Stops
  <2>1. Len(log) \in 1 .. Len(log) /\ opener \in 1 .. Len(log)
    BY <1>1, <1>3, <1>6 DEF Stops, Working, LogInv, LastLine
  <2>2. <<Len(log), opener>> \in R BY <2>1
  <2> QED BY <1>4, <1>6, <2>2 DEF Stops, EndedIn
<1>7. CASE \E k \in Kinds : Line(k) /\ (Finishes(k) \/ Continues(k))
  <2>1. Len(log') = Len(log) + 1 BY <1>7 DEF Line, Grown
  <2>2. Working => <<Len(log) + 1, opener>> \in Q BY <1>1, <1>3, <2>1
  <2> DEFINE e == <<Len(log) + 1, opener>>
  <2>3. /\ ended' = ended \/ (Working /\ ended' = ended \cup {e})
        /\ went' = went \/ (Working /\ went' = went \cup {e})
    BY <1>7 DEF Finishes, Continues, Working
  <2> HIDE DEF e, Q, R
  <2> QED BY <1>4, <2>2, <2>3 DEF EndedIn, e, Q, R
<1> QED BY <1>5, <1>6, <1>7 DEF Rests, Line, Begins

\* The pass over what is written, with the line that is added.
LEMMA PassGrows ==
  ASSUME LogInv, NEW k, Grown(k), NEW f \in Nat \ {0}, f <= Len(log) + 1
  PROVE  /\ \A n \in 0 .. Len(log) : Pass(log', f)[n] = Pass(log, f)[n]
         /\ Pass(log', f)[Len(log) + 1] = ReadLine(Pass(log, f)[Len(log)], k, Len(log) + 1)
<1>1. Len(log) \in Nat BY DEF LogInv, LogTyped
<1>2. ASSUME NEW n \in 0 .. Len(log) PROVE Pass(log', f)[n] = Pass(log, f)[n]
  <2>1. n \in Nat /\ \A i \in 1 .. n : log'[i] = log[i] BY <1>1 DEF Grown
  <2> QED BY <2>1, PassSame
<1>3. Pass(log', f)[Len(log) + 1] = ReadLine(Pass(log', f)[Len(log)], log'[Len(log) + 1], Len(log) + 1)
  BY <1>1, PassIs
<1>4. Len(log) \in 0 .. Len(log) BY <1>1
<1> QED BY <1>2, <1>3, <1>4 DEF Grown

\* A line that Claude's state lets come loses nothing.
LEMMA LineLoses ==
  ASSUME LogInv, NEW k \in Kinds, Line(k), NEW f \in Nat \ {0}, f <= Len(log) + 1,
         Held(Pass(log, f)[Len(log)].group, claude, opener, log, ended)
  PROVE  Keeps(Pass(log, f)[Len(log)].group, k, Due(log, ended, f, Len(log)))
<1> DEFINE g == Pass(log, f)[Len(log)].group
           D == Due(log, ended, f, Len(log))
<1>1. Len(log) \in 0 .. Len(log) BY DEF LogInv, LogTyped
<1>2. /\ g \in Groups /\ (~g.saw => g.anchor = 0 /\ g.pending = {})
      /\ (g.anchor = 0 => g.text = {}) /\ (g.anchor # 0 => g.anchor \in f .. Len(log))
  <2>1. log \in Seq(Kinds) BY DEF LogInv, LogTyped
  <2> QED BY <1>1, <2>1, GroupIs
<1> HIDE DEF g
<1>3. Held(g, claude, opener, log, ended) BY DEF g
<1>4. \A x \in D : ~Excused(log, ended, x) BY DEF Due
<1> HIDE DEF D
<1> USE DEF Line, Begins, Continues, Finishes, Stops, Working, UserPrompts, Typed, StopRecords
<1>5. k \in {"reply", "ask", "error", "feedback"} => \A x \in g.text : x \in D => x \in g.pending
  <2>1. k \in {"reply", "ask", "error", "feedback"} => Working OBVIOUS
  <2> QED BY <1>3, <1>4, <2>1 DEF Held
<1>6. k \in UserPrompts => g.pending \subseteq g.text
  <2>1. k \in UserPrompts => ~Working OBVIOUS
  <2> QED BY <1>3, <2>1 DEF Held
<1>7. k = "interrupt" /\ g.anchor # 0 => g.pending \subseteq g.text
  <2> SUFFICES ASSUME k = "interrupt", g.anchor # 0 PROVE FALSE OBVIOUS
  <2>1. claude \in {"working", "between", "asking"} /\ ~Resumed OBVIOUS
  <2>2. claude # "asking" BY <1>2, <1>3 DEF Held
  <2>3. /\ g.anchor > opener /\ log[g.anchor] \in {"reply", "error"}
        /\ \A j \in g.anchor .. Len(log) : log[j] \notin {"feedback", "ask"}
    BY <1>3, <2>1, <2>2 DEF Held
  <2>4. g.anchor \in opener + 1 .. Len(log) BY <1>2, <2>3 DEF LogInv, LogTyped
  <2> QED BY <2>1, <2>2, <2>3, <2>4 DEF Resumed
<1>8. Keeps(g, k, D) BY <1>2, <1>5, <1>6, <1>7 DEF Keeps
<1> QED BY <1>8 DEF g, D

\* The watermark only moves on.
LEMMA AnchorGrows ==
  ASSUME MarksInv, [Next]_vars
  PROVE  anchor \in Nat /\ anchor' \in Nat /\ anchor <= anchor'
<1>1. anchor \in Nat /\ mirrored \in Nat BY DEF MarksInv, Marks, LogInv, LogTyped
<1>2. anchor' \in Nat
  <2>1. Marks' /\ mirrored' \in Nat BY MarksInvKept DEF MarksInv, LogInv, LogTyped
  <2> QED BY <2>1 DEF Marks
<1>3. CASE WatchPost
  <2> DEFINE n == Len(Outgoing)
  <2>1. watch.st = "post" /\ anchor' = LastAnchor(Outgoing, anchor) BY <1>3 DEF WatchPost
  <2>2. /\ n \in Nat
        /\ \A j \in 1 .. n : Outgoing[j].anchor \in anchor + 1 .. watch.seen
        /\ LastAnchor(Outgoing, anchor) = IF n = 0 THEN anchor ELSE Outgoing[n].anchor
    BY <2>1, OutgoingIs DEF MarksInv
  <2> HIDE DEF n
  <2>3. n # 0 => n \in 1 .. n BY <2>2
  <2> QED BY <1>1, <2>1, <2>2, <2>3
<1>4. CASE Connect
  <2>1. anchor = 0 BY <1>4 DEF Connect, MarksInv, Marks
  <2> QED BY <1>1, <1>2, <2>1
<1>5. CASE WatchRead \/ WatchLook \/ Restart
  <2>1. anchor' = anchor BY <1>5 DEF WatchRead, WatchLook, Restart
  <2> QED BY <1>1, <2>1
<1>6. CASE ~WatchStep /\ ~Restart /\ ~Connect BY <1>1, <1>6, MarksOnly
<1> QED BY <1>1, <1>2, <1>3, <1>4, <1>5, <1>6 DEF WatchStep

\* Where a pass from the watermark holds nothing, one that begins later holds nothing.
LEMMA NothingHeld ==
  ASSUME LogInv, anchor \in Nat, NEW f \in Nat \ {0}, anchor < f, f <= Len(log) + 1, ~Undelivered
  PROVE  ~Pass(log, f)[Len(log)].group.saw /\ Pass(log, f)[Len(log)].group.prompts = {}
<1>1. Len(log) \in Nat BY DEF LogInv, LogTyped
<1> DEFINE g == Pass(log, anchor + 1)[Len(log)].group
           h == Pass(log, f)[Len(log)].group
<1>2. ~g.saw /\ g.prompts = {} BY DEF Undelivered
<1>3. Within(h, g) BY <1>1, PassWithin
<1> HIDE DEF g, h
<1>4. ~h.saw /\ h.prompts = {} BY <1>2, <1>3 DEF Within
<1> QED BY <1>4 DEF h

\* A line leaves the group as Claude's state is then.
LEMMA HeldLine ==
  ASSUME LogInv, log' \in Seq(Kinds), EndedIn, NEW k \in Kinds, Line(k), anchor \in Nat,
         NEW f \in Nat \ {0}, anchor < f, f <= Len(log) + 1,
         Held(Pass(log, f)[Len(log)].group, claude, opener, log, ended)
  PROVE  Held(ReadLine(Pass(log, f)[Len(log)], k, Len(log) + 1).group, claude', opener', log', ended')
<1> DEFINE i == Len(log) + 1
           p == Pass(log, f)[Len(log)]
           r == ReadLine(p, k, i)
           g == p.group
           h == r.group
<1>1. /\ log \in Seq(Kinds) /\ Len(log) \in Nat /\ opener \in 0 .. Len(log)
      /\ i \in Nat \ {0} /\ Grown(k) /\ log'[i] = k /\ Len(log') = i
      /\ \A j \in 1 .. Len(log) : log'[j] = log[j]
  BY DEF LogInv, LogTyped, Line, Grown
<1>2. /\ p \in Passes /\ (~g.saw => g.anchor = 0 /\ g.pending = {})
      /\ (g.anchor = 0 => g.text = {}) /\ (g.anchor # 0 => g.anchor \in f .. Len(log))
      /\ \A x \in g.text : x \in f .. Len(log)
  BY <1>1, GroupIs
<1>3. LineRead(p, k, i, r) BY <1>1, <1>2, LineReadIs
<1>4. /\ (~h.saw => h.anchor = 0 /\ h.pending = {}) /\ (h.anchor = 0 => h.text = {})
  <2>1. r = Pass(log', f)[i] BY <1>1, PassGrows
  <2>2. i \in 0 .. Len(log') /\ f <= i + 1 BY <1>1
  <2> QED BY <2>1, <2>2, GroupIs
<1>5. Begins(k) /\ k = "peer" => ~g.saw BY NothingHeld DEF Begins
<1>6. \A x \in g.text : Excused(log', ended', x) <=> Excused(log, ended, x)
  <2>1. \A x \in g.text : x \in 1 .. Len(log) BY <1>1, <1>2
  <2> QED BY <2>1, ExcusedStays
<1>7. Held(g, claude, opener, log, ended) OBVIOUS
<1>8. ended' = ended => ~\E e \in ended' : e[1] = i
  <2>1. \A e \in ended : e[1] \in 1 .. Len(log) BY DEF EndedIn
  <2> QED BY <1>1, <2>1
<1> DEFINE H == Held(h, claude', opener', log', ended')
<1> HIDE DEF r, p, i
<1> USE DEF Begins, Continues, Finishes, Working, StopRecords, Stops
<1>9. ASSUME ~h.saw, claude' \notin {"working", "between"} PROVE H
  BY <1>4, <1>9 DEF Held
<1>10. ASSUME k \in {"peer", "work"}, claude \in {"working", "between"}, g.anchor # 0
       PROVE  /\ g.anchor > opener /\ log'[g.anchor] \in {"reply", "error"}
              /\ \A j \in g.anchor .. Len(log') : log'[j] \notin {"feedback", "ask"}
  <2>1. /\ g.anchor > opener /\ log[g.anchor] \in {"reply", "error"}
        /\ \A j \in g.anchor .. Len(log) : log[j] \notin {"feedback", "ask"}
    BY <1>7, <1>10 DEF Held
  <2>2. g.anchor \in 1 .. Len(log) BY <1>1, <1>2, <1>10
  <2>3. \A j \in g.anchor .. i : j = i \/ (j \in g.anchor .. Len(log) /\ j \in 1 .. Len(log))
    BY <1>1, <2>2 DEF i
  <2>4. log'[i] \notin {"feedback", "ask"} BY <1>1, <1>10
  <2>5. \A j \in g.anchor .. i : log'[j] \notin {"feedback", "ask"}
    BY <1>1, <2>1, <2>3, <2>4
  <2> QED BY <1>1, <2>1, <2>2, <2>5
<1>11. claude \notin {"idle", "given"} =>
         \A x \in g.text : x \in g.pending \/ Excused(log', ended', x)
  BY <1>6, <1>7 DEF Held
<1>12. ASSUME Begins(k) PROVE H
  <2>1. ~h.saw
    <3>1. CASE k \in UserPrompts BY <1>3, <3>1 DEF LineRead
    <3>2. CASE k \notin UserPrompts
      <4>1. k = "peer" BY <1>12, <3>2 DEF UserPrompts, Typed
      <4> QED BY <1>3, <1>5, <1>12, <4>1 DEF LineRead, Tells, UserPrompts, Typed
    <3> QED BY <3>1, <3>2
  <2> QED BY <1>9, <1>12, <2>1
<1>13. ASSUME Finishes(k) PROVE H
  <2>1. CASE k \in {"ask", "interrupt"}
    <3>1. h = NoGroup BY <1>3, <2>1 DEF LineRead
    <3> QED BY <1>9, <1>13, <3>1 DEF NoGroup
  <2>2. CASE k = "error"
    <3>1. h.text = g.pending \cup {i} /\ h.pending = g.pending /\ claude' = "idle"
      BY <1>3, <1>13, <2>2 DEF LineRead
    <3> QED BY <3>1 DEF Held
  <2> QED BY <1>13, <2>1, <2>2
<1>14. ASSUME k \in StopRecords /\ Stops PROVE H
  <2>1. h = g BY <1>3, <1>14 DEF LineRead, Tells, UserPrompts, Typed
  <2>2. claude = "hooks" /\ claude' = "idle" BY <1>14
  <2> QED BY <1>7, <2>1, <2>2 DEF Held
<1>15. ASSUME Continues(k) PROVE H
  <2>0. opener' = opener /\ ended' = ended BY <1>15
  <2>1. CASE k = "local"
    <3>1. ~h.saw BY <1>3, <2>1 DEF LineRead, UserPrompts, Typed
    <3> QED BY <1>9, <1>15, <2>1, <3>1
  <2>2. CASE k = "peer"
    <3>1. h = g BY <1>3, <2>2 DEF LineRead, Tells, UserPrompts, Typed
    <3>2. claude = "working" /\ claude' = "working" BY <1>15, <2>2
    <3> QED BY <1>10, <1>11, <2>0, <2>2, <3>1, <3>2 DEF Held
  <2>3. CASE k = "work"
    <3>1. h.anchor = g.anchor /\ h.text = g.text /\ h.pending = g.pending \cup {i}
      BY <1>3, <2>3 DEF LineRead
    <3>2. claude \in {"asked", "working", "between"} /\ claude' = "working" BY <1>15, <2>3
    <3>3. CASE claude = "asked"
      <4>1. g.anchor = 0 /\ g.text = {} BY <1>2, <1>7, <3>3 DEF Held
      <4> QED BY <3>1, <3>2, <4>1 DEF Held
    <3>4. CASE claude # "asked"
      BY <1>10, <1>11, <2>0, <2>3, <3>1, <3>2, <3>4 DEF Held
    <3> QED BY <3>3, <3>4
  <2>4. CASE k = "result"
    <3>1. h = g /\ claude = "asking" /\ claude' = "working"
      BY <1>3, <1>15, <2>4 DEF LineRead, Tells, UserPrompts, Typed
    <3>2. g.anchor = 0 /\ g.text = {} BY <1>2, <1>7, <3>1 DEF Held
    <3> QED BY <3>1, <3>2 DEF Held
  <2>5. CASE k = "feedback"
    <3>1. h.anchor = 0 /\ h.text = {} BY <1>2, <1>3, <2>5 DEF LineRead
    <3>2. claude' = "working" BY <1>15, <2>5
    <3> QED BY <3>1, <3>2 DEF Held
  <2>6. CASE k = "reply"
    <3>1. h.anchor = i /\ h.text = h.pending BY <1>3, <2>6 DEF LineRead
    <3>2. claude' \in {"hooks", "between"} BY <1>15, <2>6
    <3>3. i > opener /\ \A j \in i .. Len(log') : log'[j] = "reply" BY <1>1, <2>6 DEF i
    <3> QED BY <1>1, <2>0, <2>6, <3>1, <3>2, <3>3 DEF Held
  <2>7. CASE k = "error"
    <3>1. h.anchor = i /\ h.text = g.pending \cup {i} /\ h.pending = g.pending
      BY <1>3, <2>7 DEF LineRead
    <3>2. claude' = "between" BY <1>15, <2>7
    <3>3. i > opener /\ \A j \in i .. Len(log') : log'[j] = "error" BY <1>1, <2>7 DEF i
    <3>4. Excused(log', ended', i) BY <1>1, <1>8, <2>0, <2>7 DEF Excused
    <3> QED BY <1>1, <2>0, <2>7, <3>1, <3>2, <3>3, <3>4 DEF Held
  <2> QED BY <1>15, <2>1, <2>2, <2>3, <2>4, <2>5, <2>6, <2>7
<1>16. H BY <1>12, <1>13, <1>14, <1>15 DEF Line
<1> QED BY <1>16 DEF h, r, p, i

LEMMA HasLess ==
  ASSUME NEW p, NEW D, NEW E, E \subseteq D, Has(p, D)
  PROVE  Has(p, E)
BY DEF Has

LEMMA DueGrows ==
  ASSUME LogInv, EndedIn, NEW k \in Kinds, Line(k), NEW f \in Nat \ {0}
  PROVE  /\ \A n \in 0 .. Len(log) : Due(log', ended', f, n) = Due(log, ended, f, n)
         /\ Due(log', ended', f, Len(log) + 1) \subseteq
              IF k \in Assistant THEN Due(log, ended, f, Len(log)) \cup {Len(log) + 1}
              ELSE Due(log, ended, f, Len(log))
<1>1. /\ Len(log) \in Nat /\ log'[Len(log) + 1] = k /\ \A x \in 1 .. Len(log) : log'[x] = log[x]
  BY DEF Line, Grown, LogInv, LogTyped
<1>2. \A x \in 1 .. Len(log) : Excused(log', ended', x) <=> Excused(log, ended, x)
  BY ExcusedStays
<1>3. ASSUME NEW n \in 0 .. Len(log)
      PROVE  Due(log', ended', f, n) = Due(log, ended, f, n)
  <2>1. \A x \in f .. n : x \in 1 .. Len(log) BY <1>1
  <2> QED BY <1>1, <1>2, <2>1 DEF Due
<1>4. ASSUME NEW x \in Due(log', ended', f, Len(log) + 1)
      PROVE  x \in Due(log, ended, f, Len(log)) \/ (x = Len(log) + 1 /\ k \in Assistant)
  <2>1. x \in f .. Len(log) + 1 /\ log'[x] \in Assistant /\ ~Excused(log', ended', x) BY DEF Due
  <2>2. CASE x = Len(log) + 1 BY <1>1, <2>1, <2>2
  <2>3. CASE x # Len(log) + 1
    <3>1. x \in f .. Len(log) /\ x \in 1 .. Len(log) BY <1>1, <2>1, <2>3
    <3>2. log[x] \in Assistant /\ ~Excused(log, ended, x) BY <1>1, <1>2, <2>1, <3>1
    <3> QED BY <3>1, <3>2 DEF Due
  <2> QED BY <2>2, <2>3
<1> QED BY <1>3, <1>4

LEMMA AllHeldLine ==
  ASSUME LogInv, log' \in Seq(Kinds), EndedIn, NEW k \in Kinds, Line(k), anchor \in Nat, AllHeld
  PROVE  AllHeld'
<1>1. Len(log) \in Nat /\ Len(log') = Len(log) + 1 /\ anchor' = anchor
      /\ log' \in Seq(Kinds)
  BY DEF Line, Grown, LogInv, LogTyped
<1> SUFFICES ASSUME NEW f \in anchor + 1 .. Len(log) + 2
             PROVE  Held(Pass(log', f)[Len(log) + 1].group, claude', opener', log', ended')
  BY <1>1 DEF AllHeld
<1>2. f \in Nat \ {0} /\ anchor < f BY <1>1
<1>3. CASE f = Len(log) + 2
  <2>1. Len(log) + 1 \in 0 .. f - 1 BY <1>1, <1>3
  <2>2. Pass(log', f)[Len(log) + 1] = NoPass BY <1>2, <2>1, PassIs
  <2> QED BY <2>2 DEF NoPass, NoGroup, Held
<1>4. CASE f # Len(log) + 2
  <2>1. f \in anchor + 1 .. Len(log) + 1 /\ f <= Len(log) + 1 BY <1>1, <1>4
  <2>2. Held(Pass(log, f)[Len(log)].group, claude, opener, log, ended) BY <2>1 DEF AllHeld
  <2>3. Held(ReadLine(Pass(log, f)[Len(log)], k, Len(log) + 1).group, claude', opener', log', ended')
    BY <1>1, <1>2, <2>1, <2>2, HeldLine
  <2>4. Grown(k) BY DEF Line
  <2> QED BY <1>2, <2>1, <2>3, <2>4, PassGrows
<1> QED BY <1>3, <1>4

LEMMA AllHasLine ==
  ASSUME LogInv, EndedIn, NEW k \in Kinds, Line(k), anchor \in Nat, AllHeld, AllHas
  PROVE  AllHas'
<1>1. Len(log) \in Nat /\ Len(log') = Len(log) + 1 /\ anchor' = anchor /\ Grown(k)
      /\ log \in Seq(Kinds)
  BY DEF Line, Grown, LogInv, LogTyped
<1> SUFFICES ASSUME NEW f \in anchor + 1 .. Len(log) + 2, NEW n \in f - 1 .. Len(log) + 1
             PROVE  Has(Pass(log', f)[n], Due(log', ended', f, n))
  BY <1>1 DEF AllHas
<1>2. f \in Nat \ {0} /\ anchor < f /\ n \in Nat BY <1>1
<1>3. CASE f = Len(log) + 2
  <2>1. Due(log', ended', f, n) = {} BY <1>1, <1>3 DEF Due
  <2> QED BY <2>1 DEF Has
<1>4. CASE f # Len(log) + 2 /\ n # Len(log) + 1
  <2>1. f \in anchor + 1 .. Len(log) + 1 /\ f <= Len(log) + 1 /\ n \in f - 1 .. Len(log)
        /\ n \in 0 .. Len(log)
    BY <1>1, <1>2, <1>4
  <2>2. Has(Pass(log, f)[n], Due(log, ended, f, n)) BY <2>1 DEF AllHas
  <2>3. Pass(log', f)[n] = Pass(log, f)[n] BY <1>1, <1>2, <2>1, PassGrows
  <2>4. Due(log', ended', f, n) = Due(log, ended, f, n) BY <1>2, <2>1, DueGrows
  <2> QED BY <2>2, <2>3, <2>4
<1>5. CASE f # Len(log) + 2 /\ n = Len(log) + 1
  <2> DEFINE p == Pass(log, f)[Len(log)]
             D == Due(log, ended, f, Len(log))
             E == IF k \in Assistant THEN D \cup {Len(log) + 1} ELSE D
  <2>1. f \in anchor + 1 .. Len(log) + 1 /\ f <= Len(log) + 1 /\ Len(log) \in f - 1 .. Len(log)
        /\ Len(log) \in 0 .. Len(log) /\ Len(log) + 1 \in Nat \ {0}
    BY <1>1, <1>2, <1>5
  <2>2. Has(p, D) BY <2>1 DEF AllHas
  <2>3. Held(p.group, claude, opener, log, ended) BY <2>1 DEF AllHeld
  <2>4. Keeps(p.group, k, D) BY <1>2, <2>1, <2>3, LineLoses
  <2>5. p \in Passes BY <1>1, <1>2, <2>1, GroupIs
  <2>6. Due(log', ended', f, n) \subseteq E BY <1>2, <1>5, DueGrows
  <2>7. Pass(log', f)[n] = ReadLine(p, k, Len(log) + 1) BY <1>1, <1>2, <1>5, <2>1, PassGrows
  <2> HIDE DEF p, D
  <2>8. Has(ReadLine(p, k, Len(log) + 1), E) BY <2>1, <2>2, <2>4, <2>5, LineKeeps
  <2> QED BY <2>6, <2>7, <2>8, HasLess
<1> QED BY <1>3, <1>4, <1>5

LEMMA AllHeldRests ==
  ASSUME LogInv, Rests \/ (log' = log /\ Stops), AllHeld, anchor \in Nat,
         NEW a \in Nat, anchor' = a, anchor <= a
  PROVE  AllHeld'
<1>1. log' = log /\ Len(log) \in Nat /\ opener' = opener /\ log \in Seq(Kinds)
  BY DEF Rests, Stops, LogInv, LogTyped
<1> SUFFICES ASSUME NEW f \in a + 1 .. Len(log) + 1
             PROVE  Held(Pass(log, f)[Len(log)].group, claude', opener', log', ended')
  BY <1>1 DEF AllHeld
<1>2. f \in anchor + 1 .. Len(log) + 1 /\ f \in Nat \ {0} /\ Len(log) \in 0 .. Len(log) BY <1>1
<1> DEFINE g == Pass(log, f)[Len(log)].group
<1>3. Held(g, claude, opener, log, ended) BY <1>2 DEF AllHeld
<1>4. (~g.saw => g.anchor = 0 /\ g.pending = {}) /\ (g.anchor = 0 => g.text = {})
  BY <1>1, <1>2, GroupIs
<1> HIDE DEF g
<1>5. Held(g, claude', opener', log', ended')
  <2>1. CASE claude' = claude /\ ended' = ended BY <1>1, <1>3, <2>1
  <2>2. CASE claude' \in {"idle", "given"} /\ claude \in {"asked", "hooks", "idle"}
    BY <1>3, <1>4, <2>2 DEF Held
  <2> QED BY <2>1, <2>2 DEF Rests, Stops
<1> QED BY <1>5 DEF g

LEMMA AllHasRests ==
  ASSUME LogInv, EndedIn, Rests \/ (log' = log /\ Stops), AllHas, anchor \in Nat,
         NEW a \in Nat, anchor' = a, anchor <= a
  PROVE  AllHas'
<1>1. log' = log /\ Len(log) \in Nat BY DEF Rests, LogInv, LogTyped
<1> SUFFICES ASSUME NEW f \in a + 1 .. Len(log) + 1, NEW n \in f - 1 .. Len(log)
             PROVE  Has(Pass(log, f)[n], Due(log, ended', f, n))
  BY <1>1 DEF AllHas
<1>2. f \in anchor + 1 .. Len(log) + 1 BY <1>1
<1>3. Has(Pass(log, f)[n], Due(log, ended, f, n)) BY <1>2 DEF AllHas
<1>4. \A x \in 1 .. Len(log) : Excused(log, ended', x) <=> Excused(log, ended, x)
  BY <1>1, ExcusedStays
<1>5. \A x \in f .. n : x \in 1 .. Len(log) BY <1>1, <1>2
<1>6. Due(log, ended', f, n) = Due(log, ended, f, n) BY <1>4, <1>5 DEF Due
<1> QED BY <1>3, <1>6

LEMMA WrittenInvKept ==
  ASSUME Faults \cap {"undelivered", "lateesc"} = {}, WrittenInv, [Next]_vars
  PROVE  WrittenInv'
<1>1. LogInv /\ MarksInv /\ EndedIn /\ AllHas /\ AllHeld BY DEF WrittenInv, MarksInv
<1>2. MarksInv' BY <1>1, MarksInvKept
<1>3. log' \in Seq(Kinds) BY <1>2 DEF MarksInv, LogInv, LogTyped
<1>4. anchor \in Nat /\ anchor' \in Nat /\ anchor <= anchor' BY <1>1, AnchorGrows
<1>5. Rests \/ (log' = log /\ Stops) \/ \E k \in Kinds : Line(k) BY <1>1, StepIs
<1>6. EndedIn' BY <1>1, <1>5, EndedInKept
<1>7. CASE Rests \/ (log' = log /\ Stops)
  <2>1. AllHeld' BY <1>1, <1>4, <1>7, AllHeldRests
  <2>2. AllHas' BY <1>1, <1>4, <1>7, AllHasRests
  <2> QED BY <1>2, <1>6, <2>1, <2>2 DEF WrittenInv
<1>8. CASE \E k \in Kinds : Line(k)
  <2>1. PICK k \in Kinds : Line(k) BY <1>8
  <2>2. AllHeld' BY <1>1, <1>3, <1>4, <2>1, AllHeldLine
  <2>3. AllHas' BY <1>1, <1>4, <2>1, AllHasLine
  <2> QED BY <1>2, <1>6, <2>2, <2>3 DEF WrittenInv
<1> QED BY <1>5, <1>7, <1>8

\* Behind prompts and replies alone, what is pending is the group's text.
LEMMA CalmPass ==
  ASSUME NEW s \in Seq(Kinds), \A i \in 1 .. Len(s) : s[i] \in {"prompt", "local", "reply", "duration"},
         NEW ends, NEW f \in Nat \ {0}, NEW n \in f - 1 .. Len(s)
  PROVE  /\ Has(Pass(s, f)[n], Due(s, ends, f, n))
         /\ Pass(s, f)[n].group.pending = Pass(s, f)[n].group.text
<1> DEFINE p(k) == Pass(s, f)[k]
           g(k) == p(k).group
           T == {k \in Nat : f - 1 <= k /\ k <= Len(s) =>
                   Has(p(k), Due(s, ends, f, k)) /\ g(k).pending = g(k).text}
<1>1. \A k \in 0 .. f - 1 : p(k) = NoPass BY PassIs
<1>2. ASSUME NEW k \in 0 .. f - 1 PROVE k \in T
  <2>1. g(k).pending = {} /\ g(k).text = {} BY <1>1 DEF NoPass, NoGroup
  <2>2. Due(s, ends, f, k) = {} BY DEF Due
  <2>3. Has(p(k), Due(s, ends, f, k)) BY <2>2 DEF Has
  <2>4. k \in Nat /\ g(k).pending = g(k).text BY <2>1
  <2> HIDE DEF p, g
  <2> QED BY <2>3, <2>4
<1>3. 0 \in T BY <1>2
<1>4. ASSUME NEW k \in Nat, k \in T PROVE k + 1 \in T
  <2>1. CASE k + 1 <= f - 1 BY <1>2, <2>1
  <2>2. CASE f <= k + 1 /\ k + 1 <= Len(s)
    <3> DEFINE i == k + 1
               D == Due(s, ends, f, k)
    <3>1. Has(p(k), D) /\ g(k).pending = g(k).text BY <1>4, <2>2
    <3>2. p(i) = ReadLine(p(k), s[i], i) BY <2>2, PassIs
    <3>3. i \in Nat \ {0} /\ s[i] \in {"prompt", "local", "reply", "duration"} BY <2>2
    <3>4. k \in 0 .. Len(s) /\ f <= k + 1 BY <2>2
    <3>5. p(k) \in Passes /\ (~g(k).saw => g(k).anchor = 0 /\ g(k).pending = {})
          /\ (g(k).anchor = 0 => g(k).text = {})
      BY <3>4, GroupIs
    <3> HIDE DEF p
    <3>6. Keeps(g(k), s[i], D) BY <3>1, <3>5 DEF Keeps
    <3>7. LineRead(p(k), s[i], i, p(i)) BY <3>2, <3>3, <3>5, LineReadIs
    <3>8. g(i).pending = g(i).text
      <4>1. CASE s[i] \in {"prompt", "local"}
        BY <3>1, <3>7, <4>1 DEF LineRead, UserPrompts, Typed
      <4>2. CASE s[i] = "reply" BY <3>7, <4>2 DEF LineRead
      <4>3. CASE s[i] = "duration"
        BY <3>1, <3>7, <4>3 DEF LineRead, Tells, UserPrompts, Typed
      <4> QED BY <3>3, <4>1, <4>2, <4>3
    <3>9. Has(p(i), IF s[i] \in Assistant THEN D \cup {i} ELSE D)
      <4> HIDE DEF i, D
      <4>1. Has(ReadLine(p(k), s[i], i), IF s[i] \in Assistant THEN D \cup {i} ELSE D)
        BY <3>1, <3>3, <3>5, <3>6, LineKeeps
      <4> QED BY <3>2, <4>1
    <3>10. Due(s, ends, f, i) \subseteq IF s[i] \in Assistant THEN D \cup {i} ELSE D
      <4>1. ASSUME NEW x \in Due(s, ends, f, i) PROVE x \in D \/ (x = i /\ s[i] \in Assistant)
        <5>1. x \in f .. i /\ s[x] \in Assistant /\ ~Excused(s, ends, x) BY DEF Due
        <5>2. x # i => x \in f .. k BY <5>1
        <5> QED BY <5>1, <5>2 DEF Due
      <4> QED BY <4>1
    <3>11. Has(p(i), Due(s, ends, f, i)) BY <3>9, <3>10, HasLess
    <3> QED BY <3>8, <3>11
  <2>3. CASE k + 1 > Len(s) BY <2>3
  <2> QED BY <2>1, <2>2, <2>3
<1> HIDE DEF T
<1>5. Nat \subseteq T BY <1>3, <1>4, Induct
<1>6. n \in T /\ f - 1 <= n /\ n <= Len(s) BY <1>5
<1> QED BY <1>6 DEF T

LEMMA WrittenInvInit == Init => WrittenInv
<1> SUFFICES ASSUME Init PROVE WrittenInv OBVIOUS
<1>1. MarksInv BY MarksInvInit
<1>2. log = <<>> \/ log = <<"prompt", "reply", "duration">> \/ log = <<"local", "prompt", "reply">>
  BY DEF Init, Exchange
<1>3. claude = "idle" /\ anchor = 0 /\ went = {} /\ log \in Seq(Kinds) /\ Len(log) \in Nat
      /\ opener \in 0 .. Len(log)
  BY <1>1 DEF Init, MarksInv, LogInv, LogTyped
<1>4. \A i \in 1 .. Len(log) : log[i] \in {"prompt", "local", "reply", "duration"}
  <2>1. CASE log = <<>> BY <2>1
  <2>2. CASE log = <<"prompt", "reply", "duration">>
    <3>1. Len(log) = 3 /\ log[1] = "prompt" /\ log[2] = "reply" /\ log[3] = "duration" BY <2>2
    <3> HIDE <2>2
    <3>2. \A i \in 1 .. 3 : i = 1 \/ i = 2 \/ i = 3 OBVIOUS
    <3> QED BY <3>1, <3>2
  <2>3. CASE log = <<"local", "prompt", "reply">>
    <3>1. Len(log) = 3 /\ log[1] = "local" /\ log[2] = "prompt" /\ log[3] = "reply" BY <2>3
    <3> HIDE <2>3
    <3>2. \A i \in 1 .. 3 : i = 1 \/ i = 2 \/ i = 3 OBVIOUS
    <3> QED BY <3>1, <3>2
  <2> QED BY <1>2, <2>1, <2>2, <2>3
<1>5. EndedIn
  <2>1. LastExists BY <1>1 DEF MarksInv, LogInv
  <2>2. SubSeq(log, 1, Len(log)) = log BY <1>3
  <2> DEFINE l == LastOf(SubSeq(log, 1, Len(log)), {"reply"})
             m == LastOf(SubSeq(log, 1, Len(log)), {"prompt"})
  <2>3. /\ l \in 0 .. Len(log) /\ m \in 0 .. Len(log)
        /\ \A i \in m + 1 .. Len(log) : log[i] \notin {"prompt"}
        /\ l # 0 => log[l] \in {"reply"}
    BY <1>3, <2>1, LastOfIs
  <2>4. l = LastOf(log, {"reply"}) /\ m = LastOf(log, {"prompt"}) BY <2>2
  <2>5. ended = {<<i, m>> : i \in {l} \ {0}} BY <2>4 DEF Init
  <2> HIDE DEF l, m
  <2>6. l # 0 => m # 0
    <3>1. CASE log = <<>>
      <4>1. Len(log) = 0 BY <3>1
      <4> QED BY <2>3, <4>1
    <3>2. CASE log # <<>>
      <4>1. \E i \in 1 .. Len(log) : log[i] = "prompt"
        <5>1. CASE log = <<"prompt", "reply", "duration">>
          <6>1. Len(log) = 3 /\ log[1] = "prompt" BY <5>1
          <6>2. 1 \in 1 .. Len(log) BY <6>1
          <6> QED BY <6>1, <6>2
        <5>2. CASE log = <<"local", "prompt", "reply">>
          <6>1. Len(log) = 3 /\ log[2] = "prompt" BY <5>2
          <6>2. 2 \in 1 .. Len(log) BY <6>1
          <6> QED BY <6>1, <6>2
        <5> QED BY <1>2, <3>2, <5>1, <5>2
      <4> QED BY <2>3, <4>1
    <3> QED BY <3>1, <3>2
  <2>7. \A i \in {l} \ {0} : <<i, m>> \in (1 .. Len(log)) \X (1 .. Len(log))
    BY <1>3, <2>3, <2>6
  <2>8. ended \subseteq (1 .. Len(log)) \X (1 .. Len(log)) BY <2>5, <2>7
  <2> QED BY <1>3, <2>8 DEF EndedIn
<1>6. AllHas
  <2> SUFFICES ASSUME NEW f \in 1 .. Len(log) + 1, NEW n \in f - 1 .. Len(log)
               PROVE  Has(Pass(log, f)[n], Due(log, ended, f, n))
    BY <1>3 DEF AllHas
  <2>1. f \in Nat \ {0} BY <1>3
  <2> QED BY <1>3, <1>4, <2>1, CalmPass
<1>7. AllHeld
  <2> SUFFICES ASSUME NEW f \in 1 .. Len(log) + 1
               PROVE  Held(Pass(log, f)[Len(log)].group, claude, opener, log, ended)
    BY <1>3 DEF AllHeld
  <2>1. f \in Nat \ {0} /\ Len(log) \in f - 1 .. Len(log) BY <1>3
  <2>2. Pass(log, f)[Len(log)].group.pending = Pass(log, f)[Len(log)].group.text
    BY <1>3, <1>4, <2>1, CalmPass
  <2> QED BY <1>3, <2>2 DEF Held
<1> QED BY <1>1, <1>5, <1>6, <1>7 DEF WrittenInv

-----------------------------------------------------------------------------
(* Nothing Claude wrote is passed over.                                    *)

\* Behind a prompt that nothing answered nothing is pending.
LEMMA QuietTail ==
  ASSUME NEW s, NEW f \in Nat \ {0}, NEW c \in Nat, f <= c, s[c] = "prompt", NEW n \in Nat, c <= n,
         \A i \in c + 1 .. n : s[i] \in Skipped
  PROVE  ~Pass(s, f)[n].group.saw
<1> DEFINE T == {k \in Nat : c <= k /\ k <= n => ~Pass(s, f)[k].group.saw}
<1>0. \A k \in Nat : Pass(s, f)[k] \in Passes BY PassIs
<1>1. \A k \in Nat : k < c => k \in T BY DEF T
<1>2. ASSUME NEW k \in Nat, k \in T PROVE k + 1 \in T
  <2>1. CASE k + 1 < c BY <1>1, <2>1
  <2>2. CASE c <= k + 1 /\ k + 1 <= n
    <3> DEFINE p == Pass(s, f)[k]
               r == Pass(s, f)[k + 1]
    <3>1. r = ReadLine(p, s[k + 1], k + 1) /\ p \in Passes BY <1>0, <2>2, PassIs
    <3>2. k + 1 \in Nat \ {0} OBVIOUS
    <3>3. LineRead(p, s[k + 1], k + 1, r) BY <3>1, <3>2, LineReadIs
    <3> HIDE DEF p, r
    <3>4. CASE k + 1 = c BY <3>3, <3>4 DEF LineRead, UserPrompts, Typed, r
    <3>5. CASE k + 1 # c
      <4>1. k + 1 \in c + 1 .. n /\ c <= k /\ k <= n BY <2>2, <3>5
      <4>2. ~p.group.saw BY <1>2, <4>1 DEF p
      <4>3. s[k + 1] \in Skipped BY <4>1
      <4>4. CASE s[k + 1] = "feedback" BY <3>3, <4>2, <4>4 DEF LineRead, r
      <4>5. CASE s[k + 1] # "feedback"
        <5>1. s[k + 1] \notin Tells
          BY <4>3, <4>5 DEF Skipped, Meta, StopRecords, Tells, UserPrompts, Typed
        <5> QED BY <3>3, <4>2, <5>1 DEF LineRead, r
      <4> QED BY <4>4, <4>5
    <3> QED BY <3>4, <3>5
  <2>3. CASE k + 1 > n BY <2>3
  <2> QED BY <2>1, <2>2, <2>3
<1>3. 0 \in T
  <2>1. 0 < c OBVIOUS
  <2> QED BY <1>1, <2>1
<1> HIDE DEF T
<1>4. Nat \subseteq T BY <1>2, <1>3, Induct
<1>5. n \in T BY <1>4
<1> QED BY <1>5 DEF T

NonePassedOver ==
  \A i \in base + 1 .. anchor : log[i] \in Assistant =>
    (\E t \in got : i \in t.text) \/ Excused(log, ended, i)

\* What is behind the new watermark goes out with the turns that are posted.
LEMMA PostTakes ==
  ASSUME WrittenInv, watch.st = "post", NEW i \in anchor + 1 .. LastAnchor(Outgoing, anchor),
         log[i] \in Assistant, ~Excused(log, ended, i)
  PROVE  \E j \in DOMAIN Outgoing : i \in Outgoing[j].text
<1> DEFINE n == Len(Outgoing)
           f == anchor + 1
           p == Pass(log, f)[watch.seen]
           turns == Flush(p).turns
<1>1. LogInv /\ WatchTyped /\ CutTrue /\ Marks /\ AllHas BY DEF WrittenInv, MarksInv
<1>2. /\ log \in Seq(Kinds) /\ Len(log) \in Nat /\ LastExists /\ watch.seen \in 0 .. Len(log)
      /\ anchor \in Nat /\ anchor <= watch.seen /\ watch.cut \in Nat
  BY <1>1 DEF LogInv, LogTyped, WatchTyped, Marks, WatchKinds
<1>3. /\ n \in Nat /\ DOMAIN Outgoing = 1 .. n
      /\ \A j \in 1 .. n : Outgoing[j].anchor \in anchor + 1 .. watch.seen
      /\ LastAnchor(Outgoing, anchor) = IF n = 0 THEN anchor ELSE Outgoing[n].anchor
      /\ \A j \in 1 .. n : j <= Len(NewTurns) => Outgoing[j] = NewTurns[j]
      /\ watch.cut = 0 => Outgoing = NewTurns
      /\ watch.cut # 0 => n = Len(NewTurns) + 1
  BY <1>1, OutgoingIs
<1>4. f \in Nat \ {0} /\ f \in anchor + 1 .. Len(log) + 1 /\ watch.seen \in f - 1 .. Len(log)
      /\ watch.seen \in Nat /\ watch.seen >= f - 1 /\ f <= watch.seen + 1
  BY <1>2
<1>5. NewTurns = turns BY <1>2, <1>4, CompletedIs DEF NewTurns, Read
<1>6. p \in Passes /\ Sound(p, f, watch.seen, log) BY <1>4, PassSound
<1>7. p.group.anchor = 0 => p.group.text = {} BY <1>2, <1>4, GroupIs
<1>8. ~p.group.saw => p.group.pending = {} BY <1>2, <1>4, GroupIs
<1>9. Has(p, Due(log, ended, f, watch.seen)) BY <1>1, <1>4 DEF AllHas
<1> HIDE DEF p, f, n
<1>10. n # 0 /\ i <= Outgoing[n].anchor /\ i \in anchor + 1 .. watch.seen
  <2>1. n # 0 BY <1>2, <1>3
  <2>2. n \in 1 .. n BY <1>3, <2>1
  <2>3. Outgoing[n].anchor \in anchor + 1 .. watch.seen BY <1>3, <2>2
  <2> QED BY <1>2, <1>3, <2>1, <2>3
<1>11. i \in Due(log, ended, f, watch.seen) BY <1>10 DEF Due, f
<1>12. i \in p.group.pending \/ i \in p.group.text \/ InTurn(p.turns, i) BY <1>9, <1>11 DEF Has
<1>13. i \in p.group.pending => i \in p.group.text
  <2> SUFFICES ASSUME i \in p.group.pending PROVE i \in p.group.text OBVIOUS
  <2>1. CASE watch.cut # 0
    <3>1. /\ Unanswered(Read) = watch.cut /\ watch.cut > anchor /\ Open(watch.cut, watch.seen)
          /\ watch.cut \in 0 .. watch.seen
      <4>1. watch.cut = CutOffAfter(Read) BY <1>1, <2>1 DEF CutTrue
      <4> QED BY <1>2, <2>1, <4>1, CutOffIn
    <3>2. f <= watch.cut /\ watch.cut \in Nat /\ watch.cut <= watch.seen
      BY <1>2, <3>1 DEF f
    <3>3. ~Pass(log, f)[watch.seen].group.saw
      BY <1>4, <3>1, <3>2, QuietTail DEF Open
    <3> QED BY <1>8, <3>3 DEF p
  <2>2. CASE watch.cut = 0
    <3>1. Outgoing = turns /\ n = Len(turns) BY <1>3, <1>5, <2>2 DEF n
    <3>2. i <= turns[n].anchor BY <1>10, <3>1
    <3> QED BY <1>4, <1>6, <1>10, <3>1, <3>2, FlushCovers
  <2> QED BY <2>1, <2>2
<1>14. InTurn(turns, i)
  <2>1. Closes(p, Flush(p)) BY <1>6, FlushTells
  <2> QED BY <1>7, <1>12, <1>13, <2>1, ClosesHas
<1>15. PICK j \in DOMAIN turns : i \in turns[j].text BY <1>14 DEF InTurn
<1>16. turns \in Seq(Turns)
  <2>1. Flush(p) \in Passes BY <1>6, FlushIs
  <2> QED BY <2>1 DEF Passes
<1> HIDE DEF turns
<1>17. j \in 1 .. Len(turns) /\ Len(turns) \in Nat BY <1>15, <1>16
<1>18. j \in 1 .. n /\ Outgoing[j] = turns[j]
  <2>1. n = Len(turns) \/ n = Len(turns) + 1 BY <1>3, <1>5 DEF n
  <2>2. j \in 1 .. n /\ j <= Len(turns) BY <1>17, <2>1
  <2> QED BY <1>3, <1>5, <2>2
<1> QED BY <1>3, <1>15, <1>18

LEMMA NonePassedOverKept ==
  ASSUME Faults \cap {"undelivered", "lateesc"} = {}, WrittenInv, NonePassedOver, [Next]_vars
  PROVE  NonePassedOver'
<1>1. LogInv /\ MarksInv /\ EndedIn /\ WatchTyped /\ CutTrue /\ Marks BY DEF WrittenInv, MarksInv
<1>2. /\ Len(log) \in Nat /\ mirrored \in 0 .. Len(log) /\ anchor \in 0 .. mirrored
      /\ base \in 0 .. anchor
  BY <1>1 DEF LogInv, LogTyped, Marks
<1>3. Rests \/ (log' = log /\ Stops) \/ \E k \in Kinds : Line(k) BY <1>1, StepIs
<1>4. ASSUME NEW i \in 1 .. Len(log)
      PROVE  log'[i] = log[i] /\ (Excused(log', ended', i) <=> Excused(log, ended, i))
  <2>1. Excused(log', ended', i) <=> Excused(log, ended, i) BY <1>1, <1>3, ExcusedStays
  <2>2. log'[i] = log[i] BY <1>3 DEF Rests, Line, Grown
  <2> QED BY <2>1, <2>2
<1>5. CASE UNCHANGED <<anchor, base, got>>
  <2>1. \A i \in base + 1 .. anchor : i \in 1 .. Len(log) BY <1>2
  <2> QED BY <1>4, <1>5, <2>1 DEF NonePassedOver
<1>6. CASE WatchPost
  <2> DEFINE a == LastAnchor(Outgoing, anchor)
  <2>1. /\ anchor' = a /\ base' = base /\ watch.st = "post"
        /\ got' = got \cup {Outgoing[j] : j \in DOMAIN Outgoing}
    BY <1>6 DEF WatchPost
  <2>2. anchor' \in Nat /\ mirrored' = mirrored /\ log' = log /\ ended' = ended BY <1>1, <1>6, AnchorGrows DEF WatchPost
  <2>3. a \in Nat BY <2>1, <2>2
  <2> HIDE DEF a
  <2> SUFFICES ASSUME NEW i \in base + 1 .. a, log[i] \in Assistant,
                      ~Excused(log, ended, i)
               PROVE  \E t \in got' : i \in t.text
    BY <2>1, <2>2 DEF NonePassedOver
  <2>4. CASE i <= anchor
    <3>1. i \in base + 1 .. anchor BY <1>2, <2>3, <2>4
    <3>2. \E t \in got : i \in t.text BY <3>1 DEF NonePassedOver
    <3> QED BY <2>1, <3>2
  <2>5. CASE ~(i <= anchor)
    <3>1. i \in anchor + 1 .. LastAnchor(Outgoing, anchor) BY <1>2, <2>3, <2>5 DEF a
    <3>2. \E j \in DOMAIN Outgoing : i \in Outgoing[j].text BY <2>1, <3>1, PostTakes
    <3> QED BY <2>1, <3>2
  <2> QED BY <2>4, <2>5
<1>7. CASE Connect
  <2>1. base' = anchor' /\ anchor' \in Nat BY <1>1, <1>7, AnchorGrows DEF Connect
  <2>2. PICK a \in Nat : anchor' = a BY <2>1
  <2>3. a + 1 .. a = {} OBVIOUS
  <2> QED BY <2>1, <2>2, <2>3 DEF NonePassedOver
<1>8. CASE WatchRead \/ WatchLook \/ Restart
  <2>1. UNCHANGED <<anchor, base, got>> BY <1>8 DEF WatchRead, WatchLook, Restart
  <2> QED BY <1>5, <2>1
<1>9. CASE ~WatchStep /\ ~Restart /\ ~Connect
  <2>1. UNCHANGED <<anchor, base, got>> BY <1>9, MarksOnly
  <2> QED BY <1>5, <2>1
<1> QED BY <1>6, <1>7, <1>8, <1>9 DEF WatchStep

(***************************************************************************)
(* Nothing Claude wrote is passed over: what lies behind the watermark     *)
(* went out with some turn, an error that was retried excepted, unless a   *)
(* session's message opened a turn before the turn before it was           *)
(* delivered, or Esc came after a segment.                                 *)
(***************************************************************************)
THEOREM NothingPassedOver ==
  ASSUME Faults \cap {"undelivered", "lateesc"} = {}
  PROVE  Spec => []TextNeverSkipped
<1> DEFINE I == WrittenInv /\ NonePassedOver
<1>1. Init => I
  <2>1. Init => NonePassedOver
    <3> SUFFICES ASSUME Init PROVE NonePassedOver OBVIOUS
    <3>1. base = 0 /\ anchor = 0 BY DEF Init
    <3>2. 0 + 1 .. 0 = {} OBVIOUS
    <3> QED BY <3>1, <3>2 DEF NonePassedOver
  <2> QED BY <2>1, WrittenInvInit
<1>2. I /\ [Next]_vars => I' BY WrittenInvKept, NonePassedOverKept
<1>3. I => TextNeverSkipped
  <2> SUFFICES ASSUME I PROVE TextNeverSkipped OBVIOUS
  <2>1. \A i : Excused(log, ended, i) => log[i] = "error" /\ \A o : <<i, o>> \notin ended
    BY DEF Excused
  <2> QED BY <2>1 DEF NonePassedOver, TextNeverSkipped
<1> QED BY <1>1, <1>2, <1>3, PTL DEF Spec

-----------------------------------------------------------------------------
(* What is delivered had ended, and names its prompts.                     *)

\* One of the ends is line a, and of a turn that the last of the prompts opened.
EndsAt(ends, a, prompts) ==
  \E e \in ends : e[1] = a /\ (prompts # {} => e[2] \in prompts /\ \A x \in prompts : x <= e[2])

TurnsOver(turns, ends) == \A j \in DOMAIN turns : EndsAt(ends, turns[j].anchor, turns[j].prompts)
GroupOver(g, ends) == g.anchor # 0 => EndsAt(ends, g.anchor, g.prompts)

\* The ends the settle window is to tell from a pause.
Overs == ended \cup IF "late" \in Faults THEN went ELSE {}

\* What the group of a pass is, by what Claude does.
Leaves(g, c, o, n, ends, goes) ==
  /\ c \in {"idle", "given"} => GroupOver(g, ends)
  /\ c \notin {"idle", "given"} /\ g.prompts # {} =>
       o \in g.prompts /\ \A x \in g.prompts : x <= o
  /\ c = "hooks" => g.anchor \in {0, n}
  /\ c \in {"working", "between"} /\ g.anchor # 0 => <<g.anchor, o>> \in goes

LEMMA EndsAtMore ==
  ASSUME NEW ends, NEW more, ends \subseteq more, NEW a, NEW prompts, EndsAt(ends, a, prompts)
  PROVE  EndsAt(more, a, prompts)
BY DEF EndsAt

LEMMA OverMore ==
  ASSUME NEW ends, NEW more, ends \subseteq more, NEW turns, NEW g
  PROVE  /\ TurnsOver(turns, ends) => TurnsOver(turns, more)
         /\ GroupOver(g, ends) => GroupOver(g, more)
BY EndsAtMore DEF TurnsOver, GroupOver

LEMMA EndsAtOpener ==
  ASSUME NEW ends, NEW a, NEW o, <<a, o>> \in ends, NEW prompts,
         prompts # {} => o \in prompts /\ \A x \in prompts : x <= o
  PROVE  EndsAt(ends, a, prompts)
<1>1. <<a, o>>[1] = a /\ <<a, o>>[2] = o OBVIOUS
<1> QED BY <1>1 DEF EndsAt

LEMMA AddsOver ==
  ASSUME NEW p, NEW r, NEW a, NEW text, NEW prompts, Adds(p, r, a, text, prompts), NEW ends,
         TurnsOver(p.turns, ends), EndsAt(ends, a, prompts)
  PROVE  TurnsOver(r.turns, ends)
<1> DEFINE n == Len(p.turns)
<1>1. /\ n \in Nat /\ DOMAIN p.turns = 1 .. n /\ DOMAIN r.turns = 1 .. n + 1
      /\ \A j \in 1 .. n : r.turns[j] = p.turns[j]
      /\ r.turns[n + 1].anchor = a /\ r.turns[n + 1].prompts = prompts
  BY DEF Adds
<1> HIDE DEF n
<1>2. \A j \in 1 .. n : EndsAt(ends, r.turns[j].anchor, r.turns[j].prompts)
  BY <1>1 DEF TurnsOver
<1>3. EndsAt(ends, r.turns[n + 1].anchor, r.turns[n + 1].prompts) BY <1>1
<1>4. \A j \in 1 .. n + 1 : j \in 1 .. n \/ j = n + 1 BY <1>1
<1> QED BY <1>1, <1>2, <1>3, <1>4 DEF TurnsOver

LEMMA ClosesOver ==
  ASSUME NEW p, NEW r, Closes(p, r), NEW ends, TurnsOver(p.turns, ends), GroupOver(p.group, ends)
  PROVE  TurnsOver(r.turns, ends)
BY AddsOver DEF Closes, GroupOver

\* The ends stay, and what a line ends is one of them.
LEMMA OversGrow ==
  ASSUME Rests \/ Stops \/ \E k \in Kinds : Line(k)
  PROVE  /\ Overs \subseteq Overs' /\ went \subseteq went'
         /\ Stops => <<Len(log), opener>> \in Overs'
         /\ \A k \in Kinds : Finishes(k) => <<Len(log) + 1, opener>> \in Overs'
<1>1. ended \subseteq ended' /\ went \subseteq went'
  BY DEF Rests, Stops, Line, Begins, Continues, Finishes
<1>2. Overs \subseteq Overs' BY <1>1 DEF Overs
<1>3. Stops => <<Len(log), opener>> \in ended' BY DEF Stops
<1>4. \A k \in Kinds : Finishes(k) => <<Len(log) + 1, opener>> \in ended' BY DEF Finishes
<1> QED BY <1>1, <1>2, <1>3, <1>4 DEF Overs

\* A line leaves the group as Claude's state is then, and a turn it completes has ended.
LEMMA LeavesLine ==
  ASSUME LogInv, log' \in Seq(Kinds), NEW k \in Kinds, Line(k), anchor \in Nat,
         NEW f \in Nat \ {0}, anchor < f, f <= Len(log) + 1,
         Held(Pass(log, f)[Len(log)].group, claude, opener, log, ended),
         Leaves(Pass(log, f)[Len(log)].group, claude, opener, Len(log), Overs, went),
         TurnsOver(Pass(log, f)[Len(log)].turns, Overs)
  PROVE  LET r == ReadLine(Pass(log, f)[Len(log)], k, Len(log) + 1) IN
         /\ Leaves(r.group, claude', opener', Len(log'), Overs', went')
         /\ TurnsOver(r.turns, Overs')
<1> DEFINE i == Len(log) + 1
           p == Pass(log, f)[Len(log)]
           r == ReadLine(p, k, i)
           g == p.group
           h == r.group
           E == Overs'
<1>1. /\ log \in Seq(Kinds) /\ Len(log) \in Nat /\ opener \in 0 .. Len(log)
      /\ i \in Nat \ {0} /\ Len(log') = i
  BY DEF LogInv, LogTyped, Line, Grown
<1>2. /\ p \in Passes /\ (~g.saw => g.anchor = 0)
      /\ (g.anchor # 0 => g.anchor \in f .. Len(log))
      /\ \A x \in g.prompts : x < i
  <2>1. p \in Passes /\ (~g.saw => g.anchor = 0) /\ (g.anchor # 0 => g.anchor \in f .. Len(log))
    BY <1>1, GroupIs
  <2>2. GroupSound(p.turns, g, f, Len(log), log) /\ g.prompts \subseteq Nat
    BY <1>1, PassSound DEF Sound, Passes, Groups
  <2> QED BY <1>1, <2>1, <2>2 DEF GroupSound
<1>3. LineRead(p, k, i, r) BY <1>1, <1>2, LineReadIs
<1>4. Begins(k) /\ k = "peer" => ~g.saw /\ g.prompts = {} BY NothingHeld DEF Begins
<1>5. Held(g, claude, opener, log, ended) /\ Leaves(g, claude, opener, Len(log), Overs, went)
      /\ TurnsOver(p.turns, Overs)
  OBVIOUS
<1>6. /\ Overs \subseteq E /\ went \subseteq went'
      /\ Stops => <<Len(log), opener>> \in E
      /\ Finishes(k) => <<i, opener>> \in E
  BY OversGrow
<1>7. TurnsOver(p.turns, E) /\ (GroupOver(g, Overs) => GroupOver(g, E)) BY <1>5, <1>6, OverMore
<1>8. Working => (g.prompts # {} => opener \in g.prompts /\ \A x \in g.prompts : x <= opener)
  BY <1>5 DEF Leaves, Working
<1>9. ~Working => GroupOver(g, E) BY <1>5, <1>7 DEF Leaves, Working
<1>10. k = "interrupt" /\ Finishes(k) => g.anchor = 0
  <2> SUFFICES ASSUME k = "interrupt", Finishes(k), g.anchor # 0 PROVE FALSE OBVIOUS
  <2>1. claude \in {"working", "between", "asking"} /\ ~Resumed BY DEF Finishes
  <2>2. claude # "asking" BY <1>2, <1>5 DEF Held
  <2>3. /\ g.anchor > opener /\ log[g.anchor] \in {"reply", "error"}
        /\ \A j \in g.anchor .. Len(log) : log[j] \notin {"feedback", "ask"}
    BY <1>5, <2>1, <2>2 DEF Held
  <2>4. g.anchor \in opener + 1 .. Len(log) BY <1>1, <1>2, <2>3
  <2> QED BY <2>1, <2>2, <2>3, <2>4 DEF Resumed
<1>11. Finishes(k) => EndsAt(E, i, g.prompts)
  <2>1. Finishes(k) => Working BY DEF Finishes, Working
  <2> QED BY <1>6, <1>8, <2>1, EndsAtOpener
<1> DEFINE H == Leaves(h, claude', opener', Len(log'), E, went')
           T == TurnsOver(r.turns, E)
<1> HIDE DEF r, p, i, E
<1>12. ASSUME h.anchor = 0, claude' \in {"idle", "given"} PROVE H
  BY <1>12 DEF Leaves, GroupOver
<1>13. ASSUME Begins(k) PROVE H /\ T
  <2>1. ~Working /\ claude' = "asked" /\ opener' = i BY <1>13 DEF Begins, i
  <2>2. CASE k \in UserPrompts
    <3>1. h.prompts # {} => i \in h.prompts /\ \A x \in h.prompts : x <= i
      <4>1. k \in {"prompt", "notice"} BY <1>13, <2>2 DEF Begins, UserPrompts, Typed
      <4>2. h.prompts = {} \/ (h.prompts \subseteq g.prompts \cup {i} /\ i \in h.prompts)
        BY <1>3, <2>2, <4>1 DEF LineRead
      <4>3. \A x \in g.prompts : x <= i
        <5>1. g.prompts \subseteq Nat BY <1>2 DEF Passes, Groups
        <5> QED BY <1>1, <1>2, <5>1
      <4>4. i <= i BY <1>1
      <4> QED BY <4>2, <4>3, <4>4
    <3>2. H BY <2>1, <3>1 DEF Leaves
    <3>3. T
      <4>1. r.turns = p.turns \/ Closes(p, r) BY <1>3, <2>2 DEF LineRead
      <4> QED BY <1>7, <1>9, <2>1, <4>1, ClosesOver
    <3> QED BY <3>2, <3>3
  <2>3. CASE k \notin UserPrompts
    <3>1. k = "peer" BY <1>13, <2>3 DEF Begins, UserPrompts, Typed
    <3>2. r = p BY <1>3, <3>1 DEF LineRead, Tells, UserPrompts, Typed
    <3>3. h.prompts = {} BY <1>4, <1>13, <3>1, <3>2
    <3> QED BY <1>7, <2>1, <3>2, <3>3 DEF Leaves
  <2> QED BY <2>2, <2>3
<1>14. ASSUME Finishes(k) PROVE H /\ T
  <2>1. CASE k = "ask"
    <3>1. h = NoGroup /\ Adds(p, r, i, g.pending \cup {i}, g.prompts)
      BY <1>3, <2>1 DEF LineRead
    <3>2. T BY <1>7, <1>11, <1>14, <3>1, AddsOver
    <3>3. h.prompts = {} /\ claude' = "asking" BY <1>14, <2>1, <3>1 DEF NoGroup, Finishes
    <3> QED BY <3>2, <3>3 DEF Leaves
  <2>2. CASE k = "interrupt"
    <3>1. h = NoGroup /\ (Adds(p, r, i, g.pending, g.prompts) \/ Closes(p, r))
      BY <1>3, <2>2 DEF LineRead
    <3>2. GroupOver(g, E) BY <1>10, <1>14, <2>2 DEF GroupOver
    <3>3. T BY <1>7, <1>11, <1>14, <3>1, <3>2, AddsOver, ClosesOver
    <3>4. h.anchor = 0 /\ claude' = "idle" BY <1>14, <2>2, <3>1 DEF NoGroup, Finishes
    <3> QED BY <1>12, <3>3, <3>4
  <2>3. CASE k = "error"
    <3>1. r.turns = p.turns /\ h.anchor = i /\ h.prompts = g.prompts
      BY <1>3, <2>3 DEF LineRead
    <3>2. claude' = "idle" BY <1>14, <2>3 DEF Finishes
    <3>3. GroupOver(h, E) BY <1>11, <1>14, <3>1 DEF GroupOver
    <3> QED BY <1>7, <3>1, <3>2, <3>3 DEF Leaves
  <2> QED BY <1>14, <2>1, <2>2, <2>3 DEF Finishes
<1>15. ASSUME k \in StopRecords, Stops PROVE H /\ T
  <2>1. r = p BY <1>3, <1>15 DEF LineRead, Tells, UserPrompts, Typed, StopRecords
  <2>2. claude = "hooks" /\ claude' = "idle" BY <1>15 DEF Stops
  <2>3. g.anchor \in {0, Len(log)} BY <1>5, <2>2 DEF Leaves
  <2>4. g.anchor # 0 => EndsAt(E, g.anchor, g.prompts)
    <3>1. Working BY <2>2 DEF Working
    <3>2. EndsAt(E, Len(log), g.prompts) BY <1>6, <1>8, <1>15, <3>1, EndsAtOpener
    <3> QED BY <2>3, <3>2
  <2>5. H BY <2>1, <2>2, <2>4 DEF Leaves, GroupOver
  <2>6. T BY <1>7, <2>1
  <2> QED BY <2>5, <2>6
<1>16. ASSUME Continues(k) PROVE H /\ T
  <2>0. opener' = opener BY <1>16 DEF Continues
  <2> USE DEF Continues, Working
  <2>1. CASE k = "local"
    <3>1. claude' = claude /\ ~Working BY <1>16, <2>1
    <3>2. T
      <4>1. r.turns = p.turns \/ Closes(p, r) BY <1>3, <2>1 DEF LineRead, UserPrompts, Typed
      <4> QED BY <1>7, <1>9, <3>1, <4>1, ClosesOver
    <3>3. h.anchor = 0 \/ (h.anchor = g.anchor /\ h.prompts = g.prompts)
      BY <1>3, <2>1 DEF LineRead, UserPrompts, Typed
    <3>4. GroupOver(h, E) BY <1>9, <3>1, <3>3 DEF GroupOver
    <3>5. H BY <3>1, <3>4 DEF Leaves
    <3> QED BY <3>2, <3>5
  <2>2. CASE k = "peer"
    <3>1. r = p BY <1>3, <2>2 DEF LineRead, Tells, UserPrompts, Typed
    <3>2. claude = "working" /\ claude' = "working" /\ went' = went BY <1>16, <2>2
    <3> QED BY <1>5, <1>7, <2>0, <3>1, <3>2 DEF Leaves
  <2>3. CASE k = "work"
    <3>1. r.turns = p.turns /\ h.anchor = g.anchor /\ h.prompts = g.prompts
      BY <1>3, <2>3 DEF LineRead
    <3>2. claude \in {"asked", "working", "between"} /\ claude' = "working" /\ went' = went
      BY <1>16, <2>3
    <3>3. claude = "asked" => g.anchor = 0 BY <1>2, <1>5 DEF Held
    <3> QED BY <1>5, <1>7, <2>0, <3>1, <3>2, <3>3 DEF Leaves
  <2>4. CASE k = "result"
    <3>1. r = p /\ claude = "asking" /\ claude' = "working"
      BY <1>3, <1>16, <2>4 DEF LineRead, Tells, UserPrompts, Typed
    <3>2. g.anchor = 0 BY <1>2, <1>5, <3>1 DEF Held
    <3> QED BY <1>5, <1>7, <2>0, <3>1, <3>2 DEF Leaves
  <2>5. CASE k = "feedback"
    <3>1. r.turns = p.turns /\ h.anchor = 0 /\ h.prompts = g.prompts
      BY <1>3, <2>5 DEF LineRead
    <3>2. claude = "hooks" /\ claude' = "working" BY <1>16, <2>5
    <3> QED BY <1>5, <1>7, <2>0, <3>1, <3>2 DEF Leaves
  <2>6. CASE k \in {"reply", "error"}
    <3>1. r.turns = p.turns /\ h.anchor = i /\ h.prompts = g.prompts
      BY <1>3, <2>6 DEF LineRead
    <3>2. Working /\ (claude' = "hooks" \/ (claude' = "between" /\ <<i, opener>> \in went'))
      BY <1>16, <2>6 DEF i
    <3> QED BY <1>1, <1>7, <1>8, <2>0, <3>1, <3>2 DEF Leaves
  <2> QED BY <1>16, <2>1, <2>2, <2>3, <2>4, <2>5, <2>6
<1>17. H /\ T BY <1>13, <1>14, <1>15, <1>16 DEF Line
<1> QED BY <1>17 DEF r, p, i, E

\* Every pass from the watermark on leaves its group so, and its turns had ended.
AllLeave ==
  \A f \in anchor + 1 .. Len(log) + 1 :
    Leaves(Pass(log, f)[Len(log)].group, claude, opener, Len(log), Overs, went)

AllOver ==
  \A f \in anchor + 1 .. Len(log) + 1 : \A n \in f - 1 .. Len(log) :
    TurnsOver(Pass(log, f)[n].turns, Overs)

LEMMA NoPassOver ==
  ASSUME NEW c, NEW o, NEW n, NEW ends, NEW goes
  PROVE  /\ Leaves(NoPass.group, c, o, n, ends, goes) /\ TurnsOver(NoPass.turns, ends)
         /\ GroupOver(NoPass.group, ends)
BY DEF NoPass, NoGroup, Leaves, GroupOver, TurnsOver

LEMMA AllLeaveLine ==
  ASSUME LogInv, log' \in Seq(Kinds), NEW k \in Kinds, Line(k), anchor \in Nat, AllHeld, AllLeave,
         AllOver
  PROVE  AllLeave' /\ AllOver'
<1>1. Len(log) \in Nat /\ Len(log') = Len(log) + 1 /\ anchor' = anchor /\ Grown(k)
      /\ log \in Seq(Kinds)
  BY DEF Line, Grown, LogInv, LogTyped
<1>2. Overs \subseteq Overs' BY OversGrow
<1>3. ASSUME NEW f \in anchor + 1 .. Len(log) + 1
      PROVE  /\ Leaves(Pass(log', f)[Len(log) + 1].group, claude', opener', Len(log'), Overs', went')
             /\ TurnsOver(Pass(log', f)[Len(log) + 1].turns, Overs')
  <2>1. f \in Nat \ {0} /\ anchor < f /\ f <= Len(log) + 1 /\ Len(log) \in f - 1 .. Len(log)
    BY <1>1
  <2>2. Held(Pass(log, f)[Len(log)].group, claude, opener, log, ended) BY DEF AllHeld
  <2>3. Leaves(Pass(log, f)[Len(log)].group, claude, opener, Len(log), Overs, went) BY DEF AllLeave
  <2>4. TurnsOver(Pass(log, f)[Len(log)].turns, Overs) BY <2>1 DEF AllOver
  <2>5. LET r == ReadLine(Pass(log, f)[Len(log)], k, Len(log) + 1) IN
        /\ Leaves(r.group, claude', opener', Len(log'), Overs', went')
        /\ TurnsOver(r.turns, Overs')
    BY <2>1, <2>2, <2>3, <2>4, LeavesLine
  <2>6. Pass(log', f)[Len(log) + 1] = ReadLine(Pass(log, f)[Len(log)], k, Len(log) + 1)
    BY <1>1, <2>1, PassGrows
  <2> QED BY <2>5, <2>6
<1>4. Pass(log', Len(log) + 2)[Len(log) + 1] = NoPass
  <2>1. Len(log) + 2 \in Nat \ {0} /\ Len(log) + 1 \in 0 .. (Len(log) + 2) - 1 BY <1>1
  <2> QED BY <2>1, PassIs
<1>5. AllLeave'
  <2> SUFFICES ASSUME NEW f \in anchor + 1 .. Len(log) + 2
               PROVE  Leaves(Pass(log', f)[Len(log) + 1].group, claude', opener', Len(log'), Overs', went')
    BY <1>1 DEF AllLeave
  <2>1. CASE f = Len(log) + 2 BY <1>4, <2>1, NoPassOver
  <2>2. CASE f # Len(log) + 2
    <3>1. f \in anchor + 1 .. Len(log) + 1 BY <1>1, <2>2
    <3> QED BY <1>3, <3>1
  <2> QED BY <2>1, <2>2
<1>6. AllOver'
  <2> SUFFICES ASSUME NEW f \in anchor + 1 .. Len(log) + 2, NEW n \in f - 1 .. Len(log) + 1
               PROVE  TurnsOver(Pass(log', f)[n].turns, Overs')
    BY <1>1 DEF AllOver
  <2>1. CASE f = Len(log) + 2
    <3>1. n = Len(log) + 1 BY <1>1, <2>1
    <3> QED BY <1>4, <2>1, <3>1, NoPassOver
  <2>2. CASE f # Len(log) + 2 /\ n = Len(log) + 1
    <3>1. f \in anchor + 1 .. Len(log) + 1 BY <1>1, <2>2
    <3> QED BY <1>3, <2>2, <3>1
  <2>3. CASE f # Len(log) + 2 /\ n # Len(log) + 1
    <3>1. f \in anchor + 1 .. Len(log) + 1 /\ n \in f - 1 .. Len(log) /\ n \in 0 .. Len(log)
          /\ f \in Nat \ {0} /\ f <= Len(log) + 1
      BY <1>1, <2>3
    <3>2. TurnsOver(Pass(log, f)[n].turns, Overs) BY <3>1 DEF AllOver
    <3>3. Pass(log', f)[n] = Pass(log, f)[n] BY <1>1, <3>1, PassGrows
    <3> QED BY <1>2, <3>2, <3>3, OverMore
  <2> QED BY <2>1, <2>2, <2>3
<1> QED BY <1>5, <1>6

LEMMA AllLeaveRests ==
  ASSUME LogInv, Rests \/ (log' = log /\ Stops), AllHeld, AllLeave, AllOver, anchor \in Nat,
         NEW a \in Nat, anchor' = a, anchor <= a
  PROVE  AllLeave' /\ AllOver'
<1>1. log' = log /\ Len(log) \in Nat /\ opener' = opener /\ log \in Seq(Kinds)
  BY DEF Rests, Stops, LogInv, LogTyped
<1>2. Overs \subseteq Overs' /\ went \subseteq went' /\ (Stops => <<Len(log), opener>> \in Overs')
  BY OversGrow
<1>3. AllOver'
  <2> SUFFICES ASSUME NEW f \in a + 1 .. Len(log) + 1, NEW n \in f - 1 .. Len(log)
               PROVE  TurnsOver(Pass(log, f)[n].turns, Overs')
    BY <1>1 DEF AllOver
  <2>1. f \in anchor + 1 .. Len(log) + 1 BY <1>1
  <2>2. TurnsOver(Pass(log, f)[n].turns, Overs) BY <2>1 DEF AllOver
  <2> QED BY <1>2, <2>2, OverMore
<1>4. AllLeave'
  <2> SUFFICES ASSUME NEW f \in a + 1 .. Len(log) + 1
               PROVE  Leaves(Pass(log, f)[Len(log)].group, claude', opener', Len(log), Overs', went')
    BY <1>1 DEF AllLeave
  <2>1. f \in anchor + 1 .. Len(log) + 1 /\ f \in Nat \ {0} /\ Len(log) \in 0 .. Len(log) BY <1>1
  <2> DEFINE g == Pass(log, f)[Len(log)].group
  <2>2. Leaves(g, claude, opener, Len(log), Overs, went) BY <2>1 DEF AllLeave
  <2>3. Held(g, claude, opener, log, ended) BY <2>1 DEF AllHeld
  <2>4. ~g.saw => g.anchor = 0 BY <1>1, <2>1, GroupIs
  <2> HIDE DEF g
  <2>5. GroupOver(g, Overs) => GroupOver(g, Overs') BY <1>2, OverMore
  <2>6. Leaves(g, claude', opener', Len(log), Overs', went')
    <3>1. CASE claude' = claude
      BY <1>1, <1>2, <2>2, <2>5, <3>1 DEF Leaves
    <3>2. CASE claude' \in {"idle", "given"} /\ claude = "idle"
      BY <2>2, <2>5, <3>2 DEF Leaves
    <3>3. CASE claude' = "idle" /\ claude = "asked"
      BY <2>3, <2>4, <3>3 DEF Leaves, GroupOver, Held
    <3>4. CASE Stops
      <4>1. claude = "hooks" /\ claude' = "idle" BY <3>4 DEF Stops
      <4>2. g.anchor \in {0, Len(log)} /\ (g.prompts # {} =>
               opener \in g.prompts /\ \A x \in g.prompts : x <= opener)
        BY <2>2, <4>1 DEF Leaves
      <4>3. EndsAt(Overs', Len(log), g.prompts) BY <1>2, <3>4, <4>2, EndsAtOpener
      <4>4. GroupOver(g, Overs') BY <4>2, <4>3 DEF GroupOver
      <4> QED BY <4>1, <4>4 DEF Leaves
    <3> QED BY <3>1, <3>2, <3>3, <3>4 DEF Rests
  <2> QED BY <2>6 DEF g
<1> QED BY <1>3, <1>4

\* At most one prompt, m, and one reply, l, behind it.
OneReply(s, l, m) ==
  \A i \in 1 .. Len(s) :
    /\ s[i] \in {"prompt", "local", "reply", "duration"}
    /\ s[i] = "prompt" => i = m
    /\ s[i] = "reply" <=> i = l
    /\ l < i => s[i] = "duration"

\* Of one prompt and the reply behind it a pass makes no turn before it is flushed.
LEMMA OneExchange ==
  ASSUME NEW s \in Seq(Kinds), NEW l \in Nat, NEW m \in Nat,
         OneReply(s, l, m),
         NEW f \in Nat \ {0}, NEW n \in f - 1 .. Len(s)
  PROVE  /\ Pass(s, f)[n].turns = <<>>
         /\ Pass(s, f)[n].group.anchor \in {0, l} /\ Pass(s, f)[n].group.prompts \subseteq {m}
<1> DEFINE p(k) == Pass(s, f)[k]
           Q(k) == /\ p(k) \in Passes /\ p(k).turns = <<>>
                   /\ p(k).group.anchor \in {0, l} /\ p(k).group.prompts \subseteq {m}
                   /\ k < l \/ k < f => ~p(k).group.saw /\ p(k).group.anchor = 0
           T == {k \in Nat : k <= Len(s) => Q(k)}
<1>1. ASSUME NEW k \in Nat, k < f PROVE k \in T
  <2>1. k \in 0 .. f - 1 BY <1>1
  <2>2. p(k) = NoPass BY <2>1, PassIs
  <2> HIDE DEF p
  <2>3. Q(k) BY <2>2, NoGroupIs DEF NoPass, NoGroup
  <2> HIDE DEF Q
  <2> QED BY <2>3
<1>2. 0 \in T BY <1>1
<1>3. ASSUME NEW k \in Nat, k \in T PROVE k + 1 \in T
  <2>1. CASE k + 1 < f
    <3> HIDE DEF T
    <3> QED BY <1>1, <2>1
  <2>2. CASE f <= k + 1 /\ k + 1 <= Len(s)
    <3> DEFINE i == k + 1
    <3>1. Q(k) BY <1>3, <2>2
    <3>2. p(i) = ReadLine(p(k), s[i], i) BY <2>2, PassIs
    <3>3. /\ i \in Nat \ {0} /\ i \in 1 .. Len(s)
          /\ s[i] \in {"prompt", "local", "reply", "duration"}
          /\ s[i] = "prompt" => i = m
          /\ s[i] = "reply" <=> i = l
          /\ l < i => s[i] = "duration"
      BY <2>2 DEF OneReply
    <3> HIDE DEF p
    <3>4. LineRead(p(k), s[i], i, p(i)) BY <3>1, <3>2, <3>3, LineReadIs
    <3>5. CASE s[i] \in {"prompt", "local"}
      <4>1. ~(l < i) /\ i # l /\ k < l
        <5>1. ~(l < i) /\ i # l BY <3>3, <3>5
        <5>2. k < l \/ k + 1 = l BY <3>3, <5>1
        <5> QED BY <3>1, <3>3, <3>5, <5>1, <5>2
      <4> QED BY <3>1, <3>3, <3>4, <3>5, <4>1 DEF LineRead, UserPrompts, Typed
    <3>6. CASE s[i] = "reply"
      <4>1. i = l BY <3>3, <3>6
      <4> QED BY <2>2, <3>1, <3>3, <3>4, <3>6, <4>1 DEF LineRead
    <3>7. CASE s[i] = "duration"
      <4>1. p(i) = p(k) BY <3>4, <3>7 DEF LineRead, Tells, UserPrompts, Typed
      <4> QED BY <2>2, <3>1, <4>1
    <3> QED BY <3>3, <3>5, <3>6, <3>7
  <2>3. CASE k + 1 > Len(s) BY <2>3
  <2> QED BY <2>1, <2>2, <2>3
<1> HIDE DEF T
<1>4. Nat \subseteq T BY <1>2, <1>3, Induct
<1>5. n \in T /\ n <= Len(s) BY <1>4
<1> QED BY <1>5 DEF T

\* What is there at the start: at most one exchange, over.
LEMMA InitExchange ==
  ASSUME Init
  PROVE  \E l, m \in 0 .. Len(log) : (l # 0 => <<l, m>> \in ended) /\ OneReply(log, l, m)
<1>1. LastExists /\ log \in Seq(Kinds) /\ Len(log) \in Nat
  BY MarksInvInit DEF MarksInv, LogInv, LogTyped
<1>2. SubSeq(log, 1, Len(log)) = log BY <1>1
<1> DEFINE l == LastOf(SubSeq(log, 1, Len(log)), {"reply"})
           m == LastOf(SubSeq(log, 1, Len(log)), {"prompt"})
<1>3. /\ l \in 0 .. Len(log) /\ m \in 0 .. Len(log)
      /\ l # 0 => log[l] = "reply"
      /\ m # 0 => log[m] = "prompt"
      /\ \A i \in l + 1 .. Len(log) : log[i] # "reply"
      /\ \A i \in m + 1 .. Len(log) : log[i] # "prompt"
  <2>1. Len(log) \in 0 .. Len(log) BY <1>1
  <2>2. /\ l \in 0 .. Len(log) /\ (l # 0 => log[l] \in {"reply"})
        /\ \A i \in l + 1 .. Len(log) : log[i] \notin {"reply"}
    BY <1>1, <2>1, LastOfIs
  <2>3. /\ m \in 0 .. Len(log) /\ (m # 0 => log[m] \in {"prompt"})
        /\ \A i \in m + 1 .. Len(log) : log[i] \notin {"prompt"}
    BY <1>1, <2>1, LastOfIs
  <2> HIDE DEF l, m
  <2> QED BY <2>2, <2>3
<1>4. l # 0 => <<l, m>> \in ended
  <2>1. ended = {<<i, opener>> : i \in {LastOf(log, {"reply"})} \ {0}}
        /\ opener = LastOf(log, {"prompt"})
    BY DEF Init
  <2>2. l = LastOf(log, {"reply"}) /\ m = LastOf(log, {"prompt"}) BY <1>2
  <2> HIDE DEF l, m
  <2> QED BY <2>1, <2>2
<1> HIDE DEF l, m
<1> SUFFICES OneReply(log, l, m) BY <1>3, <1>4
<1> USE DEF OneReply
<1>5. CASE log = <<>>
  <2>1. Len(log) = 0 BY <1>5
  <2> QED BY <2>1
<1>6. CASE log = <<"prompt", "reply", "duration">>
  <2>1. Len(log) = 3 /\ log[1] = "prompt" /\ log[2] = "reply" /\ log[3] = "duration" BY <1>6
  <2> HIDE <1>6
  <2>2. \A i \in 1 .. 3 : i = 1 \/ i = 2 \/ i = 3 OBVIOUS
  <2>3. l = 2 BY <1>3, <2>1, <2>2
  <2>4. m = 1 BY <1>3, <2>1, <2>2
  <2> QED BY <2>1, <2>2, <2>3, <2>4
<1>7. CASE log = <<"local", "prompt", "reply">>
  <2>1. Len(log) = 3 /\ log[1] = "local" /\ log[2] = "prompt" /\ log[3] = "reply" BY <1>7
  <2> HIDE <1>7
  <2>2. \A i \in 1 .. 3 : i = 1 \/ i = 2 \/ i = 3 OBVIOUS
  <2>3. l = 3 BY <1>3, <2>1, <2>2
  <2>4. m = 2 BY <1>3, <2>1, <2>2
  <2> QED BY <2>1, <2>2, <2>3, <2>4
<1> QED BY <1>5, <1>6, <1>7 DEF Init, Exchange

LEMMA AllLeaveInit == Init => AllLeave /\ AllOver
<1> SUFFICES ASSUME Init PROVE AllLeave /\ AllOver OBVIOUS
<1>1. PICK l, m \in 0 .. Len(log) :
           (l # 0 => <<l, m>> \in ended) /\ OneReply(log, l, m)
  BY InitExchange
<1>2. log \in Seq(Kinds) /\ Len(log) \in Nat /\ anchor = 0 /\ claude = "idle"
  <2>1. log \in Seq(Kinds) BY MarksInvInit DEF MarksInv, LogInv, LogTyped
  <2> QED BY <2>1 DEF Init
<1>3. \A f \in 1 .. Len(log) + 1 : \A n \in f - 1 .. Len(log) :
        /\ Pass(log, f)[n].turns = <<>>
        /\ Pass(log, f)[n].group.anchor \in {0, l} /\ Pass(log, f)[n].group.prompts \subseteq {m}
  <2> SUFFICES ASSUME NEW f \in 1 .. Len(log) + 1, NEW n \in f - 1 .. Len(log)
               PROVE  /\ Pass(log, f)[n].turns = <<>>
                      /\ Pass(log, f)[n].group.anchor \in {0, l}
                      /\ Pass(log, f)[n].group.prompts \subseteq {m}
    OBVIOUS
  <2>1. f \in Nat \ {0} /\ l \in Nat /\ m \in Nat BY <1>2
  <2> QED BY <1>1, <1>2, <2>1, OneExchange
<1>4. AllOver
  <2> SUFFICES ASSUME NEW f \in 1 .. Len(log) + 1, NEW n \in f - 1 .. Len(log)
               PROVE  TurnsOver(Pass(log, f)[n].turns, Overs)
    BY <1>2 DEF AllOver
  <2>1. Pass(log, f)[n].turns = <<>> BY <1>3
  <2> QED BY <2>1 DEF TurnsOver
<1>5. AllLeave
  <2> SUFFICES ASSUME NEW f \in 1 .. Len(log) + 1
               PROVE  Leaves(Pass(log, f)[Len(log)].group, claude, opener, Len(log), Overs, went)
    BY <1>2 DEF AllLeave
  <2> DEFINE g == Pass(log, f)[Len(log)].group
  <2>1. g.anchor \in {0, l} /\ g.prompts \subseteq {m}
    <3>1. Len(log) \in f - 1 .. Len(log) BY <1>2
    <3> QED BY <1>3, <3>1
  <2> HIDE DEF g
  <2>2. g.prompts # {} => m \in g.prompts /\ \A x \in g.prompts : x <= m BY <2>1
  <2>3. g.anchor # 0 => EndsAt(Overs, g.anchor, g.prompts)
    <3>1. l # 0 => <<l, m>> \in Overs BY <1>1 DEF Overs
    <3> QED BY <2>1, <2>2, <3>1, EndsAtOpener
  <2>4. Leaves(g, claude, opener, Len(log), Overs, went) BY <1>2, <2>3 DEF Leaves, GroupOver
  <2> QED BY <2>4 DEF g
<1> QED BY <1>4, <1>5

\* The copy, taken for settled, ends where a turn ended: every pass over it does.
Settles ==
  /\ mirrored # 0
  /\ \/ log[mirrored] = "duration"
     \/ /\ quiet >= Settled
        /\ log[mirrored] = "reply" /\ HasStopRecords(Copy) => quiet >= HooksWaited

CopyOver ==
  Settles => \A f \in anchor + 1 .. mirrored + 1 :
               GroupOver(Pass(log, f)[mirrored].group, Overs)

\* With the copy up to date, what Claude does would show in it.
LEMMA SettledIsOver ==
  ASSUME MarksInv, AllHeld, AllLeave, mirrored = Len(log), NEW q \in Nat,
         "slowhook" \notin Faults, log[mirrored] # "duration" => MayBeQuiet(q), mirrored # 0,
         \/ log[mirrored] = "duration"
         \/ q >= Settled /\ (log[mirrored] = "reply" /\ HasStopRecords(Copy) => q >= HooksWaited),
         NEW f \in anchor + 1 .. mirrored + 1
  PROVE  GroupOver(Pass(log, f)[mirrored].group, Overs)
<1>1. /\ LogInv /\ anchor \in Nat /\ Len(log) \in Nat /\ log \in Seq(Kinds)
      /\ claude \in {"idle", "given", "asked", "working", "between", "asking", "hooks"}
      /\ opener \in 0 .. Len(log)
  BY DEF MarksInv, Marks, LogInv, LogTyped
<1>2. Copy = log BY <1>1 DEF Copy
<1> DEFINE g == Pass(log, f)[mirrored].group
<1>3. Held(g, claude, opener, log, ended) BY DEF AllHeld
<1>4. Leaves(g, claude, opener, Len(log), Overs, went) BY DEF AllLeave
<1>5. (~g.saw => g.anchor = 0) /\ (g.anchor # 0 => g.anchor \in f .. Len(log))
  <2>1. f \in Nat \ {0} /\ mirrored \in 0 .. Len(log) /\ f <= mirrored + 1 BY <1>1
  <2> QED BY <1>1, <2>1, GroupIs
<1> HIDE DEF g
<1> SUFFICES ASSUME g.anchor # 0 PROVE EndsAt(Overs, g.anchor, g.prompts) BY DEF GroupOver, g
<1>6. CASE claude \in {"idle", "given"} BY <1>4, <1>6 DEF Leaves, GroupOver
<1>7. CASE claude \in {"asked", "asking"} BY <1>3, <1>5, <1>7 DEF Held
<1>8. CASE claude \in {"working", "between"}
  <2>1. log[mirrored] # "duration" BY <1>1, <1>8 DEF LogInv, LastLine
  <2>2. q >= Settled /\ MayBeQuiet(q) BY <2>1
  <2>3. Resumed
    <3>1. /\ g.anchor > opener /\ log[g.anchor] \in {"reply", "error"}
          /\ \A j \in g.anchor .. Len(log) : log[j] \notin {"feedback", "ask"}
      BY <1>3, <1>8 DEF Held
    <3>2. g.anchor \in opener + 1 .. Len(log) BY <1>1, <1>5, <3>1
    <3> QED BY <1>8, <3>1, <3>2 DEF Resumed
  <2>4. "late" \in Faults BY <2>2, <2>3 DEF MayBeQuiet, Settled
  <2>5. <<g.anchor, opener>> \in Overs BY <1>4, <1>8, <2>4 DEF Leaves, Overs
  <2>6. g.prompts # {} => opener \in g.prompts /\ \A x \in g.prompts : x <= opener
    BY <1>4, <1>8 DEF Leaves
  <2> QED BY <2>5, <2>6, EndsAtOpener
<1>9. CASE claude = "hooks"
  <2>1. log[mirrored] = "reply" BY <1>1, <1>9 DEF LogInv, LastLine
  <2>2. q >= Settled /\ (HasStopRecords(log) => q >= HooksWaited) /\ MayBeQuiet(q)
    BY <1>2, <2>1
  <2>3. q < (IF HasStopRecords(log) THEN HooksWaited ELSE Settled)
    BY <1>9, <2>2 DEF MayBeQuiet
  <2> QED BY <2>2, <2>3 DEF Settled, HooksWaited
<1> QED BY <1>1, <1>6, <1>7, <1>8, <1>9

LEMMA CopyOverKept ==
  ASSUME MarksInv, AllHeld, AllLeave, CopyOver, [Next]_vars, "slowhook" \notin Faults,
         Rests \/ Stops \/ \E k \in Kinds : Line(k)
  PROVE  CopyOver'
<1>1. LogInv /\ Len(log) \in Nat /\ mirrored \in 0 .. Len(log) /\ quiet \in Nat
  BY DEF MarksInv, LogInv, LogTyped, Stalled
<1>2. anchor \in Nat /\ anchor' \in Nat /\ anchor <= anchor' BY AnchorGrows
<1>3. CASE Mirror
  <2>1. mirrored' = Len(log) /\ quiet' = 0 /\ UNCHANGED <<log, anchor, claude, opener, ended, went>>
    BY <1>3 DEF Mirror
  <2>2. Overs' = Overs BY <2>1 DEF Overs
  <2> SUFFICES ASSUME log[Len(log)] = "duration", NEW f \in anchor + 1 .. Len(log) + 1
               PROVE  GroupOver(Pass(log, f)[Len(log)].group, Overs)
    BY <2>1, <2>2 DEF CopyOver, Settles, Settled
  <2>3. Leaves(Pass(log, f)[Len(log)].group, claude, opener, Len(log), Overs, went)
    BY DEF AllLeave
  <2>4. claude \in {"idle", "given"}
    <3>1. claude = "asked" => FALSE BY <1>1 DEF LogInv, TurnOpen, LastLine, Working
    <3>2. claude \in {"working", "between", "asking", "hooks"} => FALSE
      BY <1>1 DEF LogInv, LastLine
    <3> QED BY <1>1, <3>1, <3>2 DEF LogInv, LogTyped
  <2> QED BY <2>3, <2>4 DEF Leaves
<1>4. CASE Tick
  <2>1. /\ mirrored = Len(log) /\ quiet' = quiet + 1 /\ MayBeQuiet(quiet + 1)
        /\ UNCHANGED <<log, mirrored, anchor, ended, went>>
    BY <1>4 DEF Tick
  <2>2. Overs' = Overs /\ Copy' = Copy BY <2>1 DEF Overs, Copy
  <2> SUFFICES ASSUME Settles', NEW f \in anchor + 1 .. mirrored + 1
               PROVE  GroupOver(Pass(log, f)[mirrored].group, Overs)
    BY <2>1, <2>2 DEF CopyOver
  <2>3. /\ mirrored # 0
        /\ \/ log[mirrored] = "duration"
           \/ /\ quiet + 1 >= Settled
              /\ log[mirrored] = "reply" /\ HasStopRecords(Copy) => quiet + 1 >= HooksWaited
    BY <2>1, <2>2 DEF Settles
  <2>4. quiet + 1 \in Nat BY <1>1
  <2> QED BY <2>1, <2>3, <2>4, SettledIsOver
<1>5. CASE ~Mirror /\ ~Tick
  <2>1. UNCHANGED <<mirrored, quiet>> BY <1>5, CopyOnly
  <2>2. Copy' = Copy BY <1>1, <2>1, CopyStays
  <2>3. \A i \in 1 .. Len(log) : log'[i] = log[i] BY <1>1, Grows
  <2>4. Overs \subseteq Overs' BY OversGrow
  <2>5. Settles' => Settles BY <1>1, <2>1, <2>2, <2>3 DEF Settles
  <2>6. PICK a \in Nat : anchor' = a /\ anchor <= a BY <1>2
  <2> SUFFICES ASSUME Settles', NEW f \in a + 1 .. mirrored + 1
               PROVE  GroupOver(Pass(log', f)[mirrored].group, Overs')
    BY <2>1, <2>6 DEF CopyOver
  <2>7. f \in anchor + 1 .. mirrored + 1 BY <1>1, <1>2, <2>6
  <2>8. GroupOver(Pass(log, f)[mirrored].group, Overs) BY <2>5, <2>7 DEF CopyOver
  <2>9. Pass(log', f)[mirrored] = Pass(log, f)[mirrored]
    <3>1. mirrored \in Nat /\ \A i \in 1 .. mirrored : log'[i] = log[i] BY <1>1, <2>3
    <3>2. f \in Nat \ {0} BY <1>1, <1>2, <2>7
    <3> QED BY <3>1, <3>2, PassSame
  <2> QED BY <2>4, <2>8, <2>9, OverMore
<1> QED BY <1>3, <1>4, <1>5

\* What the watcher has read, and waited for, ends where a turn ended.
ReadOver == watch.st # "rest" => GroupOver(Pass(log, anchor + 1)[watch.seen].group, Overs)

CutEscaped == watch.cut # 0 => watch.cut \in escaped

\* A turn that was delivered: a prompt Esc stopped, or one that had ended.
DeliveredWell(t) ==
  /\ t \in Turns
  /\ \/ t.anchor \in escaped /\ (t.prompts # {} => t.anchor \in t.prompts)
     \/ EndsAt(Overs, t.anchor, t.prompts)

GotOver == \A t \in got : DeliveredWell(t)

EndInv ==
  /\ WrittenInv /\ ReportInv
  /\ AllLeave /\ AllOver /\ CopyOver /\ ReadOver /\ CutEscaped /\ GotOver

\* What the settle gate lets through is taken for settled, or is empty.
LEMMA GateSettles ==
  ASSUME MarksInv, SettleGate, anchor # mirrored
  PROVE  Settles
<1>1. /\ log \in Seq(Kinds) /\ Len(log) \in Nat /\ mirrored \in 0 .. Len(log)
      /\ anchor \in 0 .. mirrored /\ quiet \in Nat
  BY DEF MarksInv, Marks, LogInv, LogTyped, Stalled
<1> DEFINE s == Suffix
<1>2. /\ Len(s) = mirrored - anchor /\ Len(s) # 0
      /\ s[Len(s)] = log[mirrored]
  BY <1>1 DEF Suffix
<1>3. s # <<>> /\ Last(s) = log[mirrored] BY <1>2 DEF Last
<1>4. SettleGate => \/ EndsOnTurnEnd(s)
                    \/ AwaitingHooks(s, Copy) /\ quiet >= HooksWaited
                    \/ ~AwaitingHooks(s, Copy) /\ quiet >= Settled
  BY DEF SettleGate
<1> HIDE DEF s
<1>5. EndsOnTurnEnd(s) => log[mirrored] = "duration" BY <1>3 DEF EndsOnTurnEnd
<1>6. log[mirrored] = "reply" /\ HasStopRecords(Copy) => AwaitingHooks(s, Copy)
  <2>1. mirrored \in 1 .. Len(log) BY <1>1, <1>2
  <2>2. Len(Copy) = mirrored /\ Copy[mirrored] = log[mirrored] BY <1>1, <2>1 DEF Copy
  <2>3. Last(Copy) = log[mirrored] BY <2>2 DEF Last
  <2> QED BY <1>3, <2>3 DEF AwaitingHooks
<1>7. \/ log[mirrored] = "duration"
      \/ quiet >= HooksWaited
      \/ ~(log[mirrored] = "reply" /\ HasStopRecords(Copy)) /\ quiet >= Settled
  BY <1>4, <1>5, <1>6
<1>8. mirrored # 0 BY <1>1, <1>2
<1> QED BY <1>1, <1>7, <1>8 DEF Settles, Settled, HooksWaited

LEMMA ReadOverKept ==
  ASSUME MarksInv, CopyOver, ReadOver, [Next]_vars,
         Rests \/ Stops \/ \E k \in Kinds : Line(k)
  PROVE  ReadOver'
<1>1. /\ LogInv /\ WatchTyped /\ Len(log) \in Nat /\ mirrored \in 0 .. Len(log)
      /\ anchor \in 0 .. mirrored
  BY DEF MarksInv, Marks, LogInv, LogTyped
<1>2. watch \in WatchKinds BY <1>1 DEF WatchTyped
<1>3. Overs \subseteq Overs' BY OversGrow
<1>4. CASE WatchRead
  <2>1. /\ watch'.seen = mirrored /\ UNCHANGED <<log, anchor, ended, went>> /\ SettleGate
    BY <1>4 DEF WatchRead, Resting
  <2>2. Overs' = Overs BY <2>1 DEF Overs
  <2>3. GroupOver(Pass(log, anchor + 1)[mirrored].group, Overs)
    <3>1. CASE anchor = mirrored
      <4>1. mirrored \in 0 .. (anchor + 1) - 1 /\ anchor + 1 \in Nat \ {0} BY <1>1, <3>1
      <4>2. Pass(log, anchor + 1)[mirrored] = NoPass BY <4>1, PassIs
      <4> QED BY <4>2, NoPassOver
    <3>2. CASE anchor # mirrored
      <4>1. Settles BY <2>1, <3>2, GateSettles
      <4>2. anchor + 1 \in anchor + 1 .. mirrored + 1 BY <1>1
      <4> QED BY <4>1, <4>2 DEF CopyOver
    <3> QED BY <3>1, <3>2
  <2> QED BY <2>1, <2>2, <2>3 DEF ReadOver
<1>5. CASE WatchLook
  <2>1. watch'.seen = watch.seen /\ watch.st # "rest" /\ UNCHANGED <<log, anchor, ended, went>>
    BY <1>2, <1>5 DEF WatchLook, WatchKinds
  <2>2. Overs' = Overs BY <2>1 DEF Overs
  <2> QED BY <2>1, <2>2 DEF ReadOver
<1>6. CASE WatchPost \/ Restart
  <2>1. watch'.st = "rest" BY <1>6 DEF WatchPost, Restart, Resting
  <2> QED BY <2>1 DEF ReadOver
<1>7. CASE Connect
  <2>1. watch' = watch /\ ~watched BY <1>7 DEF Connect
  <2>2. watch.st = "rest" BY <1>1, <2>1 DEF WatchTyped
  <2> QED BY <2>1, <2>2 DEF ReadOver
<1>8. CASE ~WatchStep /\ ~Restart /\ ~Connect
  <2>1. watch' = watch /\ anchor' = anchor BY <1>8, MarksOnly
  <2>2. watch.seen \in Nat /\ watch.seen <= Len(log)
    BY <1>1, <1>2 DEF WatchTyped, WatchKinds
  <2>3. \A i \in 1 .. watch.seen : log'[i] = log[i]
    <3>1. \A i \in 1 .. Len(log) : log'[i] = log[i] BY <1>1, Grows
    <3> QED BY <1>1, <2>2, <3>1
  <2>4. anchor + 1 \in Nat \ {0} BY <1>1
  <2>5. Pass(log', anchor + 1)[watch.seen] = Pass(log, anchor + 1)[watch.seen]
    BY <2>2, <2>3, <2>4, PassSame
  <2>6. GroupOver(Pass(log, anchor + 1)[watch.seen].group, Overs) =>
          GroupOver(Pass(log, anchor + 1)[watch.seen].group, Overs')
    BY <1>3, OverMore
  <2> QED BY <2>1, <2>5, <2>6 DEF ReadOver
<1> QED BY <1>4, <1>5, <1>6, <1>7, <1>8 DEF WatchStep

LEMMA CutEscapedKept ==
  ASSUME MarksInv, LookSecond, CutEscaped, [Next]_vars
  PROVE  CutEscaped'
<1>1. /\ LogInv /\ WatchTyped /\ Len(log) \in Nat /\ mirrored \in 0 .. Len(log)
      /\ anchor \in 0 .. mirrored /\ LastExists /\ log \in Seq(Kinds)
  BY DEF MarksInv, Marks, LogInv, LogTyped
<1>2. watch \in WatchKinds /\ watch.seen <= mirrored /\ watch.seen \in Nat
  BY <1>1 DEF WatchTyped, WatchKinds
<1>3. escaped \subseteq escaped' BY <1>1, Grows
<1>4. CASE WatchLook
  <2>1. PICK why : watch' = [watch EXCEPT !.st = "post", !.polls = PollsAfter(why),
                               !.wrote = IF PollsAfter(why) = 0 THEN 0 ELSE Len(log),
                               !.cut = IF Confirms(why) THEN CutOffAfter(Read) ELSE 0]
    BY <1>4 DEF WatchLook
  <2>2. watch'.cut = IF Confirms(why) THEN CutOffAfter(Read) ELSE 0
    BY <1>2, <2>1 DEF WatchKinds
  <2>3. Confirms(why) /\ CutOffAfter(Read) # 0 => CutOffAfter(Read) \in escaped
    <3> SUFFICES ASSUME Confirms(why), CutOffAfter(Read) # 0 PROVE CutOffAfter(Read) \in escaped
      OBVIOUS
    <3>1. watch.st = "look" /\ watch.polls = 1 BY <1>4 DEF WatchLook, Confirms
    <3>2. watch.seen \in 0 .. Len(log) /\ anchor \in Nat BY <1>1, <1>2
    <3>3. CutOffAfter(Read) \in 0 .. watch.seen /\ Open(CutOffAfter(Read), watch.seen)
      BY <1>1, <3>2, CutOffIn
    <3>4. CutOffAfter(Read) \in 1 .. watch.seen BY <1>2, <3>3
    <3> QED BY <3>1, <3>3, <3>4 DEF LookSecond
  <2> QED BY <1>3, <2>2, <2>3 DEF CutEscaped
<1>5. CASE WatchRead \/ WatchPost \/ Restart
  <2>1. WatchRead => watch'.cut = 0 BY DEF WatchRead, Resting
  <2>2. WatchPost => watch'.cut = 0 BY DEF WatchPost, Resting
  <2>3. Restart => watch'.cut = 0 BY DEF Restart, Resting
  <2> QED BY <1>5, <2>1, <2>2, <2>3 DEF CutEscaped
<1>6. CASE Connect
  <2>1. watch' = watch BY <1>6 DEF Connect
  <2> QED BY <1>3, <2>1 DEF CutEscaped
<1>7. CASE ~WatchStep /\ ~Restart /\ ~Connect
  <2>1. watch' = watch BY <1>7, MarksOnly
  <2> QED BY <1>3, <2>1 DEF CutEscaped
<1> QED BY <1>4, <1>5, <1>6, <1>7 DEF WatchStep

\* What is said to be cut off names the prompt Esc stopped.
LEMMA CutNamed ==
  ASSUME LogInv, WatchTyped, CutTrue, Marks, watch.cut # 0
  PROVE  /\ CutTurn \in Turns /\ CutTurn.anchor = watch.cut /\ watch.cut \in CutTurn.prompts
         /\ \E b \in Nat :
              /\ \A x \in CutTurn.prompts :
                   x > anchor /\ x \in b + 1 .. watch.cut /\ log[x] = "prompt"
              /\ \A i \in b + 1 .. watch.cut : log[i] \in Skipped \cup {"prompt"}
<1>1. /\ log \in Seq(Kinds) /\ Len(log) \in Nat /\ mirrored \in 0 .. Len(log) /\ LastExists
      /\ watch.seen \in 0 .. Len(log) /\ anchor \in Nat /\ watch.cut \in Nat
  BY DEF LogInv, LogTyped, WatchTyped, Marks, WatchKinds
<1> DEFINE u == Unanswered(Read)
           K == Kinds \ (Meta \cup StopRecords \cup {"prompt"})
           b == LastOf(SubSeq(Read, 1, u), K)
<1>2. /\ watch.cut = u /\ u > anchor /\ Open(u, watch.seen) /\ u \in 1 .. watch.seen
  <2>1. watch.cut = CutOffAfter(Read) BY DEF CutTrue
  <2>2. /\ CutOffAfter(Read) = Unanswered(Read) /\ CutOffAfter(Read) > anchor
        /\ Open(CutOffAfter(Read), watch.seen) /\ CutOffAfter(Read) \in 0 .. watch.seen
    BY <1>1, <2>1, CutOffIn
  <2> QED BY <1>1, <2>1, <2>2
<1> HIDE DEF u
<1>3. u \in 1 .. Len(log) /\ log[u] = "prompt" BY <1>1, <1>2 DEF Open
<1>4. Read[u] = "prompt" /\ Len(Read) = watch.seen BY <1>1, <1>2, <1>3 DEF Read
<1>5. SubSeq(Read, 1, u) = SubSeq(log, 1, u) BY <1>1, <1>2 DEF Read
<1>6. b \in 0 .. u /\ (b # 0 => log[b] \in K) /\ \A i \in b + 1 .. u : log[i] \notin K
  <2>1. u \in 0 .. Len(log) BY <1>3
  <2>2. b = LastOf(SubSeq(log, 1, u), K) BY <1>5
  <2> HIDE DEF b, K
  <2> QED BY <1>1, <2>1, <2>2, LastOfIs
<1>7. u \in b + 1 .. u
  <2>1. b # u BY <1>3, <1>6
  <2> QED BY <1>3, <1>6, <2>1
<1>8. UnansweredPrompts(Read) = {i \in b + 1 .. u : Read[i] = "prompt"}
  BY <1>3 DEF UnansweredPrompts, u
<1> HIDE DEF b
<1>9. u \in UnansweredPrompts(Read) /\ UnansweredPrompts(Read) \subseteq Nat
  BY <1>4, <1>6, <1>7, <1>8
<1>10. \A i \in 1 .. u : Read[i] = log[i] BY <1>1, <1>2 DEF Read
<1>11. \A x \in UnansweredPrompts(Read) : x \in b + 1 .. u /\ log[x] = "prompt"
  BY <1>3, <1>6, <1>8, <1>10
<1>12. \A i \in b + 1 .. u : log[i] \in Skipped \cup {"prompt"}
  <2>1. \A i \in b + 1 .. u : i \in 1 .. Len(log) BY <1>1, <1>3, <1>6
  <2>2. \A i \in 1 .. Len(log) : log[i] \in Kinds BY <1>1
  <2> QED BY <1>6, <2>1, <2>2 DEF Skipped
<1>13. b \in Nat BY <1>3, <1>6
<1>14. \A x \in CutTurn.prompts : x \in UnansweredPrompts(Read) /\ x > anchor BY DEF CutTurn
<1>15. CutTurn \in Turns /\ CutTurn.anchor = watch.cut /\ watch.cut \in CutTurn.prompts
  BY <1>1, <1>2, <1>9 DEF CutTurn, Turns
<1> QED BY <1>2, <1>11, <1>12, <1>13, <1>14, <1>15

\* The turns of a pass had ended, and a prompt cut off was stopped by Esc.
LEMMA GotOverKept ==
  ASSUME MarksInv, AllOver, ReadOver, CutEscaped, GotOver, [Next]_vars,
         Rests \/ Stops \/ \E k \in Kinds : Line(k)
  PROVE  GotOver'
<1>1. /\ LogInv /\ WatchTyped /\ CutTrue /\ Marks /\ Len(log) \in Nat
      /\ mirrored \in 0 .. Len(log) /\ anchor \in 0 .. mirrored /\ log \in Seq(Kinds)
  BY DEF MarksInv, Marks, LogInv, LogTyped
<1>2. Overs \subseteq Overs' /\ escaped \subseteq escaped' BY <1>1, OversGrow, Grows
<1>3. ASSUME NEW t, DeliveredWell(t) PROVE DeliveredWell(t)'
  BY <1>2, <1>3, EndsAtMore DEF DeliveredWell
<1>4. CASE WatchPost
  <2>1. /\ watch.st = "post" /\ got' = got \cup {Outgoing[i] : i \in DOMAIN Outgoing}
    BY <1>4 DEF WatchPost
  <2> DEFINE n == Len(Outgoing)
             f == anchor + 1
             p == Pass(log, f)[watch.seen]
             turns == Flush(p).turns
  <2>2. /\ n \in Nat /\ DOMAIN Outgoing = 1 .. n
        /\ \A j \in 1 .. n : j <= Len(NewTurns) => Outgoing[j] = NewTurns[j]
        /\ watch.cut = 0 => Outgoing = NewTurns
        /\ watch.cut # 0 => n = Len(NewTurns) + 1 /\ Outgoing[n] = CutTurn
    BY <1>1, <2>1, OutgoingIs
  <2>3. f \in Nat \ {0} /\ f \in anchor + 1 .. Len(log) + 1 /\ watch.seen \in f - 1 .. Len(log)
        /\ watch.seen \in 0 .. Len(log) /\ watch.seen \in Nat /\ watch.seen >= f - 1
    BY <1>1, <2>1 DEF WatchTyped, WatchKinds
  <2>4. NewTurns = turns BY <1>1, <2>3, CompletedIs DEF NewTurns, Read
  <2>5. p \in Passes BY <2>3, PassSound
  <2>6. TurnsOver(p.turns, Overs) BY <2>3 DEF AllOver
  <2>7. GroupOver(p.group, Overs) BY <2>1 DEF ReadOver
  <2> HIDE DEF p, n
  <2>8. TurnsOver(turns, Overs) BY <2>5, <2>6, <2>7, FlushTells, ClosesOver
  <2>9. turns \in Seq(Turns)
    <3>1. Flush(p) \in Passes BY <2>5, FlushIs
    <3> QED BY <3>1 DEF Passes
  <2> HIDE DEF turns
  <2>10. Len(turns) \in Nat /\ DOMAIN turns = 1 .. Len(turns) /\ \A j \in 1 .. Len(turns) : turns[j] \in Turns
    BY <2>9
  <2>11. \A j \in 1 .. Len(turns) : DeliveredWell(turns[j])
    BY <2>8, <2>10 DEF TurnsOver, DeliveredWell
  <2> DEFINE l == Len(turns)
  <2>12. watch.cut = 0 => n = l BY <2>2, <2>4 DEF n
  <2>13. watch.cut # 0 => n = l + 1 BY <2>2, <2>4
  <2>14. l \in Nat BY <2>10
  <2> HIDE DEF l
  <2>15. ASSUME NEW j \in 1 .. n PROVE DeliveredWell(Outgoing[j])
    <3>1. CASE j <= Len(turns)
      <4>1. j \in 1 .. Len(turns) /\ Outgoing[j] = turns[j] BY <2>2, <2>4, <2>10, <2>15, <3>1
      <4> QED BY <2>11, <4>1
    <3>2. CASE ~(j <= Len(turns))
      <4>1. ~(j <= l) BY <3>2 DEF l
      <4>2. watch.cut # 0 /\ j = n BY <2>2, <2>12, <2>13, <2>14, <4>1
      <4>3. Outgoing[j] = CutTurn BY <2>2, <4>2
      <4>4. CutTurn \in Turns /\ CutTurn.anchor = watch.cut /\ watch.cut \in CutTurn.prompts
        BY <1>1, <4>2, CutNamed
      <4>5. watch.cut \in escaped BY <4>2 DEF CutEscaped
      <4> QED BY <4>3, <4>4, <4>5 DEF DeliveredWell
    <3> QED BY <3>1, <3>2
  <2>16. \A t \in got' : DeliveredWell(t) BY <2>1, <2>2, <2>15 DEF GotOver
  <2> HIDE <2>1
  <2>17. \A t \in got' : DeliveredWell(t)' BY <1>3, <2>16
  <2> QED BY <2>17 DEF GotOver
<1>5. CASE ~WatchPost
  <2>1. got' = got
    <3>1. CASE WatchStep \/ Restart \/ Connect
      BY <1>5, <3>1 DEF WatchStep, WatchRead, WatchLook, Restart, Connect
    <3>2. CASE ~WatchStep /\ ~Restart /\ ~Connect BY <3>2, MarksOnly
    <3> QED BY <3>1, <3>2
  <2>2. \A t \in got : DeliveredWell(t)' BY <1>3 DEF GotOver
  <2> QED BY <2>1, <2>2 DEF GotOver
<1> QED BY <1>4, <1>5

LEMMA EndInvKept ==
  ASSUME Faults \cap {"undelivered", "lateesc", "slowhook", "silent", "samecopy"} = {},
         EndInv, [Next]_vars
  PROVE  EndInv'
<1>1. /\ WrittenInv /\ MarksInv /\ LogInv /\ ReportInv /\ LookSecond /\ AllHeld /\ AllLeave
      /\ AllOver /\ CopyOver /\ ReadOver /\ CutEscaped /\ GotOver
  BY DEF EndInv, WrittenInv, MarksInv, ReportInv
<1>2. Rests \/ (log' = log /\ Stops) \/ \E k \in Kinds : Line(k) BY <1>1, StepIs
<1>3. Rests \/ Stops \/ \E k \in Kinds : Line(k) BY <1>2
<1>4. WrittenInv' /\ ReportInv' BY <1>1, WrittenInvKept, ReportInvKept
<1>5. AllLeave' /\ AllOver'
  <2>1. anchor \in Nat /\ anchor' \in Nat /\ anchor <= anchor' BY <1>1, AnchorGrows
  <2>2. CASE Rests \/ (log' = log /\ Stops)
    <3>1. PICK a \in Nat : anchor' = a /\ anchor <= a BY <2>1
    <3> QED BY <1>1, <2>1, <2>2, <3>1, AllLeaveRests
  <2>3. ASSUME NEW k \in Kinds, Line(k) PROVE AllLeave' /\ AllOver'
    <3>1. log' \in Seq(Kinds) BY <1>4 DEF WrittenInv, MarksInv, LogInv, LogTyped
    <3> QED BY <1>1, <2>1, <2>3, <3>1, AllLeaveLine
  <2> QED BY <1>2, <2>2, <2>3
<1>6. CopyOver' BY <1>1, <1>3, CopyOverKept
<1>7. ReadOver' BY <1>1, <1>3, ReadOverKept
<1>8. CutEscaped' BY <1>1, CutEscapedKept
<1>9. GotOver' BY <1>1, <1>3, GotOverKept
<1> QED BY <1>4, <1>5, <1>6, <1>7, <1>8, <1>9 DEF EndInv

LEMMA EndInvInit == Init => EndInv
<1> SUFFICES ASSUME Init PROVE EndInv OBVIOUS
<1>1. WrittenInv /\ ReportInv /\ AllLeave /\ AllOver
  BY WrittenInvInit, ReportInvInit, AllLeaveInit
<1>2. claude = "idle" /\ mirrored = Len(log) /\ watch.st = "rest" /\ watch.cut = 0 /\ got = {}
  BY DEF Init, Resting
<1>3. ReadOver /\ CutEscaped /\ GotOver BY <1>2 DEF ReadOver, CutEscaped, GotOver
<1>4. CopyOver
  <2> SUFFICES ASSUME NEW f \in anchor + 1 .. mirrored + 1
               PROVE  GroupOver(Pass(log, f)[mirrored].group, Overs)
    BY DEF CopyOver
  <2>1. Leaves(Pass(log, f)[Len(log)].group, claude, opener, Len(log), Overs, went)
    BY <1>1, <1>2 DEF AllLeave
  <2> QED BY <1>2, <2>1 DEF Leaves
<1> QED BY <1>1, <1>3, <1>4 DEF EndInv

LEMMA EndInvHolds ==
  ASSUME Faults \cap {"undelivered", "lateesc", "slowhook", "silent", "samecopy"} = {}
  PROVE  Spec => []EndInv
<1>1. EndInv /\ [Next]_vars => EndInv' BY EndInvKept
<1> QED BY <1>1, EndInvInit, PTL DEF Spec

\* An end of Overs, in the words of the properties.
LEMMA OversIs ==
  ASSUME EndInv, NEW e \in Overs
  PROVE  /\ e[1] \in 1 .. Len(log) /\ e[2] \in 1 .. Len(log) /\ e = <<e[1], e[2]>>
         /\ e \in ended \/ ("late" \in Faults /\ e \in went)
<1>1. e \in ended \/ ("late" \in Faults /\ e \in went) BY DEF Overs
<1>2. e \in (1 .. Len(log)) \X (1 .. Len(log)) BY <1>1 DEF EndInv, WrittenInv, EndedIn
<1> QED BY <1>1, <1>2

(***************************************************************************)
(* A turn is delivered only when it had ended, never while Stop hooks      *)
(* might push it back (_drain_once_body, the settle gate), as long as no   *)
(* Stop hook outlasts its window and the conditions hold under which what  *)
(* Esc stopped and what was written can be told at all. With the fault     *)
(* "late" it may be what Claude went on from later: then the windows alone *)
(* tell the two apart.                                                     *)
(***************************************************************************)
THEOREM DeliversOnlyWhatEnded ==
  ASSUME Faults \cap {"undelivered", "lateesc", "slowhook", "silent", "samecopy"} = {}
  PROVE  Spec => []DeliveredMeansEnded
<1>1. EndInv => DeliveredMeansEnded
  <2> SUFFICES ASSUME EndInv, NEW t \in got, t.anchor \notin escaped
               PROVE  \/ \E o \in 1 .. Len(log) : <<t.anchor, o>> \in ended
                      \/ "late" \in Faults /\ \E o \in 1 .. Len(log) : <<t.anchor, o>> \in went
    BY DEF DeliveredMeansEnded
  <2>1. EndsAt(Overs, t.anchor, t.prompts) BY DEF EndInv, GotOver, DeliveredWell
  <2>2. PICK e \in Overs : e[1] = t.anchor BY <2>1 DEF EndsAt
  <2> QED BY <2>2, OversIs
<1> QED BY <1>1, EndInvHolds, PTL

-----------------------------------------------------------------------------
(* The prompts a delivered turn names.                                     *)

\* Nothing of Claude's comes after the prompt of line x.
Untouched(x) == \A i \in x + 1 .. Len(log) : log[i] \notin Assistant

\* A prompt of which nothing came was stopped by Esc, unless Claude is at it.
IdleStopped ==
  \A x \in 1 .. Len(log) : log[x] = "prompt" /\ Untouched(x) =>
    x \in escaped \/ (claude = "asked" /\ opener = x)

\* So was one that another prompt follows with nothing of Claude's between.
PromptStopped ==
  \A x, y \in 1 .. Len(log) :
    /\ x < y /\ log[x] = "prompt" /\ log[y] = "prompt"
    /\ \A i \in x .. y : log[i] \notin Assistant
    => x \in escaped

GotNamed == \A t \in got : t.anchor \in 1 .. anchor /\ Named(t.prompts, 1, t.anchor, log)

PromptsApart == \A t, u \in got : t # u => t.prompts \cap u.prompts = {}

NamesInv == EndInv /\ IdleStopped /\ PromptStopped /\ GotNamed /\ PromptsApart

\* A prompt Claude wrote nothing after, before a line and after it.
LEMMA UntouchedGrows ==
  ASSUME log \in Seq(Kinds), NEW k, Grown(k), NEW x \in 1 .. Len(log), Untouched(x)'
  PROVE  Untouched(x) /\ k \notin Assistant
<1>1. Len(log) \in Nat OBVIOUS
<1>2. k \notin Assistant
  <2>1. Len(log) + 1 \in x + 1 .. Len(log') BY <1>1 DEF Grown
  <2> QED BY <2>1 DEF Grown, Untouched
<1>3. ASSUME NEW i \in x + 1 .. Len(log) PROVE log[i] \notin Assistant
  <2>1. i \in 1 .. Len(log) /\ i \in x + 1 .. Len(log') BY <1>1 DEF Grown
  <2> QED BY <2>1 DEF Grown, Untouched
<1> QED BY <1>2, <1>3 DEF Untouched

LEMMA IdleStoppedKept ==
  ASSUME LogInv, [Next]_vars, IdleStopped,
         Rests \/ (log' = log /\ Stops) \/ \E k \in Kinds : Line(k)
  PROVE  IdleStopped'
<1>1. log \in Seq(Kinds) /\ Len(log) \in Nat /\ escaped \subseteq escaped'
  BY Grows DEF LogInv, LogTyped
<1>2. CASE Rests
  <2>1. UNCHANGED <<log, opener>> BY <1>2 DEF Rests
  <2> SUFFICES ASSUME NEW x \in 1 .. Len(log), log[x] = "prompt", Untouched(x)
               PROVE  x \in escaped' \/ (claude' = "asked" /\ opener = x)
    BY <2>1 DEF IdleStopped, Untouched
  <2>2. x \in escaped \/ (claude = "asked" /\ opener = x) BY DEF IdleStopped
  <2> QED BY <1>1, <1>2, <2>2 DEF Rests
<1>3. CASE log' = log /\ Stops
  <2> SUFFICES ASSUME NEW x \in 1 .. Len(log), log[x] = "prompt", Untouched(x)
               PROVE  x \in escaped'
    BY <1>3 DEF IdleStopped, Untouched
  <2>1. x \in escaped BY <1>3 DEF IdleStopped, Stops
  <2> QED BY <1>1, <2>1
<1>4. ASSUME NEW k \in Kinds, Line(k) PROVE IdleStopped'
  <2>1. Grown(k) BY <1>4 DEF Line
  <2> SUFFICES ASSUME NEW x \in 1 .. Len(log'), log'[x] = "prompt", Untouched(x)'
               PROVE  x \in escaped' \/ (claude' = "asked" /\ opener' = x)
    BY DEF IdleStopped
  <2>2. CASE x = Len(log) + 1
    <3>1. k = "prompt" BY <2>1, <2>2 DEF Grown
    <3>2. Begins(k) BY <1>4, <3>1 DEF Line, Continues, Finishes, StopRecords
    <3> QED BY <2>2, <3>2 DEF Begins
  <2>3. CASE x # Len(log) + 1
    <3>1. x \in 1 .. Len(log) BY <1>1, <2>1, <2>3 DEF Grown
    <3>2. Untouched(x) /\ k \notin Assistant /\ log[x] = "prompt"
      BY <1>1, <2>1, <3>1, UntouchedGrows DEF Grown
    <3>3. x \in escaped \/ (claude = "asked" /\ opener = x) BY <3>1, <3>2 DEF IdleStopped
    <3>4. ASSUME claude = "asked" PROVE FALSE
      BY <1>4, <3>2, <3>4 DEF Line, Begins, Continues, Finishes, Stops, Working, Assistant
    <3> QED BY <1>1, <3>3, <3>4
  <2> QED BY <2>2, <2>3
<1> QED BY <1>2, <1>3, <1>4

LEMMA PromptStoppedKept ==
  ASSUME LogInv, [Next]_vars, IdleStopped, PromptStopped,
         Rests \/ (log' = log /\ Stops) \/ \E k \in Kinds : Line(k)
  PROVE  PromptStopped'
<1>1. log \in Seq(Kinds) /\ Len(log) \in Nat /\ escaped \subseteq escaped'
  BY Grows DEF LogInv, LogTyped
<1>2. CASE UNCHANGED log BY <1>1, <1>2 DEF PromptStopped
<1>3. ASSUME NEW k \in Kinds, Line(k) PROVE PromptStopped'
  <2>1. Grown(k) BY <1>3 DEF Line
  <2> SUFFICES ASSUME NEW x \in 1 .. Len(log'), NEW y \in 1 .. Len(log'), x < y,
                      log'[x] = "prompt", log'[y] = "prompt",
                      \A i \in x .. y : log'[i] \notin Assistant
               PROVE  x \in escaped'
    BY DEF PromptStopped
  <2>2. x \in 1 .. Len(log) /\ log[x] = "prompt" BY <1>1, <2>1 DEF Grown
  <2>3. CASE y = Len(log) + 1
    <3>1. k = "prompt" BY <2>1, <2>3 DEF Grown
    <3>2. Begins(k) BY <1>3, <3>1 DEF Line, Continues, Finishes, StopRecords
    <3>3. Untouched(x)
      <4> SUFFICES ASSUME NEW i \in x + 1 .. Len(log) PROVE log[i] \notin Assistant
        BY DEF Untouched
      <4>1. i \in x .. y /\ i \in 1 .. Len(log) BY <1>1, <2>2, <2>3
      <4> QED BY <2>1, <4>1 DEF Grown
    <3>4. x \in escaped BY <2>2, <3>2, <3>3 DEF IdleStopped, Begins, Working
    <3> QED BY <1>1, <3>4
  <2>4. CASE y # Len(log) + 1
    <3>1. y \in 1 .. Len(log) /\ log[y] = "prompt" BY <1>1, <2>1, <2>4 DEF Grown
    <3>2. \A i \in x .. y : log[i] \notin Assistant
      <4> SUFFICES ASSUME NEW i \in x .. y PROVE log[i] \notin Assistant OBVIOUS
      <4>1. i \in 1 .. Len(log) BY <1>1, <2>2, <3>1
      <4> QED BY <2>1, <4>1 DEF Grown
    <3>3. x \in escaped BY <2>2, <3>1, <3>2 DEF PromptStopped
    <3> QED BY <1>1, <3>3
  <2> QED BY <2>3, <2>4
<1> QED BY <1>2, <1>3 DEF Rests

\* What goes out names prompts of its own.
LEMMA OutgoingNames ==
  ASSUME LogInv, WatchTyped, CutTrue, Marks, watch.st = "post"
  PROVE  NamesTurns(Outgoing, anchor + 1, log)
<1>1. /\ log \in Seq(Kinds) /\ Len(log) \in Nat /\ mirrored \in 0 .. Len(log)
      /\ watch.seen \in 0 .. Len(log) /\ anchor \in Nat /\ anchor <= watch.seen
      /\ watch.cut \in Nat
  BY DEF LogInv, LogTyped, WatchTyped, Marks, WatchKinds
<1> DEFINE f == anchor + 1
           n == Len(Outgoing)
           m == Len(NewTurns)
<1>2. f \in Nat \ {0} /\ watch.seen >= f - 1 BY <1>1
<1>3. NamesTurns(NewTurns, f, log)
  <2>1. NamesTurns(CompletedTurns(SubSeq(log, 1, watch.seen), f), f, log)
    BY <1>1, <1>2, CompletedNames
  <2> QED BY <2>1 DEF NewTurns, Read
<1>4. /\ n \in Nat /\ DOMAIN Outgoing = 1 .. n
      /\ \A j \in 1 .. n : Outgoing[j].anchor \in f .. watch.seen
      /\ \A j, k \in 1 .. n : j < k => Outgoing[j].anchor < Outgoing[k].anchor
      /\ \A j \in 1 .. n : j <= m => Outgoing[j] = NewTurns[j]
      /\ watch.cut = 0 => Outgoing = NewTurns
      /\ watch.cut # 0 => n = m + 1 /\ n # 0 /\ Outgoing[n] = CutTurn
  BY <1>1, OutgoingIs
<1>5. CASE watch.cut = 0 BY <1>3, <1>4, <1>5
<1>6. CASE watch.cut # 0
  <2>1. CutTurn.anchor = watch.cut BY DEF CutTurn
  <2>2. PICK b \in Nat :
          /\ \A x \in CutTurn.prompts :
               x > anchor /\ x \in b + 1 .. watch.cut /\ log[x] = "prompt"
          /\ \A i \in b + 1 .. watch.cut : log[i] \in Skipped \cup {"prompt"}
    BY <1>6, CutNamed
  <2>0. NewTurns \in Seq(Turns) /\ TurnsSound(NewTurns, f, watch.seen, log)
    <3>1. LET c == CompletedTurns(SubSeq(log, 1, watch.seen), f) IN
          c \in Seq(Turns) /\ TurnsSound(c, f, watch.seen, log)
      BY <1>1, <1>2, CompletedSound
    <3> QED BY <3>1 DEF NewTurns, Read
  <2>10. DOMAIN NewTurns = 1 .. m BY <2>0
  <2> DEFINE o == Outgoing
  <2>3. /\ n \in Nat /\ n # 0 /\ m = n - 1 /\ o[n] = CutTurn /\ DOMAIN o = 1 .. n
        /\ \A j \in 1 .. n - 1 : o[j] = NewTurns[j]
        /\ \A j \in 1 .. n : o[j].anchor \in f .. watch.seen
        /\ \A j \in 1 .. n - 1 : o[j].anchor < watch.cut
    <3>1. n = m + 1 /\ n # 0 /\ n \in Nat /\ Outgoing[n] = CutTurn BY <1>4, <1>6
    <3> HIDE DEF n, m
    <3>2. m = n - 1
      <4>1. m \in Nat BY <2>0 DEF m
      <4> QED BY <3>1, <4>1
    <3> QED BY <1>4, <2>1, <3>1, <3>2
  <2>4. \A j \in 1 .. n - 1 : log[NewTurns[j].anchor] \in Ends
    <3> QED BY <2>0, <2>3, <2>10 DEF TurnsSound
  <2> HIDE DEF o, n, m
  <2>5. Named(CutTurn.prompts, f, watch.cut, log)
    <3> SUFFICES ASSUME NEW x \in CutTurn.prompts
                 PROVE  /\ f <= x /\ x <= watch.cut /\ log[x] = "prompt"
                        /\ \A y \in CutTurn.prompts : x < y =>
                             \A i \in x .. y : log[i] \notin Assistant
      BY DEF Named
    <3>1. x > anchor /\ x \in b + 1 .. watch.cut /\ log[x] = "prompt" BY <2>2
    <3>2. ASSUME NEW y \in CutTurn.prompts, NEW i \in x .. y PROVE log[i] \notin Assistant
      <4>1. y \in b + 1 .. watch.cut BY <2>2
      <4>2. i \in b + 1 .. watch.cut BY <1>1, <3>1, <4>1
      <4> QED BY <2>2, <4>2 DEF Skipped, Meta, StopRecords, Assistant
    <3> QED BY <1>1, <3>1, <3>2
  <2>6. ASSUME NEW j \in 1 .. n - 1, NEW x \in CutTurn.prompts PROVE o[j].anchor < x
    <3>1. o[j].anchor \in Nat /\ o[j].anchor < watch.cut /\ log[o[j].anchor] \in Ends
      BY <1>1, <2>3, <2>4
    <3>2. x \in b + 1 .. watch.cut BY <2>2
    <3>3. ~(o[j].anchor \in b + 1 .. watch.cut)
      BY <2>2, <3>1 DEF Ends, Skipped, Meta, StopRecords
    <3> QED BY <1>1, <3>1, <3>2, <3>3
  <2>7. ASSUME NEW j \in 1 .. n PROVE Named(o[j].prompts, f, o[j].anchor, log)
    <3>1. CASE j = n BY <2>1, <2>3, <2>5, <3>1
    <3>2. CASE j # n
      <4>1. j \in 1 .. n - 1 /\ j \in 1 .. m BY <2>3, <3>2
      <4>2. DOMAIN NewTurns = 1 .. m BY <2>10
      <4>3. Named(NewTurns[j].prompts, f, NewTurns[j].anchor, log)
        BY <1>3, <4>1, <4>2 DEF NamesTurns
      <4> QED BY <2>3, <4>1, <4>3
    <3> QED BY <3>1, <3>2
  <2>8. ASSUME NEW j \in 1 .. n, NEW k \in 1 .. n, j < k
        PROVE  \A x \in o[k].prompts : o[j].anchor < x
    <3>1. j \in 1 .. n - 1 BY <2>3, <2>8
    <3>2. CASE k = n BY <2>3, <2>6, <3>1, <3>2
    <3>3. CASE k # n
      <4>1. k \in 1 .. n - 1 /\ k \in 1 .. m /\ j \in 1 .. m BY <2>3, <3>1, <3>3
      <4>2. DOMAIN NewTurns = 1 .. m BY <2>10
      <4>3. \A x \in NewTurns[k].prompts : NewTurns[j].anchor < x
        BY <1>3, <2>8, <4>1, <4>2 DEF NamesTurns
      <4> QED BY <2>3, <3>1, <4>1, <4>3
    <3> QED BY <3>2, <3>3
  <2>9. NamesTurns(o, f, log) BY <2>3, <2>7, <2>8 DEF NamesTurns
  <2> QED BY <2>9 DEF o
<1> QED BY <1>5, <1>6

LEMMA OutgoingTyped ==
  ASSUME LogInv, WatchTyped, CutTrue, Marks, watch.st = "post"
  PROVE  \A j \in 1 .. Len(Outgoing) : Outgoing[j].prompts \subseteq Nat
<1>1. /\ log \in Seq(Kinds) /\ mirrored \in 0 .. Len(log) /\ Len(log) \in Nat
      /\ watch.seen \in 0 .. Len(log) /\ anchor \in Nat /\ anchor <= watch.seen
      /\ watch.cut \in Nat
  BY DEF LogInv, LogTyped, WatchTyped, Marks, WatchKinds
<1>2. NewTurns \in Seq(Turns)
  <2>1. anchor + 1 \in Nat \ {0} /\ watch.seen >= (anchor + 1) - 1 BY <1>1
  <2> QED BY <1>1, <2>1, CompletedSound DEF NewTurns, Read
<1>3. Outgoing \in Seq(Turns)
  <2>1. CASE watch.cut = 0 BY <1>2, <2>1 DEF Outgoing
  <2>2. CASE watch.cut # 0
    <3>1. CutTurn \in Turns BY <2>2, CutNamed
    <3> QED BY <1>2, <2>2, <3>1 DEF Outgoing
  <2> QED BY <2>1, <2>2
<1>4. \A j \in 1 .. Len(Outgoing) : Outgoing[j] \in Turns BY <1>3
<1> QED BY <1>4 DEF Turns

LEMMA NamedKept ==
  ASSUME MarksInv, GotOver, GotNamed, PromptsApart, [Next]_vars
  PROVE  GotNamed' /\ PromptsApart'
<1>1. /\ LogInv /\ WatchTyped /\ CutTrue /\ Marks /\ log \in Seq(Kinds)
      /\ mirrored \in 0 .. Len(log) /\ anchor \in 0 .. mirrored
  BY DEF MarksInv, Marks, LogInv, LogTyped
<1>2. /\ Len(log) \in Nat /\ \A i \in 1 .. Len(log) : log'[i] = log[i] BY <1>1, Grows
<1>3. anchor' \in Nat /\ anchor <= anchor' /\ anchor \in Nat BY <1>1, AnchorGrows
<1>4. ASSUME NEW P \in SUBSET Nat, NEW f \in Nat \ {0}, NEW a \in 0 .. Len(log),
             Named(P, f, a, log)
      PROVE  Named(P, 1, a, log')
  <2>1. a \in Nat /\ \A i \in 1 .. a : log[i] = log'[i] BY <1>2
  <2> QED BY <1>4, <2>1, NamedSame
<1>5. ASSUME NEW t \in got PROVE t.anchor \in 1 .. anchor' /\ Named(t.prompts, 1, t.anchor, log')
  <2>1. t.anchor \in 1 .. anchor /\ Named(t.prompts, 1, t.anchor, log) BY DEF GotNamed
  <2>2. t.prompts \in SUBSET Nat BY DEF GotOver, DeliveredWell, Turns
  <2>3. t.anchor \in 0 .. Len(log) /\ 1 \in Nat \ {0} BY <1>1, <1>2, <2>1
  <2> QED BY <1>3, <1>4, <2>1, <2>2, <2>3
<1>6. CASE WatchPost
  <2> DEFINE o == Outgoing
             n == Len(o)
             f == anchor + 1
  <2>1. /\ watch.st = "post" /\ got' = got \cup {o[i] : i \in DOMAIN o}
        /\ anchor' = LastAnchor(o, anchor) /\ watch.seen \in 0 .. Len(log)
    BY <1>1, <1>2, <1>6 DEF WatchPost, WatchTyped, WatchKinds
  <2>2. /\ n \in Nat /\ DOMAIN o = 1 .. n
        /\ \A j \in 1 .. n : o[j].anchor \in f .. watch.seen
        /\ \A j, k \in 1 .. n : j < k => o[j].anchor < o[k].anchor
        /\ anchor' = IF n = 0 THEN anchor ELSE o[n].anchor
    BY <1>1, <2>1, OutgoingIs
  <2>3. NamesTurns(o, f, log) BY <1>1, <2>1, OutgoingNames
  <2>4. \A j \in 1 .. n : o[j].prompts \subseteq Nat BY <1>1, <2>1, OutgoingTyped
  <2> HIDE DEF o, n
  <2>5. ASSUME NEW j \in 1 .. n
        PROVE  o[j].anchor \in 1 .. anchor' /\ Named(o[j].prompts, 1, o[j].anchor, log')
    <3>1. Named(o[j].prompts, f, o[j].anchor, log) BY <2>2, <2>3 DEF NamesTurns
    <3>2. o[j].anchor \in 0 .. Len(log) /\ f \in Nat \ {0} /\ o[j].prompts \in SUBSET Nat
      BY <1>1, <1>2, <1>3, <2>1, <2>2, <2>4
    <3>3. Named(o[j].prompts, 1, o[j].anchor, log') BY <1>4, <3>1, <3>2
    <3>4. n # 0 /\ n \in 1 .. n /\ anchor' = o[n].anchor BY <2>2
    <3>5. j = n \/ o[j].anchor < o[n].anchor BY <2>2, <3>4
    <3>6. o[j].anchor \in Nat /\ o[j].anchor >= 1 /\ o[n].anchor \in Nat
      BY <1>3, <2>1, <2>2, <3>4
    <3> QED BY <3>3, <3>4, <3>5, <3>6
  <2>6. \A t \in got' : t \in got \/ \E j \in 1 .. n : t = o[j] BY <2>1, <2>2
  <2>7. GotNamed' BY <1>5, <2>5, <2>6 DEF GotNamed
  <2>8. ASSUME NEW t \in got, NEW j \in 1 .. n PROVE t.prompts \cap o[j].prompts = {}
    <3>1. \A x \in t.prompts : x <= t.anchor /\ x \in Nat
      BY DEF GotNamed, Named, GotOver, DeliveredWell, Turns
    <3>2. t.anchor \in 1 .. anchor BY DEF GotNamed
    <3>3. \A x \in o[j].prompts : f <= x BY <2>2, <2>3 DEF NamesTurns, Named
    <3> HIDE <1>4, <1>5, <2>5
    <3> QED BY <1>3, <3>1, <3>2, <3>3
  <2>9. ASSUME NEW j \in 1 .. n, NEW k \in 1 .. n, j < k
        PROVE  o[j].prompts \cap o[k].prompts = {}
    <3>1. \A x \in o[j].prompts : x <= o[j].anchor /\ x \in Nat
      BY <2>2, <2>3, <2>4 DEF NamesTurns, Named
    <3>2. \A x \in o[k].prompts : o[j].anchor < x BY <2>2, <2>3, <2>9 DEF NamesTurns
    <3>3. o[j].anchor \in Int BY <1>3, <2>1, <2>2
    <3> HIDE <1>4, <1>5, <2>5
    <3> QED BY <3>1, <3>2, <3>3
  <2>10. PromptsApart'
    <3> SUFFICES ASSUME NEW t \in got', NEW u \in got', t # u
                 PROVE  t.prompts \cap u.prompts = {}
      BY DEF PromptsApart
    <3>1. CASE t \in got /\ u \in got BY <3>1 DEF PromptsApart
    <3>2. CASE t \in got /\ \E j \in 1 .. n : u = o[j] BY <2>8, <3>2
    <3>3. CASE u \in got /\ \E j \in 1 .. n : t = o[j] BY <2>8, <3>3
    <3>4. CASE (\E j \in 1 .. n : t = o[j]) /\ (\E k \in 1 .. n : u = o[k])
      <4>1. PICK j \in 1 .. n : t = o[j] BY <3>4
      <4>2. PICK k \in 1 .. n : u = o[k] BY <3>4
      <4>3. j < k \/ k < j
        <5>1. j # k BY <4>1, <4>2
        <5> QED BY <2>2, <5>1
      <4>4. CASE j < k BY <2>9, <4>1, <4>2, <4>4
      <4>5. CASE k < j BY <2>9, <4>1, <4>2, <4>5
      <4> QED BY <4>3, <4>4, <4>5
    <3> QED BY <2>6, <3>1, <3>2, <3>3, <3>4
  <2> QED BY <2>7, <2>10
<1>7. CASE ~WatchPost
  <2>1. got' = got
    <3>1. CASE WatchStep \/ Restart \/ Connect
      BY <1>7, <3>1 DEF WatchStep, WatchRead, WatchLook, Restart, Connect
    <3>2. CASE ~WatchStep /\ ~Restart /\ ~Connect BY <3>2, MarksOnly
    <3> QED BY <3>1, <3>2
  <2>2. GotNamed' BY <1>5, <2>1 DEF GotNamed
  <2>3. PromptsApart' BY <2>1 DEF PromptsApart
  <2> QED BY <2>2, <2>3
<1> QED BY <1>6, <1>7

LEMMA NamesInvKept ==
  ASSUME Faults \cap {"undelivered", "lateesc", "slowhook", "silent", "samecopy"} = {},
         NamesInv, [Next]_vars
  PROVE  NamesInv'
<1>1. /\ EndInv /\ MarksInv /\ LogInv /\ GotOver
      /\ IdleStopped /\ PromptStopped /\ GotNamed /\ PromptsApart
  BY DEF NamesInv, EndInv, WrittenInv, MarksInv
<1>2. Rests \/ (log' = log /\ Stops) \/ \E k \in Kinds : Line(k) BY <1>1, StepIs
<1>3. EndInv' BY <1>1, EndInvKept
<1>4. IdleStopped' BY <1>1, <1>2, IdleStoppedKept
<1>5. PromptStopped' BY <1>1, <1>2, PromptStoppedKept
<1>6. GotNamed' /\ PromptsApart' BY <1>1, NamedKept
<1> QED BY <1>3, <1>4, <1>5, <1>6 DEF NamesInv

LEMMA NamesInvInit == Init => NamesInv
<1> SUFFICES ASSUME Init PROVE NamesInv OBVIOUS
<1>1. got = {} BY DEF Init
<1>2. GotNamed /\ PromptsApart BY <1>1 DEF GotNamed, PromptsApart
<1>3. log = <<>> \/ log = <<"prompt", "reply", "duration">> \/ log = <<"local", "prompt", "reply">>
  BY DEF Init, Exchange
<1>4. IdleStopped /\ PromptStopped
  <2>1. CASE log = <<>> BY <2>1 DEF IdleStopped, PromptStopped
  <2>2. CASE log = <<"prompt", "reply", "duration">>
    <3>1. Len(log) = 3 /\ log[1] = "prompt" /\ log[2] = "reply" /\ log[3] = "duration" BY <2>2
    <3>2. \A x \in 1 .. Len(log) : log[x] = "prompt" => x = 1 BY <3>1
    <3>3. ~Untouched(1)
      <4>1. 2 \in 1 + 1 .. Len(log) /\ log[2] \in Assistant BY <3>1 DEF Assistant
      <4> QED BY <4>1 DEF Untouched
    <3> HIDE <2>2
    <3> QED BY <3>2, <3>3 DEF IdleStopped, PromptStopped
  <2>3. CASE log = <<"local", "prompt", "reply">>
    <3>1. Len(log) = 3 /\ log[1] = "local" /\ log[2] = "prompt" /\ log[3] = "reply" BY <2>3
    <3>2. \A x \in 1 .. Len(log) : log[x] = "prompt" => x = 2 BY <3>1
    <3>3. ~Untouched(2)
      <4>1. 3 \in 2 + 1 .. Len(log) /\ log[3] \in Assistant BY <3>1 DEF Assistant
      <4> QED BY <4>1 DEF Untouched
    <3> HIDE <2>3
    <3> QED BY <3>2, <3>3 DEF IdleStopped, PromptStopped
  <2> QED BY <1>3, <2>1, <2>2, <2>3
<1> QED BY <1>2, <1>4, EndInvInit DEF NamesInv

LEMMA NamesInvHolds ==
  ASSUME Faults \cap {"undelivered", "lateesc", "slowhook", "silent", "samecopy"} = {}
  PROVE  Spec => []NamesInv
<1>1. NamesInv /\ [Next]_vars => NamesInv' BY NamesInvKept
<1> QED BY <1>1, NamesInvInit, PTL DEF Spec

(***************************************************************************)
(* A turn names the prompt that opened it, and before that one only        *)
(* prompts that Esc stopped while nothing had come of them; no prompt is   *)
(* named by two turns (Turn.prompts). Under the same conditions.           *)
(***************************************************************************)
THEOREM NamesThePromptsAnswered ==
  ASSUME Faults \cap {"undelivered", "lateesc", "slowhook", "silent", "samecopy"} = {}
  PROVE  Spec => []PromptsTruthful
<1>1. NamesInv => PromptsTruthful
  <2> SUFFICES ASSUME NamesInv, NEW t \in got, t.prompts # {}
               PROVE  /\ t.prompts \ {Max(t.prompts)} \subseteq escaped
                      /\ \/ t.anchor = Max(t.prompts) /\ Max(t.prompts) \in escaped
                         \/ <<t.anchor, Max(t.prompts)>> \in ended \cup went
    BY DEF PromptsTruthful, NamesInv, PromptsApart
  <2>1. t \in Turns /\ EndInv /\ DeliveredWell(t) BY DEF NamesInv, EndInv, GotOver, DeliveredWell
  <2>2. t.prompts \in SUBSET Int BY <2>1 DEF Turns
  <2>3. t.anchor \in 1 .. anchor /\ Named(t.prompts, 1, t.anchor, log)
    BY DEF NamesInv, GotNamed
  <2>4. anchor \in Nat /\ Len(log) \in Nat /\ anchor <= Len(log)
    BY <2>1 DEF EndInv, WrittenInv, MarksInv, Marks, LogInv, LogTyped
  <2>5. PICK l \in t.prompts :
          /\ \A x \in t.prompts : x <= l
          /\ \/ t.anchor = l /\ l \in escaped
             \/ <<t.anchor, l>> \in ended \cup went
    <3>1. CASE t.anchor \in escaped /\ t.anchor \in t.prompts
      <4>1. \A x \in t.prompts : x <= t.anchor BY <2>3 DEF Named
      <4> QED BY <3>1, <4>1
    <3>2. CASE EndsAt(Overs, t.anchor, t.prompts)
      <4>1. PICK e \in Overs : /\ e[1] = t.anchor /\ e[2] \in t.prompts
                               /\ \A x \in t.prompts : x <= e[2]
        BY <3>2 DEF EndsAt
      <4>2. <<t.anchor, e[2]>> \in ended \cup went BY <2>1, <4>1, OversIs
      <4> QED BY <4>1, <4>2
    <3> QED BY <2>1, <3>1, <3>2 DEF DeliveredWell
  <2>6. Max(t.prompts) = l BY <2>2, <2>5, MaxIs
  <2>7. ASSUME NEW x \in t.prompts, x # l PROVE x \in escaped
    <3>1. x \in 1 .. Len(log) /\ l \in 1 .. Len(log) /\ x < l
      BY <2>2, <2>3, <2>4, <2>5, <2>7 DEF Named
    <3>2. log[x] = "prompt" /\ log[l] = "prompt" /\ \A i \in x .. l : log[i] \notin Assistant
      BY <2>3, <3>1 DEF Named
    <3> QED BY <3>1, <3>2 DEF NamesInv, PromptStopped
  <2> QED BY <2>5, <2>6, <2>7
<1> QED BY <1>1, NamesInvHolds, PTL
==============================================================================
