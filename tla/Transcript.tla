----------------------------- MODULE Transcript -----------------------------
(***************************************************************************)
(* What the server reads in Claude Code's transcript                       *)
(* (mcp/src/aidc_mcp/transcript.py): whether Claude works on a turn, which *)
(* turns are complete, which prompt was never answered, what opened the    *)
(* turn that is open.                                                      *)
(*                                                                         *)
(* A transcript is a sequence of kinds of lines, a line is its place in    *)
(* it, and the text of a line is the line itself. Only lines a reader      *)
(* tells apart have a kind of their own: a tool call stands for the call   *)
(* and its result, and lines every reader passes over are left out.        *)
(***************************************************************************)
EXTENDS Integers, Sequences, SequencesExt, FiniteSetsExt

Assistant   == {"work", "reply", "ask", "error"}  \* a tool call, end_turn, an
                                                  \* interactive-input tool, an API error
Typed       == {"prompt", "local"}                \* a prompt, a command Claude Code runs itself
UserPrompts == Typed \cup {"notice"}              \* "notice": promptSource is not "typed"
Meta        == {"feedback", "peer"}               \* a Stop-hook pushback, a session message
StopRecords == {"summary", "duration"}            \* stop_hook_summary, turn_duration
Kinds == Assistant \cup UserPrompts \cup Meta \cup StopRecords \cup {"result", "interrupt"}

\* The last line of one of the kinds; 0 for none.
LastOf(s, kinds) == Max({0} \cup {i \in DOMAIN s : s[i] \in kinds})

HasStopRecords(s) == \E i \in DOMAIN s : s[i] \in StopRecords

(***************************************************************************)
(* Is a turn open? The last line decides, a summary of the Stop hooks set  *)
(* aside: after one, only a pushback, or a message of another session,     *)
(* keeps the turn open.                                                    *)
(***************************************************************************)
InProgress(s) ==
  LET i == LastOf(s, Kinds \ {"summary"})
      summarised == i < Len(s)
  IN  /\ i > 0
      /\ \/ s[i] \in Meta
         \/ ~summarised /\ s[i] \in {"prompt", "notice", "work", "result"}
         \/ ~summarised /\ s[i] = "reply" /\ HasStopRecords(s)

\* The tail of the transcript s ends on a reply whose Stop hooks have not reported, where
\* s shows that they would.
AwaitingHooks(tail, s) ==
  tail # <<>> /\ Last(s) = "reply" /\ HasStopRecords(s)

EndsOnTurnEnd(tail) == tail # <<>> /\ Last(tail) = "duration"

\* The prompt at the tail that Claude never started on; 0 for none.
Unanswered(s) ==
  LET i == LastOf(s, Kinds \ (Meta \cup StopRecords))
  IN  IF i > 0 /\ s[i] = "prompt" THEN i ELSE 0

\* The prompts that come with it: those before it with no reply, a local command or a
\* prompt of Claude Code's own between.
UnansweredPrompts(s) ==
  LET u == Unanswered(s)
      before == LastOf(SubSeq(s, 1, u), Kinds \ (Meta \cup StopRecords \cup {"prompt"}))
  IN  IF u = 0 THEN {} ELSE {i \in before + 1 .. u : s[i] = "prompt"}

(***************************************************************************)
(* The completed turns of lines from .. Len(s), as one pass finds them. A  *)
(* group of lines runs from a prompt to the next; it is a turn when it has *)
(* an anchor: the last line that ended a reply in it.                      *)
(***************************************************************************)
NoGroup == [anchor |-> 0, text |-> {}, pending |-> {}, ok |-> TRUE, cut |-> FALSE,
            prompts |-> {}, saw |-> FALSE]

\* A slip: everything written so far goes out, also what the anchor does not cover.
TurnSoFar(g) == [anchor |-> g.anchor, text |-> g.pending, ok |-> g.ok, cut |-> g.cut,
                 prompts |-> g.prompts]

Turn(g) == [anchor |-> g.anchor, text |-> g.text, ok |-> g.ok, cut |-> g.cut,
            prompts |-> g.prompts]

\* withdraw_terminal, flush, and a line that ends a reply.
Withdraw(g) == [g EXCEPT !.anchor = 0, !.text = {}, !.ok = TRUE]
Flush(p) ==
  [turns |-> IF p.group.anchor = 0 THEN p.turns ELSE Append(p.turns, Turn(p.group)),
   group |-> NoGroup]
EndReply(g, i, ok) == [g EXCEPT !.anchor = i, !.text = g.pending, !.ok = ok]

\* A slip: what was written before the error is dropped.
FailedAlone(g, i) == [g EXCEPT !.saw = TRUE, !.anchor = i, !.text = {i}, !.ok = FALSE]

\* An assistant line adds its text. That of an API error goes with the error alone.
Written(g, i) == [g EXCEPT !.saw = TRUE, !.pending = @ \cup {i}]
Failed(g, i)  == [g EXCEPT !.saw = TRUE, !.anchor = i, !.text = g.pending \cup {i},
                           !.ok = FALSE]

\* An interrupt marker ends a group that has not ended yet and has something in it.
CutOff(g, i) ==
  IF g.anchor = 0 /\ (g.saw \/ g.prompts # {})
    THEN [EndReply(g, i, TRUE) EXCEPT !.cut = TRUE]
    ELSE g

\* A slip: a prompt that was stopped stays with the next turn.
KeepsStopped(p, kind, i) ==
  LET q == IF p.group.saw THEN Flush(p) ELSE p
  IN  IF kind = "prompt" THEN [q EXCEPT !.group.prompts = @ \cup {i}] ELSE q

\* A prompt, or a local command, closes a group that has a reply or work in it.
ReadPrompt(p, kind, i) ==
  LET q == IF p.group.saw THEN Flush(p)
           ELSE IF kind = "notice" THEN [p EXCEPT !.group.prompts = {}] ELSE p
  IN  IF kind = "prompt" THEN [q EXCEPT !.group.prompts = @ \cup {i}] ELSE q

ReadLine(p, kind, i) ==
  LET g == p.group
      Grouped(h) == [p EXCEPT !.group = h]
  IN  IF kind = "feedback"          THEN Grouped(IF g.anchor # 0 THEN Withdraw(g) ELSE g)
      ELSE IF kind = "interrupt"    THEN Flush(Grouped(CutOff(g, i)))
      ELSE IF kind \in UserPrompts THEN ReadPrompt(p, kind, i)
      ELSE IF kind = "work"         THEN Grouped(Written(g, i))
      ELSE IF kind = "reply"        THEN Grouped(EndReply(Written(g, i), i, TRUE))
      ELSE IF kind = "ask"          THEN Flush(Grouped(EndReply(Written(g, i), i, TRUE)))
      ELSE IF kind = "error"        THEN Grouped(Failed(g, i))
      ELSE p

\* What a pass that began at a line has found when it has read line n.
Pass(s, from) ==
  LET p[n \in Nat] == IF n < from THEN [turns |-> <<>>, group |-> NoGroup]
                      ELSE ReadLine(p[n - 1], s[n], n)
  IN  p

CompletedTurns(s, from) == Flush(Pass(s, from)[Len(s)]).turns

\* The anchor of the last of some turns, or what it was.
LastAnchor(turns, was) == IF turns = <<>> THEN was ELSE Last(turns).anchor

(***************************************************************************)
(* The line that opened the turn in progress; 0 when no turn is open or    *)
(* the scan cannot tell.                                                   *)
(***************************************************************************)
\* A slip: every message of another session opens a turn.
AnyMessageOpens(o, kind) == kind \in {"prompt", "notice", "peer"}

OpensTurn(o, kind) ==
  \/ kind \in {"prompt", "notice"}
  \/ kind = "peer" /\ (~o.open \/ (o.saw /\ o.ended))

ReadOpener(o, kind, i) ==
  IF kind \in {"duration", "interrupt", "local"} THEN [o EXCEPT !.open = FALSE]
  ELSE IF kind \in Assistant THEN
    [opener |-> IF o.open THEN o.opener ELSE 0, open |-> TRUE, saw |-> TRUE,
     ended |-> kind # "work"]
  ELSE IF OpensTurn(o, kind) THEN [opener |-> i, open |-> TRUE, saw |-> FALSE, ended |-> FALSE]
  ELSE o

\* What the scan knows when it has read line n.
Scan(s) ==
  LET o[n \in Nat] == IF n = 0 THEN [opener |-> 0, open |-> FALSE, saw |-> FALSE, ended |-> TRUE]
                      ELSE ReadOpener(o[n - 1], s[n], n)
  IN  o

OpenTurn(s) ==
  LET o == Scan(s)[Len(s)] IN IF InProgress(s) /\ o.open THEN o.opener ELSE 0
=============================================================================
