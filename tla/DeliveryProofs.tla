--------------------------- MODULE DeliveryProofs ---------------------------
(***************************************************************************)
(* Proofs about Delivery, for every set of texts and every bound.          *)
(***************************************************************************)
EXTENDS Delivery, TLAPS

\* The frame of a step: the groups of variables, spelt out.
USE DEF vars, transcripts, disk, watcher, counts, others, history, bounds

\* A text is delivered twice by a lost answer, a stop at one or a race of two routes, and by
\* nothing else.
Answered == Faults \cap {"cut", "acklost", "resendrace"} = {}

InPass == wpc \in {"read", "deliver", "post", "answer"}
Known  == wpc \in {"deliver", "post", "answer"}

\* The part of TypeOK that the proof uses.
PassTyped ==
  /\ done \in Nat /\ done <= MaxTurns /\ text \in [Turns -> Texts \cup {Empty}]
  /\ wpc \in {"off", "sleep", "read", "deliver", "post", "answer"}
  /\ todo \subseteq 1..done /\ (InPass => todo # {})
  /\ rs \in {"idle", "post", "answer"} /\ (rs # "idle" => rt \in 1..done)
  /\ got \in [Texts -> Nat]

\* Every set of turns has a first one. An invariant, as its proof is an induction over done.
FirstExists ==
  \A S \in SUBSET (1..done) : S # {} => \E m \in S : \A t \in S : m <= t

\* What is about to be posted has a text that no delivery has been recorded of.
PostFresh   == Posting => Deliverable(Head) /\ text[Head] \notin ledger
ResendFresh == rs # "idle" => Deliverable(rt) /\ text[rt] \notin ledger

\* A session_resend and a pass never have the same text in hand.
NoClash == rs # "idle" /\ Known => \A t \in todo : text[t] # text[rt]

\* The ledger a pass has in memory is up to date for the turns it has left.
FpsCurrent == Known => \A t \in todo : text[t] \in ledger => text[t] \in fps

\* A text that arrived is recorded, or its answer is on its way.
ArrivedKnown ==
  \A x \in Texts :
    /\ got[x] \in {0, 1}
    /\ got[x] = 1 => \/ x \in ledger
                     \/ wpc = "answer" /\ text[Head] = x
                     \/ rs = "answer" /\ text[rt] = x

\* The inductive invariant of AtMostOnce.
OnceInv ==
  /\ PassTyped /\ FirstExists /\ PostFresh /\ ResendFresh /\ NoClash /\ FpsCurrent /\ ArrivedKnown

\* At first there are no turns.
LEMMA OnceInit == Init => OnceInv
<1> SUFFICES ASSUME Init PROVE OnceInv OBVIOUS
<1>1. 1..done = {} BY DEF Init
<1>2. PassTyped BY BoundsAssumption, <1>1 DEF Init, PassTyped, InPass
<1>3. FirstExists BY <1>1 DEF FirstExists
<1> QED BY <1>2, <1>3 DEF Init, OnceInv, PostFresh, ResendFresh, NoClash, FpsCurrent,
           ArrivedKnown, Posting, Known

\* The oldest turn of a pass is one of its turns.
LEMMA HeadIsOldest ==
  ASSUME PassTyped, FirstExists, InPass
  PROVE  Head \in todo /\ Head \in 1..done /\ Head \in Turns /\ \A t \in todo : Head <= t
<1>1. PICK m \in todo : \A t \in todo : m <= t BY DEF PassTyped, FirstExists
<1>2. Head \in todo /\ \A t \in todo : Head <= t BY <1>1 DEF Head, MinOf
<1> QED BY <1>2, BoundsAssumption DEF PassTyped, Turns

\* The steps that touch neither a delivery nor what is known of one.
Quiet == UNCHANGED <<done, text, wpc, todo, fps, rs, rt, ledger, got>>

\* Such a step keeps the invariant.
LEMMA QuietKeepsOnce == ASSUME OnceInv, Quiet PROVE OnceInv'
BY DEF OnceInv, Quiet, PassTyped, FirstExists, PostFresh, ResendFresh, NoClash, FpsCurrent,
       ArrivedKnown, Posting, Known, InPass, Head, Deliverable

\* The transcripts, the polls that find nothing new and the calls in between are quiet.
LEMMA QuietSteps ==
  ASSUME \/ PollUnmarked \/ PollVanished \/ PollTorn \/ PollIdle \/ WatchFinish
         \/ WatchCancelled \/ LineLost \/ FileVanishes \/ LongIdle \/ UNCHANGED vars
  PROVE  Quiet
<1> USE DEF Quiet
<1>1. CASE PollUnmarked BY <1>1 DEF PollUnmarked
<1>2. CASE PollVanished BY <1>2 DEF PollVanished
<1>3. CASE PollTorn BY <1>3 DEF PollTorn
<1>4. CASE PollIdle BY <1>4 DEF PollIdle
<1>5. CASE WatchFinish BY <1>5 DEF WatchFinish
<1>6. CASE WatchCancelled BY <1>6 DEF WatchCancelled
<1>7. CASE LineLost BY <1>7 DEF LineLost
<1>8. CASE FileVanishes BY <1>8 DEF FileVanishes
<1>9. CASE LongIdle BY <1>9 DEF LongIdle
<1>10. CASE UNCHANGED vars BY <1>10
<1> QED BY <1>1, <1>2, <1>3, <1>4, <1>5, <1>6, <1>7, <1>8, <1>9, <1>10

\* The induction step of FirstExists.
LEMMA OneMoreTurn == ASSUME done \in Nat, done' = done + 1, FirstExists PROVE FirstExists'
<1> SUFFICES ASSUME NEW S \in SUBSET (1..done'), S # {}
             PROVE  \E m \in S : \A t \in S : m <= t
  BY DEF FirstExists
<1>1. CASE S \cap (1..done) = {}
  <2>1. ASSUME NEW t \in S PROVE t = done + 1
    <3>1. t \in 1..(done + 1) /\ t \notin 1..done BY <1>1, <2>1
    <3> QED BY <3>1
  <2>2. done + 1 \in S BY <2>1
  <2>3. \A t \in S : done + 1 <= t BY <2>1
  <2> QED BY <2>2, <2>3
<1>2. CASE S \cap (1..done) # {}
  <2>1. PICK m \in S \cap (1..done) : \A t \in S \cap (1..done) : m <= t
    BY <1>2 DEF FirstExists
  <2>2. \A t \in S : m <= t BY <2>1
  <2> QED BY <2>1, <2>2
<1> QED BY <1>1, <1>2

\* A turn that completes is in no pass and no resend yet.
LEMMA TurnCompletesOnce == ASSUME OnceInv, TurnCompletes PROVE OnceInv'
<1> USE DEF TurnCompletes, OnceInv, PassTyped
<1>1. done' = done + 1 /\ done' \in Nat /\ done' <= MaxTurns BY BoundsAssumption
<1>2. \A t \in 1..done : t \in Turns /\ text'[t] = text[t] BY BoundsAssumption DEF Turns
<1>3. text' \in [Turns -> Texts \cup {Empty}] BY DEF Turns
<1>4. PassTyped' BY <1>1, <1>3 DEF InPass
<1>5. FirstExists' BY <1>1, OneMoreTurn
<1>6. Head' = Head BY DEF Head
<1>7. Posting \/ wpc = "answer" => text'[Head] = text[Head]
  BY <1>2, HeadIsOldest DEF Posting, InPass
<1>8. rs # "idle" => text'[rt] = text[rt] BY <1>2
<1>9. PostFresh' BY <1>6, <1>7 DEF PostFresh, Posting, Deliverable
<1>10. ResendFresh' BY <1>8 DEF ResendFresh, Deliverable
<1>11. NoClash' BY <1>2, <1>8 DEF NoClash, Known
<1>12. FpsCurrent' BY <1>2 DEF FpsCurrent, Known
<1>13. ArrivedKnown' BY <1>6, <1>7, <1>8 DEF ArrivedKnown, Posting
<1> QED BY <1>4, <1>5, <1>9, <1>10, <1>11, <1>12, <1>13

\* A pass starts without a turn in hand.
LEMMA PollNewOnce == ASSUME OnceInv, PollNew PROVE OnceInv'
<1>1. todo' \subseteq 1..done /\ todo' # {} /\ wpc' = "read" /\ (wpc = "sleep")
  BY DEF PollNew, Reads, Polls, After, View, Times, OnceInv, PassTyped
<1>2. UNCHANGED <<done, text, rs, rt, ledger, got>> BY DEF PollNew
<1> QED BY <1>1, <1>2 DEF OnceInv, PassTyped, FirstExists, PostFresh, ResendFresh, NoClash,
           FpsCurrent, ArrivedKnown, Posting, Known, InPass, Head, Deliverable

\* What the pass goes on with when the mark has moved past its first turn.
LEMMA AdvanceLeaves ==
  ASSUME OnceInv, InPass, NEW m, NEW known, Advance(m, known)
  PROVE  /\ todo' = todo \ {Head}
         /\ \/ wpc' = "sleep" /\ todo' = {}
            \/ wpc' = "deliver" /\ todo' # {} /\ fps' = known
BY DEF Advance

\* The turn is passed over, stopped, or posted with a text that is not recorded.
LEMMA TurnBeginOnce == ASSUME OnceInv, Answered, TurnBegin PROVE OnceInv'
<1> DEFINE known == IF wpc = "read" THEN ledger ELSE fps
<1>1. InPass /\ wpc \in {"read", "deliver"} BY DEF TurnBegin, InPass
<1>2. Head \in todo /\ Head \in 1..done BY <1>1, HeadIsOldest DEF OnceInv
<1>3. \A t \in todo : text[t] \in ledger => text[t] \in known
  BY <1>1 DEF OnceInv, FpsCurrent, Known
<1>4. rs # "idle" => \A t \in todo : text[t] # text[rt]
  BY DEF TurnBegin, NoRace, Answered
<1>5. UNCHANGED <<done, text, rs, rt, ledger, got>> BY DEF TurnBegin
<1>6. \/ /\ todo' = todo \ {Head}
         /\ \/ wpc' = "sleep" /\ todo' = {}
            \/ wpc' = "deliver" /\ todo' # {} /\ fps' = known
      \/ /\ wpc' = "post" /\ todo' = todo /\ fps' = known
         /\ Deliverable(Head) /\ ~Has(Head, known)
  BY DEF TurnBegin, Advance
<1>7. PassTyped' BY <1>1, <1>2, <1>5, <1>6 DEF OnceInv, PassTyped, InPass
<1>8. FirstExists' BY <1>5 DEF OnceInv, FirstExists
<1>9. PostFresh'
  BY <1>2, <1>3, <1>5, <1>6 DEF PostFresh, Posting, Deliverable, Has, Head
<1>10. ResendFresh' /\ NoClash' /\ FpsCurrent'
  BY <1>3, <1>4, <1>5, <1>6 DEF OnceInv, ResendFresh, NoClash, FpsCurrent, Known, Deliverable
<1>11. ArrivedKnown' BY <1>1, <1>5 DEF OnceInv, ArrivedKnown
<1> QED BY <1>7, <1>8, <1>9, <1>10, <1>11 DEF OnceInv

\* A POST that arrives is the first with its text.
LEMMA PostArrivesOnce == ASSUME OnceInv, PostArrives PROVE OnceInv'
<1>1. wpc = "post" /\ wpc' = "answer" /\ InPass /\ Posting /\ Known
  BY DEF PostArrives, InPass, Posting, Known
<1>2. Head \in todo /\ Head \in Turns BY <1>1, HeadIsOldest DEF OnceInv
<1>3. UNCHANGED <<done, text, todo, fps, rs, rt, ledger>> BY DEF PostArrives
<1>4. Head' = Head BY <1>3 DEF Head
<1>5. text[Head] \in Texts \ ledger
  BY <1>1, <1>2 DEF OnceInv, PostFresh, Deliverable, PassTyped
<1>6. got[text[Head]] = 0
  BY <1>1, <1>2, <1>5 DEF OnceInv, ArrivedKnown, NoClash
<1>7. got' = [got EXCEPT ![text[Head]] = 1] BY <1>6 DEF PostArrives, Receive
<1>8. PassTyped' BY <1>1, <1>3, <1>7 DEF OnceInv, PassTyped, InPass
<1>9. ArrivedKnown'
  BY <1>1, <1>3, <1>4, <1>5, <1>7 DEF OnceInv, ArrivedKnown, PassTyped
<1>10. PostFresh' BY <1>1, <1>3, <1>4 DEF OnceInv, PostFresh, Deliverable
<1> QED BY <1>1, <1>3, <1>8, <1>9, <1>10
        DEF OnceInv, FirstExists, ResendFresh, NoClash, FpsCurrent, Known, Deliverable

\* An answer to a POST, or the end of its retries.
LEMMA PostOverOnce == ASSUME OnceInv, PostAnswered \/ PostGivenUp PROVE OnceInv'
<1>1. InPass /\ Posting /\ Known BY DEF PostAnswered, PostGivenUp, InPass, Posting, Known
<1>2. Head \in todo /\ Head \in 1..done BY <1>1, HeadIsOldest DEF OnceInv
<1>3. UNCHANGED <<done, text, rs, rt, got>> BY DEF PostAnswered, PostGivenUp
<1>4. /\ todo' = todo \ {Head}
      /\ wpc' \in {"sleep", "deliver"} /\ (wpc' = "deliver" => todo' # {})
  BY DEF PostAnswered, PostGivenUp, Advance
<1>5. \/ ledger' = ledger \cup {text[Head]}
         /\ (wpc' = "deliver" => fps' = fps \cup {text[Head]})
      \/ ledger' = ledger /\ wpc = "post" /\ (wpc' = "deliver" => fps' = fps)
  BY DEF PostAnswered, PostGivenUp, Advance
<1>6. PassTyped' BY <1>2, <1>3, <1>4 DEF OnceInv, PassTyped, InPass
<1>7. ArrivedKnown' BY <1>3, <1>4, <1>5 DEF OnceInv, ArrivedKnown
<1>8. FpsCurrent' BY <1>1, <1>3, <1>4, <1>5 DEF OnceInv, FpsCurrent, Known
<1>9. ResendFresh' /\ NoClash'
  BY <1>1, <1>2, <1>3, <1>4, <1>5 DEF OnceInv, ResendFresh, NoClash, Known, Deliverable
<1> QED BY <1>3, <1>4, <1>6, <1>7, <1>8, <1>9 DEF OnceInv, FirstExists, PostFresh, Posting

\* A session_resend takes a text that is neither recorded nor in a pass.
LEMMA ResendOnce == ASSUME OnceInv, Answered, Resend PROVE OnceInv'
<1>1. CASE ResendStart
  <2>1. /\ rs' = "post" /\ rt' \in 1..done /\ Deliverable(rt') /\ text[rt'] \notin ledger
        /\ \A u \in todo : text[u] # text[rt']
        /\ rs = "idle"
    BY <1>1 DEF ResendStart, Lines, View, Times, Answered
  <2>2. UNCHANGED <<done, text, wpc, todo, fps, ledger, got>> BY <1>1 DEF ResendStart
  <2> QED BY <2>1, <2>2 DEF OnceInv, PassTyped, FirstExists, PostFresh, ResendFresh, NoClash,
             FpsCurrent, ArrivedKnown, Posting, Known, InPass, Head, Deliverable
<1>2. CASE ResendArrives
  <2>1. rs = "post" /\ rs' = "answer" BY <1>2 DEF ResendArrives
  <2>2. UNCHANGED <<done, text, wpc, todo, fps, rt, ledger>> BY <1>2 DEF ResendArrives
  <2>3. rt \in Turns BY <2>1, BoundsAssumption DEF OnceInv, PassTyped, Turns
  <2>4. text[rt] \in Texts \ ledger
    BY <2>1, <2>3 DEF OnceInv, ResendFresh, Deliverable, PassTyped
  <2>5. ~(wpc = "answer" /\ text[Head] = text[rt])
    BY <2>1, HeadIsOldest DEF OnceInv, NoClash, Known, InPass
  <2>6. got[text[rt]] = 0 BY <2>1, <2>4, <2>5 DEF OnceInv, ArrivedKnown
  <2>7. got' = [got EXCEPT ![text[rt]] = 1] BY <1>2, <2>6 DEF ResendArrives, Receive
  <2>8. PassTyped' BY <2>1, <2>2, <2>7 DEF OnceInv, PassTyped, InPass
  <2>9. Head' = Head BY <2>2 DEF Head
  <2>10. ArrivedKnown'
    BY <2>1, <2>2, <2>4, <2>7, <2>9 DEF OnceInv, ArrivedKnown, PassTyped
  <2>11. PostFresh' BY <2>2, <2>9 DEF OnceInv, PostFresh, Posting, Deliverable
  <2> QED BY <2>1, <2>2, <2>8, <2>10, <2>11
          DEF OnceInv, FirstExists, ResendFresh, NoClash, FpsCurrent, Known, Deliverable
<1>3. CASE ResendAnswered \/ ResendFails
  <2>1. rs # "idle" /\ rs' = "idle" BY <1>3 DEF ResendAnswered, ResendFails
  <2>2. UNCHANGED <<done, text, wpc, todo, fps, got>> BY <1>3 DEF ResendAnswered, ResendFails
  <2>3. \/ ledger' = ledger \cup {text[rt]}
        \/ ledger' = ledger /\ rs = "post"
    BY <1>3 DEF ResendAnswered, ResendFails
  <2>4. Head' = Head BY <2>2 DEF Head
  <2>5. Posting => Known /\ Head \in todo BY HeadIsOldest DEF OnceInv, Posting, Known, InPass
  <2>6. PostFresh'
    BY <2>1, <2>2, <2>3, <2>4, <2>5 DEF OnceInv, PostFresh, NoClash, Posting, Deliverable
  <2>7. FpsCurrent' BY <2>1, <2>2, <2>3 DEF OnceInv, FpsCurrent, NoClash, Known
  <2>8. ArrivedKnown' BY <2>1, <2>2, <2>3, <2>4 DEF OnceInv, ArrivedKnown
  <2> QED BY <2>1, <2>2, <2>6, <2>7, <2>8
          DEF OnceInv, PassTyped, InPass, FirstExists, ResendFresh, NoClash
<1> QED BY <1>1, <1>2, <1>3 DEF Resend

\* The watcher is stopped or replaced, or the server restarted, with no answer on its way.
LEMMA StoppedOnce ==
  ASSUME OnceInv, Answered, WatchStart \/ Unwatch \/ Restart
  PROVE  OnceInv'
<1>1. wpc # "answer" /\ rs # "answer"
  BY DEF WatchStart, Unwatch, Restart, NotCut, Answered
<1>2. UNCHANGED <<done, text, ledger, got>>
  BY <1>1 DEF WatchStart, Unwatch, Restart
<1>3. wpc' \in {"off", "sleep"} /\ todo' = {} /\ (rs' = "idle" \/ UNCHANGED <<rs, rt>>)
  BY DEF WatchStart, Unwatch, Restart, StopWatcher
<1> QED BY <1>1, <1>2, <1>3 DEF OnceInv, PassTyped, FirstExists, PostFresh, ResendFresh, NoClash,
           FpsCurrent, ArrivedKnown, Posting, Known, InPass, Deliverable

\* OnceInv is inductive.
LEMMA OnceStep == ASSUME OnceInv, Answered, [Next]_vars PROVE OnceInv'
<1>1. CASE \/ PollUnmarked \/ PollVanished \/ PollTorn \/ PollIdle \/ WatchFinish
           \/ WatchCancelled \/ LineLost \/ FileVanishes \/ LongIdle \/ UNCHANGED vars
  BY <1>1, QuietSteps, QuietKeepsOnce
<1>2. CASE AnswerLost BY <1>2 DEF AnswerLost, Answered
<1> QED BY <1>1, <1>2, TurnCompletesOnce, PollNewOnce, TurnBeginOnce, PostArrivesOnce,
           PostOverOnce, ResendOnce, StoppedOnce DEF Next, Poll, Post

\* "The same message content is delivered to a conversation at most once, ever": however turns,
\* polls, resends, reconnects and restarts interleave, whatever transcripts do, and however
\* torn reads and re-anchoring send the watcher back over turns it has delivered. Assumed is
\* that no answer is lost or cut off and no resend races the watcher for a text (Answered).
THEOREM DeliveredAtMostOnce == ASSUME Answered PROVE Spec => []AtMostOnce
<1>1. OnceInv => AtMostOnce BY DEF OnceInv, ArrivedKnown, AtMostOnce
<1> QED BY <1>1, OnceInit, OnceStep, PTL DEF Spec

-----------------------------------------------------------------------------
(* ForwardOnly.                                                            *)

\* What makes a connect deliver a backlog is left out: a poll that overtakes the
\* session_watch it belongs to, and a baseline, or the search for a lost anchor, that reads
\* half a transcript.
Prompt == Faults \cap {"slowdocker", "tornread"} = {}

Mark == [file : Nat, last : Nat, upd : Nat, base : Int, run : Nat, all : Nat, old : BOOLEAN]

\* The part of TypeOK that the proof uses, with what a mark says of its file.
MarkTyped ==
  /\ done \in Nat /\ done <= MaxTurns /\ src \in [Turns -> Nat] /\ files \subseteq Files
  /\ (files = {} => done = 0)
  /\ mark \in Mark /\ wm \in Mark
  /\ todo \subseteq 1..done /\ (InPass => todo # {})
  /\ wpc \in {"off", "sleep", "read", "deliver", "post", "answer"}

\* Every set of turns has a last one.
LastExists ==
  \A S \in SUBSET (1..done) : S # {} => \E m \in S : \A t \in S : t <= m

\* The anchor is a line of the mark's own file, written no later than the mark.
AnchorInFile ==
  /\ mark.last <= mark.upd /\ mark.upd <= done
  /\ mark.last # 0 => mark.last \in 1..done /\ src[mark.last] = mark.file

\* A connect leaves its time in the mark, or was made before the first turn.
Connected ==
  /\ since \in 0..done /\ mark.base \in -1..done
  /\ (mark.base = NoMark => since = 0) /\ (mark.base # NoMark => since <= mark.base)
  /\ (mark.file = 0 => mark.base <= 0 /\ mark.last = 0)

\* Behind an anchor that can be found there is nothing from before the connect.
NothingOlder ==
  mark.file # 0 /\ Resolves(Lines(mark.file), mark.last) =>
    \A t \in Lines(mark.file) : t > mark.last => t > mark.base

\* Nor in a pass, which has the mark's file in hand.
PassForward ==
  InPass =>
    /\ wm.file = mark.file /\ wm.base = mark.base /\ mark.file # 0
    /\ \A t \in todo : t > mark.base /\ src[t] = mark.file

\* No pass runs while a session_watch waits for docker.
WatchWaits == call = "inspect" => ~InPass

\* The inductive invariant of ForwardOnly.
ForwardInv ==
  /\ MarkTyped /\ FirstExists /\ LastExists /\ AnchorInFile /\ Connected /\ NothingOlder
  /\ PassForward /\ WatchWaits

\* At first there is no turn and no mark.
LEMMA ForwardInit == Init => ForwardInv
<1> SUFFICES ASSUME Init PROVE ForwardInv OBVIOUS
<1>1. 1..done = {} BY DEF Init
<1>2. Blank \in Mark BY DEF Blank, Mark, NoMark
<1>3. MarkTyped BY <1>1, <1>2, BoundsAssumption DEF Init, MarkTyped, InPass
<1>4. FirstExists /\ LastExists BY <1>1 DEF FirstExists, LastExists
<1>5. AnchorInFile /\ Connected /\ NothingOlder
  BY DEF Init, AnchorInFile, Connected, NothingOlder, Blank, NoMark
<1> QED BY <1>3, <1>4, <1>5 DEF Init, ForwardInv, PassForward, WatchWaits, InPass

\* MaxOf finds the last of some turns and 0.
LEMMA MaxOfTurns ==
  ASSUME done \in Nat, LastExists, NEW S \in SUBSET (1..done)
  PROVE  /\ MaxOf(S \cup {0}) \in S \cup {0} /\ \A t \in S : t <= MaxOf(S \cup {0})
         /\ S # {} => MaxOf(S) \in S
<1>1. CASE S = {}
  <2>1. S \cup {0} = {0} BY <1>1
  <2> QED BY <1>1, <2>1 DEF MaxOf
<1>2. CASE S # {}
  <2>1. PICK m \in S : \A t \in S : t <= m BY <1>2 DEF LastExists
  <2>2. m \in S \cup {0} /\ \A t \in S \cup {0} : t <= m BY <2>1
  <2>3. MaxOf(S \cup {0}) \in S \cup {0} /\ \A t \in S \cup {0} : t <= MaxOf(S \cup {0})
    BY <2>2 DEF MaxOf
  <2>4. MaxOf(S) \in S BY <2>1 DEF MaxOf
  <2> QED BY <2>3, <2>4
<1> QED BY <1>1, <1>2

\* resume_anchor_on_new_transcript: what is behind the anchor was written after seen.
LEMMA AnchorBounds ==
  ASSUME done \in Nat, LastExists, NEW S \in SUBSET (1..done), NEW seen \in Int
  PROVE  /\ Anchor(S, seen) \in S \cup {0}
         /\ \A t \in S : t > Anchor(S, seen) => t > seen
<1> DEFINE T == {t \in S : t <= seen}
<1>1. T \in SUBSET (1..done) OBVIOUS
<1>2. Anchor(S, seen) \in T \cup {0} /\ \A t \in T : t <= Anchor(S, seen)
  BY <1>1, MaxOfTurns DEF Anchor
<1>3. ASSUME NEW t \in S, t > Anchor(S, seen) PROVE t > seen
  <2>1. \A u \in T : u <= Anchor(S, seen) BY <1>2
  <2>2. Anchor(S, seen) \in Int BY <1>1, <1>2
  <2> HIDE DEF T
  <2>3. t \in Int /\ t \notin T BY <1>3, <2>1, <2>2
  <2> USE DEF T
  <2> QED BY <2>3
<1> QED BY <1>2, <1>3

\* seen_until is never before the connect the mark knows of.
LEMMA SeenBounds ==
  ASSUME done \in Nat, LastExists, NEW S \in SUBSET (1..done), NEW m \in Mark
  PROVE  /\ SeenUntil(S, m) \in Int /\ SeenUntil(S, m) >= m.base
         /\ S = {} => SeenUntil(S, m) >= m.upd
<1>1. S # {} => MaxOf(S) \in 1..done BY MaxOfTurns
<1> QED BY <1>1 DEF SeenUntil, Latest, Mark

\* A step that keeps what a mark says of its file keeps NothingOlder and PassForward.
LEMMA MarkKept ==
  ASSUME ForwardInv, MarkTyped', UNCHANGED <<done, src, since>>, lost \subseteq lost',
         mark'.file = mark.file, mark'.last = mark.last, mark'.base = mark.base,
         mark'.upd \in mark.upd..done
  PROVE  FirstExists' /\ LastExists' /\ AnchorInFile' /\ Connected' /\ NothingOlder'
<1>1. FirstExists' /\ LastExists' BY DEF ForwardInv, FirstExists, LastExists
<1>2. AnchorInFile' BY DEF ForwardInv, MarkTyped, Mark, AnchorInFile
<1>3. Connected' BY DEF ForwardInv, Connected
<1>4. NothingOlder'
  BY DEF ForwardInv, NothingOlder, Resolves, Lines, View, Times
<1> QED BY <1>1, <1>2, <1>3, <1>4

\* A mark that follows to file f, with an anchor in it that nothing of before the connect
\* is behind.
LEMMA MarkMoved ==
  ASSUME ForwardInv, MarkTyped', UNCHANGED <<done, src, lost, since>>,
         NEW f \in Files, mark'.file = f, mark'.base = mark.base, mark.base # NoMark,
         mark'.upd = done, mark'.last \in Lines(f) \cup {0},
         \A t \in Lines(f) : t > mark'.last => t > mark.base
  PROVE  FirstExists' /\ LastExists' /\ AnchorInFile' /\ Connected' /\ NothingOlder'
<1>1. FirstExists' /\ LastExists' BY DEF ForwardInv, FirstExists, LastExists
<1>2. f # 0 BY DEF Files
<1>3. AnchorInFile' BY DEF ForwardInv, MarkTyped, AnchorInFile, Lines, View, Times
<1>4. Connected' BY <1>2 DEF ForwardInv, Connected
<1>5. NothingOlder' BY DEF NothingOlder, Lines, View, Times
<1> QED BY <1>1, <1>3, <1>4, <1>5

\* The anchor of resume_anchor_on_new_transcript is such an anchor, if it was found with all
\* of the file's lines and with a time that is not before the connect.
LEMMA AnchorForward ==
  ASSUME ForwardInv, mark.base # NoMark, NEW f, NEW S \in SUBSET (1..done), NEW m \in Mark,
         m.base = mark.base
  PROVE  /\ Anchor(Lines(f), SeenUntil(S, m)) \in Lines(f) \cup {0}
         /\ Anchor(Lines(f), SeenUntil(S, m)) \in 0..done
         /\ \A t \in Lines(f) : t > Anchor(Lines(f), SeenUntil(S, m)) => t > mark.base
<1> DEFINE seen == SeenUntil(S, m)
<1>1. done \in Nat /\ LastExists BY DEF ForwardInv, MarkTyped
<1>2. seen \in Int /\ seen >= m.base BY <1>1, SeenBounds
<1>3. seen >= mark.base /\ mark.base \in Int BY <1>2 DEF ForwardInv, MarkTyped, Mark
<1>4. Lines(f) \in SUBSET (1..done) BY DEF Lines, View, Times
<1> HIDE DEF seen
<1>5. /\ Anchor(Lines(f), seen) \in Lines(f) \cup {0}
      /\ \A t \in Lines(f) : t > Anchor(Lines(f), seen) => t > seen
  BY <1>1, <1>2, <1>4, AnchorBounds
<1>6. \A t \in Lines(f) : t > seen => t > mark.base BY <1>1, <1>2, <1>3, <1>4
<1>7. Anchor(Lines(f), seen) \in 0..done BY <1>1, <1>4, <1>5
<1>8. \A t \in Lines(f) : t > Anchor(Lines(f), seen) => t > mark.base BY <1>5, <1>6
<1> USE DEF seen
<1> QED BY <1>5, <1>7, <1>8

\* What Reads and Pinned say of the file a poll reads.
LEMMA PinnedIs ==
  ASSUME ForwardInv, NEW f, NEW k \in 0..done, Reads(f, k)
  PROVE  /\ f \in Files /\ mark.base # NoMark /\ mark.file \in {0, f} /\ wpc = "sleep"
         /\ Pinned(f) \in Mark /\ Pinned(f).file = f /\ Pinned(f).last = mark.last
         /\ Pinned(f).base = mark.base /\ Pinned(f).upd \in mark.upd..done
<1>1. mark \in Mark /\ done \in Nat /\ files \subseteq Files /\ mark.upd <= done
  BY DEF ForwardInv, MarkTyped, AnchorInFile
<1>2. /\ f \in files /\ mark.base # NoMark /\ mark.file \in {0, f} /\ wpc = "sleep"
  BY DEF Reads, Polls, Active
<1>3. f \in Files /\ f \in Nat BY <1>1, <1>2 DEF Files
<1>4. CASE mark.file = 0
  <2>1. Pinned(f) = Stamp([mark EXCEPT !.file = f]) BY <1>4 DEF Pinned
  <2>2. mark.last \in Nat /\ mark.upd \in Nat BY <1>1 DEF Mark
  <2>3. /\ Pinned(f) \in Mark /\ Pinned(f).file = f /\ Pinned(f).last = mark.last
        /\ Pinned(f).upd = done /\ Pinned(f).base = mark.base
    BY <1>1, <1>3, <2>1, <2>2 DEF Stamp, Mark
  <2>4. done \in mark.upd..done BY <1>1, <2>2
  <2> QED BY <1>2, <1>3, <2>3, <2>4
<1>5. CASE mark.file # 0 BY <1>1, <1>2, <1>3, <1>5 DEF Pinned, Mark
<1> QED BY <1>4, <1>5

\* A poll that only pins the first transcript there is keeps the anchor's promise.
LEMMA PinnedForward ==
  ASSUME ForwardInv, MarkTyped', UNCHANGED <<done, src, lost, since>>,
         NEW f, NEW k \in 0..done, Reads(f, k), mark' = Pinned(f)
  PROVE  FirstExists' /\ LastExists' /\ AnchorInFile' /\ Connected' /\ NothingOlder'
<1>1. /\ f \in Files /\ mark.base # NoMark /\ mark.file \in {0, f}
      /\ mark'.file = f /\ mark'.last = mark.last /\ mark'.base = mark.base
      /\ mark'.upd \in mark.upd..done
  BY PinnedIs
<1>2. CASE mark.file = f BY <1>1, <1>2, MarkKept
<1>3. CASE mark.file = 0
  <2>1. mark.base <= 0 /\ mark.base \in Int /\ mark.last = 0
    BY <1>3 DEF ForwardInv, Connected, MarkTyped, Mark
  <2>2. mark' = Stamp([mark EXCEPT !.file = f]) BY <1>3 DEF Pinned
  <2>3. mark \in Mark BY DEF ForwardInv, MarkTyped
  <2>4. mark'.upd = done BY <2>2, <2>3 DEF Stamp, Mark
  <2>5. \A t \in Lines(f) : t > mark.base BY <2>1 DEF Lines, View, Times
  <2> QED BY <1>1, <2>1, <2>4, <2>5, MarkMoved
<1> QED BY <1>1, <1>2, <1>3

\* No anchor is searched for in half a file: when a line the mark knows is missing from a
\* read, that read has nothing newer than the mark.
LEMMA LeftIsWhole ==
  ASSUME ForwardInv, Prompt, NEW f, NEW k \in 0..done, Reads(f, k),
         ~Resolves(View(f, k), Pinned(f).last), Left(View(f, k), Pinned(f)) # {}
  PROVE  View(f, k) = Lines(f)
<1>1. /\ mark.file \in {0, f} /\ Pinned(f) \in Mark /\ Pinned(f).last = mark.last
      /\ Pinned(f).upd \in mark.upd..done
  BY PinnedIs
<1>2. /\ done \in Nat /\ LastExists /\ mark.last <= mark.upd
      /\ (mark.last # 0 => mark.last \in 1..done /\ src[mark.last] = mark.file)
      /\ (mark.file = 0 => mark.last = 0) /\ mark \in Mark
  BY DEF ForwardInv, MarkTyped, AnchorInFile, Connected
<1>3. CASE k = done BY <1>3 DEF Lines
<1>4. CASE k # done
  <2>1. mark.last \notin lost \cup {0}
    BY <1>4 DEF Reads, Whole, Prompt
  <2>2. mark.last \in 1..done /\ src[mark.last] = f BY <1>1, <1>2, <2>1
  <2>3. mark.last \notin View(f, k) BY <1>1 DEF Resolves
  <2>4. mark.last > k BY <1>2, <2>1, <2>2, <2>3 DEF View, Times
  <2> DEFINE seen == SeenUntil({}, Pinned(f))
  <2>5. seen \in Int /\ seen >= Pinned(f).upd BY <1>1, <1>2, SeenBounds
  <2>6. View(f, k) \in SUBSET (1..done) /\ \A t \in View(f, k) : t <= k
    BY <1>2 DEF View, Times
  <2> HIDE DEF seen
  <2>7. \A t \in View(f, k) : t > Anchor(View(f, k), seen) => t > seen
    BY <1>2, <2>5, <2>6, AnchorBounds
  <2> USE DEF seen
  <2>8. PICK t \in View(f, k) : t > Anchor(View(f, k), seen) BY DEF Left, After
  <2>9. t > seen /\ t <= k /\ t \in Int BY <2>6, <2>7, <2>8
  <2> HIDE DEF seen
  <2> QED BY <1>1, <1>2, <2>4, <2>5, <2>9 DEF Mark
<1> QED BY <1>3, <1>4

\* Polls that only move the mark: the rest of ForwardInv does not depend on it.
LEMMA NoPassForward ==
  ASSUME ForwardInv, MarkTyped', wpc = "sleep", UNCHANGED <<wpc, call>>,
         FirstExists' /\ LastExists' /\ AnchorInFile' /\ Connected' /\ NothingOlder'
  PROVE  ForwardInv'
BY DEF ForwardInv, PassForward, WatchWaits, InPass

\* A step that writes a well-formed mark, and nothing else, keeps the types.
LEMMA MarkTypeKept ==
  ASSUME ForwardInv, mark' \in Mark, UNCHANGED <<done, src, files, wm, todo, wpc>>
  PROVE  MarkTyped'
BY DEF ForwardInv, MarkTyped, InPass

\* _drain_once_body's three ways out when the anchor is missing: wait, re-anchor, follow.
LEMMA PollTornForward == ASSUME ForwardInv, Prompt, PollTorn PROVE ForwardInv'
<1>1. PICK f \in files, k \in 0..done :
        LET m == Pinned(f)
            view == View(f, k) IN
        /\ Reads(f, k) /\ ~Resolves(view, m.last)
        /\ \/ mark' = m
           \/ /\ Left(view, m) # {}
              /\ mark' = Stamp([m EXCEPT !.last = Anchor(view, SeenUntil({}, m))])
           \/ \E g \in files :
                mark' = Stamp([m EXCEPT !.file = g,
                                 !.last = Anchor(Lines(g), SeenUntil(Times(f, k), m))])
  BY DEF PollTorn
<1>2. UNCHANGED <<done, src, lost, since, files, wm, todo, wpc, call>> BY DEF PollTorn
<1>3. /\ f \in Files /\ mark.base # NoMark /\ mark.file \in {0, f} /\ wpc = "sleep"
      /\ Pinned(f) \in Mark /\ Pinned(f).file = f /\ Pinned(f).last = mark.last
      /\ Pinned(f).base = mark.base
  BY <1>1, PinnedIs
<1>4. done \in Nat /\ mark \in Mark /\ files \subseteq Files BY DEF ForwardInv, MarkTyped
<1>5. CASE mark' = Pinned(f)
  BY <1>1, <1>2, <1>3, <1>5, MarkTypeKept, PinnedForward, NoPassForward
<1>6. CASE /\ Left(View(f, k), Pinned(f)) # {}
           /\ mark' = Stamp([Pinned(f) EXCEPT
                              !.last = Anchor(View(f, k), SeenUntil({}, Pinned(f)))])
  <2>1. View(f, k) = Lines(f) BY <1>1, <1>6, LeftIsWhole
  <2> DEFINE a == Anchor(Lines(f), SeenUntil({}, Pinned(f)))
  <2>2. a \in Lines(f) \cup {0} /\ a \in 0..done /\ \A t \in Lines(f) : t > a => t > mark.base
    BY <1>3, AnchorForward
  <2>3. mark' = Stamp([Pinned(f) EXCEPT !.last = a]) BY <1>6, <2>1
  <2> HIDE DEF a
  <2>4. /\ mark' \in Mark /\ mark'.file = f /\ mark'.last = a /\ mark'.base = mark.base
        /\ mark'.upd = done
    <3>1. f \in Nat /\ a \in Nat BY <1>3, <1>4, <2>2 DEF Files
    <3> DEFINE m == Pinned(f)
    <3>2. m \in Mark /\ m.file = f /\ m.base = mark.base /\ mark' = Stamp([m EXCEPT !.last = a])
      BY <1>3, <2>3
    <3> HIDE DEF m
    <3> QED BY <1>4, <3>1, <3>2 DEF Stamp, Mark
  <2> QED BY <1>2, <1>3, <2>2, <2>4, MarkTypeKept, MarkMoved, NoPassForward
<1>7. ASSUME NEW g \in files,
             mark' = Stamp([Pinned(f) EXCEPT !.file = g,
                              !.last = Anchor(Lines(g), SeenUntil(Times(f, k), Pinned(f)))])
      PROVE  ForwardInv'
  <2> DEFINE a == Anchor(Lines(g), SeenUntil(Times(f, k), Pinned(f)))
  <2>1. Times(f, k) \in SUBSET (1..done) BY <1>4 DEF Times
  <2>2. a \in Lines(g) \cup {0} /\ a \in 0..done /\ \A t \in Lines(g) : t > a => t > mark.base
    BY <1>3, <2>1, AnchorForward
  <2>3. mark' = Stamp([Pinned(f) EXCEPT !.file = g, !.last = a]) BY <1>7
  <2> HIDE DEF a
  <2>4. g \in Files /\ g \in Nat BY <1>4 DEF Files
  <2>5. /\ mark' \in Mark /\ mark'.file = g /\ mark'.last = a /\ mark'.base = mark.base
        /\ mark'.upd = done
    <3>1. a \in Nat BY <1>4, <2>2
    <3> DEFINE m == Pinned(f)
    <3>2. /\ m \in Mark /\ m.base = mark.base
          /\ mark' = Stamp([m EXCEPT !.file = g, !.last = a])
      BY <1>3, <2>3
    <3> HIDE DEF m
    <3> QED BY <1>4, <2>4, <3>1, <3>2 DEF Stamp, Mark
  <2> QED BY <1>2, <1>3, <2>2, <2>4, <2>5, MarkTypeKept, MarkMoved, NoPassForward
<1> QED BY <1>1, <1>5, <1>6, <1>7

\* The pinned transcript is gone, and the mark follows to another.
LEMMA PollVanishedForward == ASSUME ForwardInv, PollVanished PROVE ForwardInv'
<1>1. PICK g \in files :
        mark' = Stamp([mark EXCEPT !.file = g, !.last = Anchor(Lines(g), SeenUntil({}, mark))])
  BY DEF PollVanished
<1>2. UNCHANGED <<done, src, lost, since, files, wm, todo, wpc, call>> BY DEF PollVanished
<1>3. mark.base # NoMark /\ wpc = "sleep" BY DEF PollVanished, Polls
<1>4. done \in Nat /\ mark \in Mark /\ files \subseteq Files BY DEF ForwardInv, MarkTyped
<1> DEFINE a == Anchor(Lines(g), SeenUntil({}, mark))
<1>5. {} \in SUBSET (1..done) OBVIOUS
<1>6. a \in Lines(g) \cup {0} /\ a \in 0..done /\ \A t \in Lines(g) : t > a => t > mark.base
  BY <1>3, <1>4, <1>5, AnchorForward
<1>7. mark' = Stamp([mark EXCEPT !.file = g, !.last = a]) BY <1>1
<1> HIDE DEF a
<1>8. g \in Files /\ g \in Nat /\ a \in Nat BY <1>4, <1>6 DEF Files
<1>9. /\ mark' \in Mark /\ mark'.file = g /\ mark'.last = a /\ mark'.base = mark.base
      /\ mark'.upd = done
  BY <1>4, <1>7, <1>8 DEF Stamp, Mark
<1> QED BY <1>2, <1>3, <1>6, <1>8, <1>9, MarkTypeKept, MarkMoved, NoPassForward

\* Nothing new, or _rotate_if_stale_pin follows to a newer transcript.
LEMMA PollIdleForward == ASSUME ForwardInv, PollIdle PROVE ForwardInv'
<1>1. PICK f \in files, k \in 0..done :
        /\ Reads(f, k)
        /\ \/ mark' = Pinned(f)
           \/ \E g \in files :
                mark' = Stamp([Pinned(f) EXCEPT !.file = g,
                                 !.last = Anchor(Lines(g), SeenUntil(Times(f, k), Pinned(f)))])
  BY DEF PollIdle, Newer
<1>2. UNCHANGED <<done, src, lost, since, files, wm, todo, wpc, call>> BY DEF PollIdle
<1>3. /\ mark.base # NoMark /\ wpc = "sleep"
      /\ Pinned(f) \in Mark /\ Pinned(f).base = mark.base
  BY <1>1, PinnedIs
<1>4. done \in Nat /\ files \subseteq Files BY DEF ForwardInv, MarkTyped
<1>5. CASE mark' = Pinned(f)
  BY <1>1, <1>2, <1>3, <1>5, MarkTypeKept, PinnedForward, NoPassForward
<1>6. ASSUME NEW g \in files,
             mark' = Stamp([Pinned(f) EXCEPT !.file = g,
                              !.last = Anchor(Lines(g), SeenUntil(Times(f, k), Pinned(f)))])
      PROVE  ForwardInv'
  <2> DEFINE m == Pinned(f)
             a == Anchor(Lines(g), SeenUntil(Times(f, k), m))
  <2>1. Times(f, k) \in SUBSET (1..done) BY <1>4 DEF Times
  <2>2. a \in Lines(g) \cup {0} /\ a \in 0..done /\ \A t \in Lines(g) : t > a => t > mark.base
    BY <1>3, <2>1, AnchorForward
  <2>3. /\ m \in Mark /\ m.base = mark.base
        /\ mark' = Stamp([m EXCEPT !.file = g, !.last = a])
    BY <1>3, <1>6
  <2> HIDE DEF a, m
  <2>4. g \in Files /\ g \in Nat /\ a \in Nat BY <1>4, <2>2 DEF Files
  <2>5. /\ mark' \in Mark /\ mark'.file = g /\ mark'.last = a /\ mark'.base = mark.base
        /\ mark'.upd = done
    BY <1>4, <2>3, <2>4 DEF Stamp, Mark
  <2> QED BY <1>2, <1>3, <2>2, <2>4, <2>5, MarkTypeKept, MarkMoved, NoPassForward
<1> QED BY <1>1, <1>5, <1>6

\* A pass takes what is behind an anchor it found.
LEMMA PollNewForward == ASSUME ForwardInv, Prompt, PollNew PROVE ForwardInv'
<1>1. PICK f \in files, k \in 0..done :
        /\ Reads(f, k) /\ Resolves(View(f, k), Pinned(f).last)
        /\ After(View(f, k), Pinned(f).last) # {}
        /\ mark' = Pinned(f) /\ wm' = Pinned(f)
        /\ todo' = After(View(f, k), Pinned(f).last) /\ wpc' = "read"
  BY DEF PollNew
<1>2. UNCHANGED <<done, src, lost, since, files, call>> BY DEF PollNew
<1>3. /\ f \in Files /\ f # 0 /\ Pinned(f) \in Mark /\ Pinned(f).file = f
      /\ Pinned(f).base = mark.base
  BY <1>1, PinnedIs DEF Files
<1>4. View(f, k) \subseteq Lines(f) /\ Lines(f) \subseteq 1..done
  BY DEF View, Lines, Times, ForwardInv, MarkTyped
<1>5. MarkTyped'
  BY <1>1, <1>2, <1>3, <1>4 DEF ForwardInv, MarkTyped, InPass, After
<1>6. FirstExists' /\ LastExists' /\ AnchorInFile' /\ Connected' /\ NothingOlder'
  BY <1>1, <1>2, <1>5, PinnedForward
<1>7. \A t \in todo' : t > mark.base /\ src[t] = f
  <2>1. Lines(f)' = Lines(f) /\ mark'.file = f /\ mark'.base = mark.base
    BY <1>1, <1>2, <1>3 DEF Lines, View, Times
  <2>2. Resolves(Lines(f), mark'.last) BY <1>1, <1>4 DEF Resolves
  <2>3. \A t \in Lines(f) : t > mark'.last => t > mark.base
    <3>1. Lines(mark.file)' = Lines(f) BY <1>2, <2>1 DEF Lines, View, Times
    <3> QED BY <1>3, <1>6, <2>1, <2>2, <3>1 DEF NothingOlder, Resolves
  <2>4. \A t \in Lines(f) : src[t] = f BY DEF Lines, View, Times
  <2> QED BY <1>1, <1>4, <2>3, <2>4 DEF After
<1>8. PassForward' BY <1>1, <1>2, <1>3, <1>7 DEF PassForward
<1>9. WatchWaits'
  BY <1>1, <1>2 DEF Reads, Polls, Prompt, WatchWaits
<1> QED BY <1>5, <1>6, <1>8, <1>9 DEF ForwardInv

\* _baseline_watermark: nothing that is there at the connect is behind the anchor it sets.
LEMMA BaselineForward ==
  ASSUME ForwardInv, Prompt, Baseline, UNCHANGED <<done, src, lost, files>>,
         since' = done \/ (since' = since /\ mark.base = NoMark)
  PROVE  /\ mark' \in Mark
         /\ FirstExists' /\ LastExists' /\ AnchorInFile' /\ Connected' /\ NothingOlder'
<1>1. /\ done \in Nat /\ done \in Int /\ LastExists /\ mark \in Mark /\ files \subseteq Files
      /\ (files = {} => done = 0)
  BY DEF ForwardInv, MarkTyped
<1>2. since' \in 0..done BY <1>1 DEF ForwardInv, Connected
<1>3. FirstExists' /\ LastExists' BY DEF ForwardInv, FirstExists, LastExists
<1>4. CASE files = {}
  <2>1. mark' = Stamp([mark EXCEPT !.base = done]) BY <1>4 DEF Baseline, Carried
  <2>2. /\ mark' \in Mark /\ mark'.base = done /\ mark'.upd = done
        /\ mark'.last = mark.last /\ mark'.file = mark.file
    BY <1>1, <2>1 DEF Stamp, Mark
  <2>3. AnchorInFile' /\ Connected'
    BY <1>1, <1>2, <1>4, <2>2 DEF ForwardInv, AnchorInFile, Connected, NoMark
  <2>4. NothingOlder' BY <1>1, <1>4 DEF NothingOlder, Lines, View, Times
  <2> QED BY <1>3, <2>2, <2>3, <2>4
<1>5. CASE files # {}
  <2>1. PICK f \in files : mark' = Stamp(BaselineAt(f, Lines(f)))
    BY <1>5 DEF Baseline, Active, Whole, Prompt, Lines
  <2>2. f \in Nat /\ f # 0 BY <1>1 DEF Files
  <2>3. CASE mark.file = f /\ ~Resolves(Lines(f), mark.last)
    <3>1. mark' = Stamp([mark EXCEPT !.base = done])
      BY <2>1, <2>3, <1>1 DEF BaselineAt, Carried, Mark
    <3>2. /\ mark' \in Mark /\ mark'.base = done /\ mark'.upd = done
          /\ mark'.last = mark.last /\ mark'.file = f
      BY <1>1, <2>3, <3>1 DEF Stamp, Mark
    <3>3. AnchorInFile' /\ Connected'
      BY <1>1, <1>2, <2>2, <2>3, <3>2 DEF ForwardInv, AnchorInFile, Connected, NoMark
    <3>4. NothingOlder' BY <2>3, <3>2 DEF NothingOlder, Resolves, Lines, View, Times
    <3> QED BY <1>3, <3>2, <3>3, <3>4
  <2>4. CASE ~(mark.file = f /\ ~Resolves(Lines(f), mark.last))
    <3> DEFINE a == MaxOf(Lines(f) \cup {0})
    <3>1. mark' = Stamp([[mark EXCEPT !.base = done] EXCEPT !.file = f, !.last = a])
      BY <2>1, <2>4, <1>1 DEF BaselineAt, Carried, Mark
    <3>2. Lines(f) \in SUBSET (1..done) BY DEF Lines, View, Times
    <3>3. a \in Lines(f) \cup {0} /\ \A t \in Lines(f) : t <= a BY <1>1, <3>2, MaxOfTurns
    <3> HIDE DEF a
    <3>4. a \in 0..done /\ a \in Nat BY <1>1, <3>2, <3>3
    <3>5. /\ mark' \in Mark /\ mark'.base = done /\ mark'.upd = done
          /\ mark'.last = a /\ mark'.file = f
      BY <1>1, <2>2, <3>1, <3>4 DEF Stamp, Mark
    <3>6. AnchorInFile'
      BY <1>1, <3>2, <3>3, <3>4, <3>5 DEF AnchorInFile, Lines, View, Times
    <3>7. Connected' BY <1>1, <1>2, <2>2, <3>5 DEF Connected, NoMark
    <3>8. NothingOlder'
      <4>1. Lines(f)' = Lines(f) BY DEF Lines, View, Times
      <4>2. \A t \in Lines(f) : ~(t > a) BY <3>2, <3>3, <3>4
      <4> QED BY <3>5, <4>1, <4>2 DEF NothingOlder, Resolves, Lines, View, Times
    <3> QED BY <1>3, <3>5, <3>6, <3>7, <3>8
  <2> QED BY <2>3, <2>4
<1> QED BY <1>4, <1>5

\* The mark moves past a turn of the pass, which is from after the connect.
LEMMA AdvanceForward ==
  ASSUME ForwardInv, InPass, NEW m \in Mark, m.file = mark.file, m.base = mark.base,
         NEW known, Advance(m, known), UNCHANGED <<done, src, lost, files, since, call>>
  PROVE  ForwardInv'
<1>1. /\ done \in Nat /\ done <= MaxTurns /\ todo \subseteq 1..done /\ todo # {}
  BY DEF ForwardInv, MarkTyped
<1>2. Head \in todo /\ Head \in 1..done
  <2>1. PICK t \in todo : \A u \in todo : t <= u BY <1>1 DEF ForwardInv, FirstExists
  <2> QED BY <1>1, <2>1 DEF Head, MinOf
<1>3. Head > mark.base /\ src[Head] = mark.file /\ mark.file # 0
  BY <1>2 DEF ForwardInv, PassForward
<1>4. mark' = [Stamp(m) EXCEPT !.last = Head] BY DEF Advance
<1>5. /\ mark' \in Mark /\ mark'.file = mark.file /\ mark'.base = mark.base
      /\ mark'.last = Head /\ mark'.upd = done
  <2> DEFINE h == Head
  <2>1. h \in Nat /\ mark' = [Stamp(m) EXCEPT !.last = h] BY <1>2, <1>4
  <2>2. mark'.last = Head <=> mark'.last = h OBVIOUS
  <2> HIDE DEF h
  <2> QED BY <1>1, <2>1, <2>2 DEF Stamp, Mark
<1>6. todo' \subseteq todo BY DEF Advance
<1>7. \/ wpc' = "sleep" /\ todo' = {} /\ wm' = Blank
      \/ wpc' = "deliver" /\ todo' # {} /\ wm' = mark'
  BY DEF Advance
<1>8. Blank \in Mark BY DEF Blank, Mark, NoMark
<1>9. MarkTyped' BY <1>5, <1>6, <1>7, <1>8 DEF ForwardInv, MarkTyped, InPass
<1>10. FirstExists' /\ LastExists' BY DEF ForwardInv, FirstExists, LastExists
<1>11. AnchorInFile' BY <1>1, <1>2, <1>3, <1>5 DEF AnchorInFile
<1>12. Connected' BY <1>3, <1>5 DEF ForwardInv, Connected
<1>13. NothingOlder'
  <2>1. Lines(mark.file)' = Lines(mark.file) BY <1>5 DEF Lines, View, Times
  <2>2. Lines(mark.file) \subseteq 1..done BY DEF Lines, View, Times
  <2>3. mark.base \in Int BY DEF ForwardInv, MarkTyped, Mark
  <2>4. \A t \in Lines(mark.file) : t > Head => t > mark.base BY <1>2, <1>3, <2>2, <2>3
  <2> QED BY <1>5, <2>1, <2>4 DEF NothingOlder, Lines, View, Times
<1>14. PassForward'
  BY <1>3, <1>5, <1>6, <1>7 DEF ForwardInv, PassForward, InPass
<1>15. WatchWaits' BY DEF ForwardInv, WatchWaits
<1> QED BY <1>9, <1>10, <1>11, <1>12, <1>13, <1>14, <1>15 DEF ForwardInv

\* A delivery, up to its answer or its end.
LEMMA PassStepForward == ASSUME ForwardInv, TurnBegin \/ Post PROVE ForwardInv'
<1>1. InPass BY DEF TurnBegin, Post, PostArrives, PostAnswered, AnswerLost, PostGivenUp, InPass
<1>2. UNCHANGED <<done, src, lost, files, since, call>>
  BY DEF TurnBegin, Post, PostArrives, PostAnswered, AnswerLost, PostGivenUp
<1>3. wm \in Mark /\ wm.file = mark.file /\ wm.base = mark.base
  BY <1>1 DEF ForwardInv, MarkTyped, PassForward
<1> DEFINE c(human) == Counted(wm, human)
<1>4. ASSUME NEW human \in BOOLEAN
      PROVE  c(human) \in Mark /\ c(human).file = mark.file /\ c(human).base = mark.base
  <2> DEFINE r == IF human THEN 0 ELSE (IF wm.old THEN 0 ELSE wm.run) + 1
             a == (IF wm.old THEN 0 ELSE wm.all) + 1
  <2>1. r \in Nat /\ a \in Nat BY <1>3 DEF Mark
  <2>2. c(human) = [wm EXCEPT !.run = r, !.all = a, !.old = FALSE] BY DEF Counted
  <2> HIDE DEF c, r, a
  <2> QED BY <1>3, <2>1, <2>2 DEF Mark
<1>5. CASE /\ UNCHANGED <<mark, todo>> /\ wpc' \in {"post", "answer"}
           /\ (wm' = wm \/ \E human \in BOOLEAN : wm' = c(human))
  <2> HIDE DEF c
  <2>1. wm' \in Mark /\ wm'.file = mark.file /\ wm'.base = mark.base BY <1>3, <1>4, <1>5
  <2>2. MarkTyped' BY <1>1, <1>2, <1>5, <2>1 DEF ForwardInv, MarkTyped, InPass
  <2>3. FirstExists' /\ LastExists' /\ AnchorInFile' /\ Connected' /\ NothingOlder'
    BY <1>2, <1>5 DEF ForwardInv, FirstExists, LastExists, AnchorInFile, Connected,
                      NothingOlder, Resolves, Lines, View, Times
  <2>4. PassForward' /\ WatchWaits'
    BY <1>1, <1>2, <1>5, <2>1 DEF ForwardInv, PassForward, WatchWaits
  <2> QED BY <2>2, <2>3, <2>4 DEF ForwardInv
<1>6. CASE \E known : Advance(wm, known) BY <1>1, <1>2, <1>3, <1>6, AdvanceForward
<1>7. CASE \E human \in BOOLEAN : \E known : Advance(c(human), known)
  <2> HIDE DEF c
  <2> QED BY <1>1, <1>2, <1>4, <1>7, AdvanceForward
<1>8. CASE TurnBegin
  <2>1. Typed(Head) \in BOOLEAN BY DEF Typed
  <2> QED BY <1>5, <1>6, <1>7, <1>8, <2>1 DEF TurnBegin
<1>9. CASE Post
  BY <1>5, <1>6, <1>9 DEF Post, PostArrives, PostAnswered, AnswerLost, PostGivenUp
<1> QED BY <1>8, <1>9

\* A session_watch, or the first poll of a watcher without a mark, sets a baseline.
LEMMA ConnectForward ==
  ASSUME ForwardInv, Prompt, PollUnmarked \/ WatchFinish
  PROVE  ForwardInv'
<1>1. Baseline /\ UNCHANGED <<done, src, lost, files, wm, todo, wpc>>
  BY DEF PollUnmarked, WatchFinish
<1>2. since' = done \/ (since' = since /\ mark.base = NoMark)
  BY DEF PollUnmarked, WatchFinish
<1>3. ~InPass /\ call' \in {call, "idle"}
  BY DEF ForwardInv, WatchWaits, PollUnmarked, WatchFinish, Polls, InPass
<1>4. /\ mark' \in Mark
      /\ FirstExists' /\ LastExists' /\ AnchorInFile' /\ Connected' /\ NothingOlder'
  BY <1>1, <1>2, BaselineForward
<1>5. MarkTyped' BY <1>1, <1>4, MarkTypeKept
<1>6. PassForward' /\ WatchWaits' BY <1>1, <1>3 DEF PassForward, WatchWaits, InPass
<1> QED BY <1>4, <1>5, <1>6 DEF ForwardInv

\* Steps after which the mark says of its file what it said before.
LEMMA MarkStays ==
  ASSUME ForwardInv, UNCHANGED <<done, src, since>>, lost \subseteq lost',
         files' \subseteq Files, files' = {} => files = {},
         mark' = mark \/ mark' = [mark EXCEPT !.old = TRUE],
         \/ /\ UNCHANGED <<wpc, todo, call>>
            /\ wm' = wm \/ wm' = [wm EXCEPT !.old = TRUE]
         \/ wpc' \in {"off", "sleep"} /\ todo' = {} /\ wm' = Blank
         \/ UNCHANGED <<wpc, todo, wm>> /\ call' = "idle"
  PROVE  ForwardInv'
<1>1. /\ mark \in Mark /\ wm \in Mark /\ Blank \in Mark
      /\ mark.upd <= done /\ mark.upd \in Int /\ done \in Nat
  BY DEF ForwardInv, MarkTyped, AnchorInFile, Blank, Mark, NoMark
<1>2. /\ mark' \in Mark /\ mark'.file = mark.file /\ mark'.last = mark.last
      /\ mark'.base = mark.base /\ mark'.upd = mark.upd
  BY <1>1 DEF Mark
<1>3. wm' \in Mark BY <1>1 DEF Mark
<1>4. MarkTyped' BY <1>2, <1>3 DEF ForwardInv, MarkTyped, InPass
<1>5. FirstExists' /\ LastExists' /\ AnchorInFile' /\ Connected' /\ NothingOlder'
  <2>1. mark'.upd \in mark.upd..done BY <1>1, <1>2
  <2> QED BY <1>2, <1>4, <2>1, MarkKept
<1>6. CASE wpc' \in {"off", "sleep"}
  BY <1>4, <1>5, <1>6 DEF ForwardInv, PassForward, WatchWaits, InPass
<1>7. CASE UNCHANGED <<wpc, todo>> /\ call' \in {call, "idle"}
           /\ (wm' = wm \/ wm' = [wm EXCEPT !.old = TRUE])
  <2>1. wm'.file = wm.file /\ wm'.base = wm.base BY <1>1, <1>7 DEF Mark
  <2> QED BY <1>2, <1>4, <1>5, <1>7, <2>1 DEF ForwardInv, PassForward, WatchWaits, InPass
<1> QED BY <1>6, <1>7

\* The induction step of LastExists.
LEMMA OneMoreLast == ASSUME done \in Nat, done' = done + 1, LastExists PROVE LastExists'
<1> SUFFICES ASSUME NEW S \in SUBSET (1..done'), S # {}
             PROVE  \E m \in S : \A t \in S : t <= m
  BY DEF LastExists
<1>1. \A t \in S : t \in 1..(done + 1) OBVIOUS
<1>2. CASE done + 1 \in S
  <2>1. \A t \in S : t <= done + 1 BY <1>1
  <2> QED BY <1>2, <2>1
<1>3. CASE done + 1 \notin S
  <2>1. ASSUME NEW t \in S PROVE t \in 1..done BY <1>1, <1>3
  <2> QED BY <2>1 DEF LastExists
<1> QED BY <1>2, <1>3

\* What completes from now on is from after the connect.
LEMMA TurnCompletesForward == ASSUME ForwardInv, TurnCompletes PROVE ForwardInv'
<1>1. /\ done \in Nat /\ done < MaxTurns /\ done' = done + 1 /\ done' \in Nat
      /\ MaxTurns \in Nat
  BY BoundsAssumption DEF TurnCompletes, ForwardInv, MarkTyped
<1>2. PICK f \in Files : src' = [src EXCEPT ![done + 1] = f] /\ files' = files \cup {f}
  BY DEF TurnCompletes, Writable
<1>3. UNCHANGED <<lost, mark, wm, todo, wpc, call, since>> BY DEF TurnCompletes
<1>4. \A t \in 1..done : t \in Turns /\ src'[t] = src[t]
  BY <1>1, <1>2 DEF ForwardInv, MarkTyped, Turns
<1>5. MarkTyped' BY <1>1, <1>2, <1>3 DEF ForwardInv, MarkTyped, InPass, Turns, Files
<1>6. FirstExists' BY <1>1, OneMoreTurn DEF ForwardInv
<1>7. LastExists' BY <1>1, OneMoreLast DEF ForwardInv
<1>8. AnchorInFile' BY <1>1, <1>3, <1>4 DEF ForwardInv, AnchorInFile, MarkTyped, Mark
<1>9. Connected' BY <1>1, <1>3 DEF ForwardInv, Connected
<1>10. NothingOlder'
  <2> SUFFICES ASSUME mark.file # 0, Resolves(Lines(mark.file)', mark.last),
                      NEW t \in Lines(mark.file)', t > mark.last
               PROVE  t > mark.base
    BY <1>3 DEF NothingOlder, Resolves, Lines, View, Times
  <2>1. \A u \in 1..done : u \in Lines(mark.file)' => u \in Lines(mark.file)
    BY <1>3, <1>4 DEF Lines, View, Times
  <2>2. Resolves(Lines(mark.file), mark.last)
    BY <2>1 DEF Resolves, ForwardInv, AnchorInFile
  <2>3. t \in 1..(done + 1) BY <1>1 DEF Lines, View, Times
  <2>4. mark.base \in -1..done BY DEF ForwardInv, Connected
  <2>5. CASE t = done + 1 BY <1>1, <2>4, <2>5
  <2>6. CASE t # done + 1
    <3>1. t \in 1..done BY <1>1, <2>3, <2>6
    <3> QED BY <2>1, <2>2, <3>1 DEF ForwardInv, NothingOlder
  <2> QED BY <2>5, <2>6
<1>11. PassForward' /\ WatchWaits'
  BY <1>3, <1>4 DEF ForwardInv, MarkTyped, PassForward, WatchWaits, InPass
<1> QED BY <1>5, <1>6, <1>7, <1>8, <1>9, <1>10, <1>11 DEF ForwardInv

\* ForwardInv is inductive.
LEMMA ForwardStep == ASSUME ForwardInv, Prompt, [Next]_vars PROVE ForwardInv'
<1>1. files \subseteq Files BY DEF ForwardInv, MarkTyped
<1>2. CASE LineLost \/ LongIdle \/ UNCHANGED vars
  BY <1>1, <1>2, MarkStays DEF LineLost, LongIdle
<1>3. CASE FileVanishes
  <2>1. files' \subseteq Files /\ files' # {} BY <1>1, <1>3 DEF FileVanishes, Files
  <2> QED BY <1>3, <2>1, MarkStays DEF FileVanishes
<1>4. CASE WatchStart \/ Unwatch \/ Restart
  BY <1>1, <1>4, MarkStays DEF WatchStart, Unwatch, Restart, StopWatcher
<1>5. CASE WatchCancelled \/ Resend
  BY <1>1, <1>5, MarkStays DEF WatchCancelled, Resend, ResendStart, ResendArrives,
     ResendAnswered, ResendFails
<1> QED BY <1>2, <1>3, <1>4, <1>5, PollVanishedForward, PollTornForward, PollIdleForward,
           PollNewForward, PassStepForward, ConnectForward, TurnCompletesForward
        DEF Next, Poll

\* "A (re)connecting orchestrator conversation is NEVER caught up with a backlog": however
\* often a conversation connects, and wherever torn reads, lost anchors, vanished and newer
\* transcripts move the mark afterwards, no turn is posted that completed before the last
\* session_watch that returned. Assumed is that a connect is over before the next poll and
\* that its baseline and the search for a lost anchor read whole files (Prompt).
THEOREM NothingBeforeTheConnect == ASSUME Prompt PROVE Spec => []ForwardOnly
<1>1. ForwardInv => ForwardOnly
  <2> SUFFICES ASSUME ForwardInv, Posting PROVE Head > since BY DEF ForwardOnly
  <2>1. InPass BY DEF Posting, InPass
  <2>2. todo \in SUBSET (1..done) /\ todo # {} BY <2>1 DEF ForwardInv, MarkTyped
  <2>3. PICK t \in todo : \A u \in todo : t <= u BY <2>2 DEF ForwardInv, FirstExists
  <2>4. Head \in todo BY <2>3 DEF Head, MinOf
  <2>5. Head > mark.base /\ Head \in 1..done BY <2>1, <2>2, <2>4 DEF ForwardInv, PassForward
  <2> QED BY <2>5 DEF ForwardInv, Connected, NoMark
<1> QED BY <1>1, ForwardInit, ForwardStep, PTL DEF Spec

-----------------------------------------------------------------------------
(* OriginErrsOneWay.                                                       *)

\* Left out is what cuts a delivery or a connect in two: a stop of the server in the middle
\* of a POST or a session_watch, and a session_watch the client cancels.
Uncut == Faults \cap {"cut", "cancelcall"} = {}

\* A prompt of the server whose record is used up.
Spent(t) == by[t] = "mcp" /\ t \notin sent

\* The turn that is being posted.
InHand(t) == Posting /\ t = Head

\* No watcher delivers the turn any more: it is from before the connect, or a connect that
\* will leave it there is running, or the watch is closed.
LeftBehind(t) == t <= mark.base \/ call = "inspect" \/ (wpc = "off" /\ ~watch)

\* A record is that of a turn the server prompted.
Recorded ==
  by \in [Turns -> {"mcp", "person"}] /\ \A t \in sent : t \in 1..done /\ by[t] = "mcp"

\* A record is used up by the delivery of its reply, or its end.
SpentOnDelivery ==
  \A t \in 1..done : Spent(t) => Handled(t) \/ InHand(t) \/ LeftBehind(t)

\* In a pass, as far as the ledger goes that the pass has in memory.
SpentInPass ==
  Known => \A t \in todo :
             Spent(t) => ~Deliverable(t) \/ Has(t, fps) \/ t \in dead \/ InHand(t)

\* What is posted carries the origin its record gave it.
OriginKnown == Posting /\ by[Head] = "mcp" => origin = "mcp" \/ Head \in dead

\* The inductive invariant of OriginErrsOneWay, beside ForwardInv.
SentInv == Recorded /\ SpentOnDelivery /\ SpentInPass /\ OriginKnown

LEMMA SentInit == Init => SentInv
<1> SUFFICES ASSUME Init PROVE SentInv OBVIOUS
<1>1. 1..done = {} BY DEF Init
<1> QED BY <1>1 DEF Init, SentInv, Recorded, SpentOnDelivery, SpentInPass, OriginKnown, Known,
           Posting

\* The loop-guard counts and the connect of a mark are those of the saved one.
Same(m) == m.base = mark.base /\ m.run = mark.run /\ m.old = mark.old

\* Moving a mark leaves both alone.
LEMMA MovedIsSame ==
  ASSUME ForwardInv, NEW m \in Mark, Same(m), NEW f, NEW a,
         mark' = Stamp([m EXCEPT !.file = f, !.last = a])
         \/ mark' = Stamp([m EXCEPT !.file = f]) \/ mark' = Stamp([m EXCEPT !.last = a])
         \/ mark' = m
  PROVE  Same(mark')
BY DEF Stamp, Mark, Same

LEMMA PinnedIsSame ==
  ASSUME ForwardInv, NEW f
  PROVE  Same(Pinned(f))
<1>1. mark \in Mark BY DEF ForwardInv, MarkTyped
<1> QED BY <1>1 DEF Pinned, Stamp, Mark, Same

\* The polls of a watcher that has a mark.
LEMMA PollIsSame ==
  ASSUME ForwardInv, PollVanished \/ PollTorn \/ PollIdle \/ PollNew
  PROVE  Same(mark')
<1>1. CASE PollVanished
  <2>1. mark \in Mark /\ Same(mark) BY DEF ForwardInv, MarkTyped, Same
  <2> QED BY <1>1, <2>1, MovedIsSame DEF PollVanished
<1>2. CASE PollTorn \/ PollIdle \/ PollNew
  <2>1. PICK f \in files, k \in 0..done :
          /\ Reads(f, k)
          /\ \/ mark' = Pinned(f)
             \/ \E a : mark' = Stamp([Pinned(f) EXCEPT !.last = a])
             \/ \E g, a : mark' = Stamp([Pinned(f) EXCEPT !.file = g, !.last = a])
    <3>1. CASE PollTorn BY <3>1 DEF PollTorn
    <3>2. CASE PollIdle BY <3>2 DEF PollIdle
    <3>3. CASE PollNew BY <3>3 DEF PollNew
    <3> QED BY <1>2, <3>1, <3>2, <3>3
  <2>2. Pinned(f) \in Mark /\ Same(Pinned(f)) BY <2>1, PinnedIs, PinnedIsSame
  <2> QED BY <2>1, <2>2, MovedIsSame
<1> QED BY <1>1, <1>2

\* A baseline is of now, and carries the counts over.
LEMMA BaselineIsNow ==
  ASSUME ForwardInv, Baseline
  PROVE  mark'.base = done /\ mark'.run = mark.run /\ mark'.old = mark.old /\ mark.base <= done
<1>1. mark \in Mark /\ done \in Nat /\ mark.base <= done
  BY DEF ForwardInv, MarkTyped, Connected
<1>2. \/ mark' = Stamp([mark EXCEPT !.base = done])
      \/ \E f, view : mark' = Stamp(BaselineAt(f, view))
  BY DEF Baseline, Carried
<1> QED BY <1>1, <1>2 DEF BaselineAt, Carried, Stamp, Mark

\* A mark that moves past a turn keeps the counts of the mark in hand.
LEMMA AdvancedIs ==
  ASSUME NEW m \in Mark, NEW known, Advance(m, known)
  PROVE  /\ mark'.base = m.base /\ mark'.run = m.run /\ mark'.old = m.old
         /\ todo' = todo \ {Head}
         /\ \/ wpc' = "sleep" /\ todo' = {}
            \/ wpc' = "deliver" /\ todo' # {} /\ fps' = known /\ wm' = mark'
BY DEF Advance, Stamp, Mark

\* The counts with a delivery keep the connect.
LEMMA CountedIs ==
  ASSUME NEW m \in Mark, NEW human \in BOOLEAN
  PROVE  /\ Counted(m, human) \in Mark /\ Counted(m, human).base = m.base
         /\ Counted(m, human).old = FALSE
         /\ Counted(m, human).run = IF human THEN 0 ELSE (IF m.old THEN 0 ELSE m.run) + 1
<1> DEFINE r == IF human THEN 0 ELSE (IF m.old THEN 0 ELSE m.run) + 1
           a == (IF m.old THEN 0 ELSE m.all) + 1
<1>1. r \in Nat /\ a \in Nat BY DEF Mark
<1>2. Counted(m, human) = [m EXCEPT !.run = r, !.all = a, !.old = FALSE] BY DEF Counted
<1>3. Counted(m, human).run = r BY <1>1, <1>2 DEF Mark
<1> HIDE DEF r, a
<1>4. Counted(m, human) \in Mark /\ Counted(m, human).base = m.base
      /\ Counted(m, human).old = FALSE
  BY <1>1, <1>2 DEF Mark
<1> USE DEF r
<1> QED BY <1>3, <1>4

\* Steps that leave the deliveries alone, and on which a mark is never set back.
LEMMA SentStays ==
  ASSUME ForwardInv, SentInv, UNCHANGED <<done, by, text, sent, wpc, todo, fps, origin, dead>>,
         ledger \subseteq ledger', mark'.base \in Int, mark.base <= mark'.base,
         \/ UNCHANGED <<call, watch>> \/ mark'.base = done
  PROVE  SentInv'
<1>1. Recorded' BY DEF SentInv, Recorded
<1>2. Head' = Head BY DEF Head
<1>3. OriginKnown' BY <1>2 DEF SentInv, OriginKnown, Posting
<1>4. SpentInPass'
  BY <1>2 DEF SentInv, SpentInPass, Known, Spent, Deliverable, Has, InHand, Posting
<1>5. SpentOnDelivery'
  <2>1. mark.base \in Int /\ done \in Nat BY DEF ForwardInv, MarkTyped, Mark
  <2> SUFFICES ASSUME NEW t \in 1..done, Spent(t)
               PROVE  (Handled(t) \/ InHand(t) \/ LeftBehind(t))'
    BY DEF SpentOnDelivery, Spent
  <2>2. Handled(t) \/ InHand(t) \/ LeftBehind(t) BY DEF SentInv, SpentOnDelivery
  <2>3. Handled(t) => Handled(t)' BY DEF Handled, Deliverable
  <2>4. InHand(t) => InHand(t)' BY <1>2 DEF InHand, Posting
  <2>5. LeftBehind(t) => LeftBehind(t)' BY <2>1 DEF LeftBehind
  <2> QED BY <2>2, <2>3, <2>4, <2>5
<1> QED BY <1>1, <1>3, <1>4, <1>5 DEF SentInv

\* The polls that find nothing new, the end of a connect, a resend, and the transcripts.
LEMMA QuietKeepsSent ==
  ASSUME ForwardInv, SentInv,
         \/ PollUnmarked \/ PollVanished \/ PollTorn \/ PollIdle \/ WatchFinish \/ Resend
         \/ LineLost \/ FileVanishes \/ LongIdle \/ UNCHANGED vars
  PROVE  SentInv'
<1>1. mark \in Mark /\ mark.base \in Int /\ done \in Nat BY DEF ForwardInv, MarkTyped, Mark
<1>2. CASE PollVanished \/ PollTorn \/ PollIdle
  <2>1. mark'.base = mark.base BY <1>2, PollIsSame DEF Same
  <2>2. UNCHANGED <<done, by, text, sent, wpc, todo, fps, origin, dead, ledger, call, watch>>
    BY <1>2 DEF PollVanished, PollTorn, PollIdle
  <2> QED BY <1>1, <2>1, <2>2, SentStays
<1>3. CASE PollUnmarked \/ WatchFinish
  <2>1. mark'.base = done /\ mark.base <= done
    BY <1>3, BaselineIsNow DEF PollUnmarked, WatchFinish
  <2>2. UNCHANGED <<done, by, text, sent, wpc, todo, fps, origin, dead, ledger>>
    BY <1>3 DEF PollUnmarked, WatchFinish
  <2> QED BY <1>1, <2>1, <2>2, SentStays
<1>4. CASE Resend \/ LineLost \/ FileVanishes \/ LongIdle \/ UNCHANGED vars
  <2>1. mark'.base = mark.base
    BY <1>1, <1>4 DEF Resend, ResendStart, ResendArrives, ResendAnswered, ResendFails, LineLost,
       FileVanishes, LongIdle, Mark
  <2>2. /\ UNCHANGED <<done, by, text, sent, wpc, todo, fps, origin, dead, call, watch>>
        /\ ledger \subseteq ledger'
    BY <1>4 DEF Resend, ResendStart, ResendArrives, ResendAnswered, ResendFails, LineLost,
       FileVanishes, LongIdle
  <2> QED BY <1>1, <2>1, <2>2, SentStays
<1> QED BY <1>2, <1>3, <1>4

\* A pass starts, or a POST goes out once more or arrives: the turn in hand is the same.
LEMMA PassMovesSent ==
  ASSUME ForwardInv, SentInv, PollNew \/ PostArrives \/ AnswerLost
  PROVE  SentInv'
<1>1. UNCHANGED <<done, by, text, sent, dead, ledger, call, watch, origin, fps>>
  BY DEF PollNew, PostArrives, AnswerLost
<1>2. Recorded' BY <1>1 DEF SentInv, Recorded
<1>3. CASE PollNew
  <2>1. wpc = "sleep" /\ wpc' = "read" BY <1>3 DEF PollNew, Reads, Polls
  <2>2. mark'.base = mark.base BY <1>3, PollIsSame DEF Same
  <2> QED BY <1>1, <1>2, <2>1, <2>2
          DEF SentInv, SpentOnDelivery, SpentInPass, OriginKnown, Known, Posting, Spent, Handled,
              Deliverable, InHand, LeftBehind
<1>4. CASE PostArrives \/ AnswerLost
  <2>1. /\ UNCHANGED <<mark, todo>> /\ wpc \in {"post", "answer"} /\ wpc' \in {"post", "answer"}
    BY <1>4 DEF PostArrives, AnswerLost
  <2>2. Head' = Head BY <2>1 DEF Head
  <2> QED BY <1>1, <1>2, <2>1, <2>2
          DEF SentInv, SpentOnDelivery, SpentInPass, OriginKnown, Known, Posting, Spent, Handled,
              Deliverable, Has, InHand, LeftBehind
<1> QED BY <1>3, <1>4

\* In a pass the record of a turn that is not yet in hand went with an earlier delivery.
LEMMA PassKnows ==
  ASSUME ForwardInv, SentInv, wpc \in {"read", "deliver"},
         NEW t \in todo, Spent(t)
  PROVE  ~Deliverable(t) \/ Has(t, IF wpc = "read" THEN ledger ELSE fps) \/ t \in dead
<1>1. InPass /\ ~Posting BY DEF InPass, Posting
<1>2. t \in 1..done /\ t > mark.base /\ mark.base \in Int
  BY <1>1 DEF ForwardInv, PassForward, MarkTyped, Mark
<1>3. ~LeftBehind(t) BY <1>1, <1>2 DEF ForwardInv, WatchWaits, LeftBehind, InPass
<1>4. CASE wpc = "read"
  BY <1>1, <1>2, <1>3, <1>4 DEF SentInv, SpentOnDelivery, Handled, InHand, Has
<1>5. CASE wpc = "deliver"
  BY <1>1, <1>5 DEF SentInv, SpentInPass, Known, InHand
<1> QED BY <1>4, <1>5

\* What is left of a pass when its first turn is done with.
LEMMA AdvanceSent ==
  ASSUME ForwardInv, SentInv, InPass, NEW known, NEW m \in Mark, m.base = mark.base,
         Advance(m, known), UNCHANGED <<done, by, text, call, watch>>,
         \A t \in todo \ {Head} : Spent(t) => ~Deliverable(t) \/ Has(t, known) \/ t \in dead,
         sent' \in {sent, sent \ {Head}}, ledger \subseteq ledger', dead \subseteq dead',
         NEW h, h = Head, Spent(h)' => Handled(h)'
  PROVE  SentInv'
<1>1. Head \in todo /\ todo \subseteq 1..done /\ done \in Nat
  <2>1. todo \in SUBSET (1..done) /\ todo # {} /\ done \in Nat BY DEF ForwardInv, MarkTyped
  <2>2. PICK t \in todo : \A u \in todo : t <= u BY <2>1 DEF ForwardInv, FirstExists
  <2> QED BY <2>1, <2>2 DEF Head, MinOf
<1>2. /\ mark'.base = mark.base /\ todo' = todo \ {Head}
      /\ \/ wpc' = "sleep" /\ todo' = {}
         \/ wpc' = "deliver" /\ todo' # {} /\ fps' = known
  BY AdvancedIs
<1>3. h = Head OBVIOUS
<1>4. Recorded' BY <1>3 DEF SentInv, Recorded
<1>5. \A t : t # h => (Spent(t)' <=> Spent(t)) BY <1>3 DEF Spent
<1>6. \A t : Handled(t) => Handled(t)' BY DEF Handled, Deliverable
<1>7. SpentOnDelivery'
  <2> SUFFICES ASSUME NEW t \in 1..done, Spent(t)' PROVE (Handled(t) \/ LeftBehind(t))'
    BY DEF SpentOnDelivery
  <2>1. CASE t = h BY <2>1
  <2>2. CASE t # h
    <3>1. Handled(t) \/ LeftBehind(t)
      BY <1>3, <1>5, <2>2 DEF SentInv, SpentOnDelivery, InHand
    <3>2. LeftBehind(t) => LeftBehind(t)' BY <1>2 DEF LeftBehind, InPass
    <3> QED BY <1>6, <3>1, <3>2
  <2> QED BY <2>1, <2>2
<1>8. SpentInPass'
  BY <1>2, <1>3, <1>5 DEF SpentInPass, Known, Deliverable, Has
<1>9. OriginKnown' BY <1>2 DEF OriginKnown, Posting
<1> QED BY <1>4, <1>7, <1>8, <1>9 DEF SentInv

\* The first turn of a pass is one of its turns, and later than the connect.
LEMMA HeadInPass ==
  ASSUME ForwardInv, InPass
  PROVE  /\ Head \in todo /\ Head \in 1..done /\ Head > mark.base /\ mark.base \in Int
         /\ wm \in Mark /\ wm.base = mark.base /\ ~LeftBehind(Head)
<1>1. todo \in SUBSET (1..done) /\ todo # {} /\ done \in Nat BY DEF ForwardInv, MarkTyped
<1>2. PICK t \in todo : \A u \in todo : t <= u BY <1>1 DEF ForwardInv, FirstExists
<1>3. Head \in todo BY <1>2 DEF Head, MinOf
<1>4. Head > mark.base /\ mark.base \in Int /\ wm \in Mark /\ wm.base = mark.base
  BY <1>3 DEF ForwardInv, PassForward, MarkTyped, Mark
<1>5. Head \in Int BY <1>1, <1>3
<1> QED BY <1>1, <1>3, <1>4, <1>5 DEF ForwardInv, WatchWaits, LeftBehind, InPass

\* The turn is passed over, stopped, or posted as its record says.
LEMMA TurnBeginSent == ASSUME ForwardInv, SentInv, TurnBegin PROVE SentInv'
<1> DEFINE known == IF wpc = "read" THEN ledger ELSE fps
<1>1. wpc \in {"read", "deliver"} /\ InPass /\ ~Posting BY DEF TurnBegin, InPass, Posting
<1>2. UNCHANGED <<done, by, text, call, watch, ledger>> BY DEF TurnBegin
<1>3. PICK h : h = Head OBVIOUS
<1>4. /\ h \in todo /\ h \in 1..done /\ ~LeftBehind(h) /\ wm \in Mark /\ wm.base = mark.base
  BY <1>1, <1>3, HeadInPass
<1>5. \A t \in todo : Spent(t) => ~Deliverable(t) \/ Has(t, known) \/ t \in dead
  BY <1>1, PassKnows
<1>6. PICK m : m = Counted(wm, Typed(h)) OBVIOUS
<1>7. m \in Mark /\ m.base = mark.base
  <2>1. Typed(h) \in BOOLEAN BY DEF Typed
  <2> QED BY <1>4, <1>6, <2>1, CountedIs
<1>8. CASE /\ Deliverable(h) /\ Has(h, known) /\ Advance(wm, known) /\ UNCHANGED <<sent, dead>>
  <2>1. Spent(h) => Handled(h) BY <1>1, <1>4 DEF SentInv, SpentOnDelivery, InHand
  <2>2. Spent(h)' => Handled(h)' BY <1>2, <1>8, <2>1 DEF Spent, Handled, Deliverable
  <2> HIDE DEF known
  <2> QED BY <1>1, <1>2, <1>3, <1>4, <1>5, <1>8, <2>2, AdvanceSent
<1>9. CASE /\ ~Deliverable(h) /\ sent' = sent \ {h} /\ Advance(wm, known) /\ UNCHANGED dead
  <2>1. Handled(h)' BY <1>2, <1>9 DEF Handled, Deliverable
  <2> HIDE DEF known
  <2> QED BY <1>1, <1>2, <1>3, <1>4, <1>5, <1>9, <2>1, AdvanceSent
<1>10. CASE sent' = sent \ {h} /\ dead' = dead \cup {h} /\ Advance(m, known)
  <2>1. Handled(h)' BY <1>10 DEF Handled
  <2> HIDE DEF known
  <2> QED BY <1>1, <1>2, <1>3, <1>5, <1>7, <1>10, <2>1, AdvanceSent
<1>11. CASE /\ Deliverable(h) /\ ~Has(h, known) /\ sent' = sent \ {h}
            /\ wpc' = "post" /\ fps' = known
            /\ origin' = (IF Typed(h) THEN "terminal" ELSE "mcp")
            /\ UNCHANGED <<dead, todo, mark>>
  <2>1. Head' = h BY <1>3, <1>11 DEF Head
  <2>2. \A t : t # h => (Spent(t)' <=> Spent(t)) BY <1>2, <1>11 DEF Spent
  <2>3. Recorded' BY <1>2, <1>11 DEF SentInv, Recorded
  <2>4. InHand(h)' BY <1>11, <2>1 DEF InHand, Posting
  <2>5. OriginKnown'
    <3>1. by[h] = "mcp" /\ Typed(h) => h \in dead BY <1>4, <1>5, <1>11 DEF Spent, Typed
    <3> QED BY <1>2, <1>11, <2>1, <3>1 DEF OriginKnown
  <2>6. SpentInPass'
    <3> SUFFICES ASSUME NEW t \in todo, Spent(t)'
                 PROVE  (~Deliverable(t) \/ Has(t, fps) \/ t \in dead \/ InHand(t))'
      BY <1>11 DEF SpentInPass
    <3>1. CASE t = h BY <2>4, <3>1
    <3>2. CASE t # h BY <1>2, <1>5, <1>11, <2>2, <3>2 DEF Deliverable, Has
    <3> QED BY <3>1, <3>2
  <2>7. SpentOnDelivery'
    <3> SUFFICES ASSUME NEW t \in 1..done, Spent(t)'
                 PROVE  (Handled(t) \/ InHand(t) \/ LeftBehind(t))'
      BY <1>2 DEF SpentOnDelivery
    <3>1. CASE t = h BY <2>4, <3>1
    <3>2. CASE t # h
      <4>1. Handled(t) \/ LeftBehind(t)
        BY <1>1, <2>2, <3>2 DEF SentInv, SpentOnDelivery, InHand
      <4>2. Handled(t) => Handled(t)' BY <1>2, <1>11 DEF Handled, Deliverable
      <4>3. LeftBehind(t) => LeftBehind(t)' BY <1>1, <1>2, <1>11 DEF LeftBehind
      <4> QED BY <4>1, <4>2, <4>3
    <3> QED BY <3>1, <3>2
  <2> QED BY <2>3, <2>5, <2>6, <2>7 DEF SentInv
<1> QED BY <1>3, <1>6, <1>8, <1>9, <1>10, <1>11 DEF TurnBegin

\* A delivery is recorded, or its turn goes to the dead-letter dir.
LEMMA PostOverSent == ASSUME ForwardInv, SentInv, PostAnswered \/ PostGivenUp PROVE SentInv'
<1>1. InPass /\ Known BY DEF PostAnswered, PostGivenUp, InPass, Known
<1>2. UNCHANGED <<done, by, text, call, watch, sent>> BY DEF PostAnswered, PostGivenUp
<1>3. PICK h : h = Head OBVIOUS
<1>4. wm \in Mark /\ wm.base = mark.base BY <1>1, HeadInPass
<1>5. \A t \in todo \ {h} : Spent(t) => ~Deliverable(t) \/ Has(t, fps) \/ t \in dead
  BY <1>1, <1>3 DEF SentInv, SpentInPass, InHand
<1>6. CASE PostAnswered
  <2>1. UNCHANGED dead /\ ledger' = ledger \cup {text[h]} /\ Advance(wm, fps \cup {text[h]})
    BY <1>3, <1>6 DEF PostAnswered
  <2>2. Handled(h)' BY <1>2, <2>1 DEF Handled
  <2>3. PICK known : known = fps \cup {text[h]} OBVIOUS
  <2>4. \A t \in todo \ {h} : Spent(t) => ~Deliverable(t) \/ Has(t, known) \/ t \in dead
    BY <1>5, <2>3 DEF Has
  <2> QED BY <1>1, <1>2, <1>3, <1>4, <2>1, <2>2, <2>3, <2>4, AdvanceSent
<1>7. CASE PostGivenUp
  <2>1. UNCHANGED ledger /\ dead' = dead \cup {h} /\ Advance(wm, fps)
    BY <1>3, <1>7 DEF PostGivenUp
  <2>2. Handled(h)' BY <2>1 DEF Handled
  <2> QED BY <1>1, <1>2, <1>3, <1>4, <1>5, <2>1, <2>2, AdvanceSent
<1> QED BY <1>6, <1>7

\* A watcher that stops leaves behind what its pass had not delivered, or has it still to do.
LEMMA StoppedSent ==
  ASSUME ForwardInv, SentInv, Uncut, WatchStart \/ Unwatch \/ Restart
  PROVE  SentInv'
<1>1. UNCHANGED <<done, by, text, mark, sent, dead, ledger>>
  BY DEF WatchStart, Unwatch, Restart, NotCut, Uncut, SentRecords
<1>2. wpc' \in {"off", "sleep"}
  BY DEF WatchStart, Unwatch, Restart, StopWatcher
<1>3. \/ call' = "inspect"
      \/ watch' = FALSE /\ wpc' = "off"
      \/ /\ UNCHANGED watch /\ (wpc' = IF watch THEN "sleep" ELSE "off")
         /\ ~Posting /\ call # "inspect"
  BY DEF WatchStart, Unwatch, Restart, StopWatcher, NotCut, Uncut, Posting
<1>4. SpentOnDelivery'
  <2> SUFFICES ASSUME NEW t \in 1..done, Spent(t)
               PROVE  (Handled(t) \/ LeftBehind(t))'
    BY <1>1 DEF SpentOnDelivery, Spent
  <2>1. Handled(t) \/ InHand(t) \/ LeftBehind(t) BY DEF SentInv, SpentOnDelivery
  <2>2. Handled(t) => Handled(t)' BY <1>1 DEF Handled, Deliverable
  <2> QED BY <1>1, <1>3, <2>1, <2>2 DEF LeftBehind, InHand
<1> QED BY <1>1, <1>2, <1>4 DEF SentInv, Recorded, SpentInPass, OriginKnown, Known, Posting

\* The reply to a prompt of the server has its record.
LEMMA TurnCompletesSent == ASSUME ForwardInv, SentInv, TurnCompletes PROVE SentInv'
<1>1. /\ done \in Nat /\ done' = done + 1 /\ done + 1 \in Turns
      /\ by \in [Turns -> {"mcp", "person"}]
  BY BoundsAssumption DEF TurnCompletes, ForwardInv, MarkTyped, SentInv, Recorded, Turns
<1>2. PICK who \in {"mcp", "person"}, x \in Texts :
        /\ text' = [text EXCEPT ![done + 1] = x]
        /\ by' = [by EXCEPT ![done + 1] = who]
        /\ sent' = IF who = "mcp" THEN sent \cup {done + 1} ELSE sent
  BY DEF TurnCompletes
<1>3. UNCHANGED <<mark, ledger, watch, dead, wpc, todo, fps, origin, call>>
  BY DEF TurnCompletes
<1>4. \A t \in 1..done : /\ t # done + 1 /\ text'[t] = text[t] /\ (Spent(t)' <=> Spent(t))
                         /\ by'[t] = by[t]
  <2>1. \A t \in 1..done : t # done + 1 BY <1>1
  <2> QED BY <1>2, <2>1 DEF Spent
<1>5. PICK h : h = Head OBVIOUS
<1>6. Head' = h BY <1>3, <1>5 DEF Head
<1>7. InPass => h \in 1..done /\ todo \subseteq 1..done
  BY <1>5, HeadInPass DEF ForwardInv, MarkTyped
<1>8. Posting => InPass BY DEF Posting, InPass
<1>9. Known => InPass BY DEF Known, InPass
<1>10. by'[done + 1] = "mcp" => done + 1 \in sent' BY <1>1, <1>2
<1>11. Recorded'
  <2>1. \A t \in sent : t \in 1..done' /\ by'[t] = "mcp" BY <1>1, <1>4 DEF SentInv, Recorded
  <2> QED BY <1>1, <1>2, <2>1 DEF Recorded
<1>12. SpentOnDelivery'
  <2> SUFFICES ASSUME NEW t \in 1..(done + 1), Spent(t)'
               PROVE  (Handled(t) \/ InHand(t) \/ LeftBehind(t))'
    BY <1>1 DEF SpentOnDelivery
  <2>1. t # done + 1 BY <1>10 DEF Spent
  <2>2. t \in 1..done BY <1>1, <2>1
  <2>3. Handled(t) \/ InHand(t) \/ LeftBehind(t) BY <1>4, <2>2 DEF SentInv, SpentOnDelivery
  <2> QED BY <1>3, <1>4, <1>5, <1>6, <2>2, <2>3
          DEF Handled, Deliverable, InHand, Posting, LeftBehind
<1>13. SpentInPass'
  BY <1>3, <1>4, <1>5, <1>6, <1>7, <1>9
     DEF SentInv, SpentInPass, Known, Deliverable, Has, InHand, Posting
<1>14. OriginKnown'
  BY <1>3, <1>4, <1>5, <1>6, <1>7, <1>8 DEF SentInv, OriginKnown, Posting
<1> QED BY <1>11, <1>12, <1>13, <1>14 DEF SentInv

LEMMA SentStep == ASSUME ForwardInv, SentInv, Uncut, [Next]_vars PROVE SentInv'
<1>1. ~WatchCancelled BY DEF WatchCancelled, Uncut
<1> QED BY <1>1, QuietKeepsSent, PassMovesSent, TurnBeginSent, PostOverSent, StoppedSent,
           TurnCompletesSent DEF Next, Poll, Post

\* "An orchestrator prompt mislabelled as the person's" is "the side never to err on": the
\* record a prompt of the server leaves is used up by the delivery of its reply and by
\* nothing else, however passes, torn reads, re-anchoring, connects, resends and restarts
\* interleave; so what is posted as the answer to a person answers one, unless it is a reply
\* that an earlier pass wrote to the dead-letter dir. Assumed are Prompt and Uncut.
THEOREM OriginNeverMistaken == ASSUME Prompt, Uncut PROVE Spec => []OriginErrsOneWay
<1>1. ASSUME ForwardInv, SentInv PROVE OriginErrsOneWay
  <2> SUFFICES ASSUME Posting, origin = "terminal" PROVE by[Head] = "person" \/ Head \in dead
    BY DEF OriginErrsOneWay
  <2>1. by[Head] # "mcp" \/ Head \in dead BY <1>1 DEF SentInv, OriginKnown
  <2>2. Head \in Turns
    BY <1>1, HeadInPass, BoundsAssumption DEF ForwardInv, MarkTyped, Posting, InPass, Turns
  <2> QED BY <1>1, <2>1, <2>2 DEF SentInv, Recorded
<1> QED BY <1>1, ForwardInit, ForwardStep, SentInit, SentStep, PTL DEF Spec

-----------------------------------------------------------------------------
(* LoopGuardHolds.                                                         *)

\* A POST that is sent again, as its answer was lost, is received twice and counted once.
Heard == "acklost" \notin Faults

\* A mark has counted the run that the conversation received, or will start anew.
Counts(m) == m.old \/ streak <= m.run

MarkCounts == wpc # "answer" => Counts(mark)
PassCounts == wpc \in {"read", "deliver"} => Counts(wm)

\* What is being posted was counted before, and did not trip the guard.
PostCounts ==
  /\ Posting => wm.run <= Cap /\ streak <= wm.run
  /\ wpc = "post" /\ by[Head] = "mcp" /\ Head \notin dead => streak < wm.run

\* The inductive invariant of LoopGuardHolds, beside ForwardInv and SentInv.
LoopInv == streak \in Nat /\ streak <= Cap /\ MarkCounts /\ PassCounts /\ PostCounts

LEMMA LoopInit == Init => LoopInv
BY BoundsAssumption DEF Init, LoopInv, MarkCounts, PassCounts, PostCounts, Counts, Blank, Posting

\* Steps that count nothing, and on which a mark keeps its counts.
LEMMA LoopStays ==
  ASSUME LoopInv, UNCHANGED <<by, wpc, wm, todo, dead, streak>>,
         mark'.run = mark.run, mark'.old = mark.old
  PROVE  LoopInv'
<1>1. Head' = Head BY DEF Head
<1> QED BY <1>1 DEF LoopInv, MarkCounts, PassCounts, PostCounts, Counts, Posting

LEMMA QuietKeepsLoop ==
  ASSUME ForwardInv, LoopInv,
         \/ PollUnmarked \/ PollVanished \/ PollTorn \/ PollIdle \/ WatchFinish \/ Resend
         \/ LineLost \/ FileVanishes \/ UNCHANGED vars
  PROVE  LoopInv'
<1>1. CASE PollVanished \/ PollTorn \/ PollIdle
  <2>1. mark'.run = mark.run /\ mark'.old = mark.old BY <1>1, PollIsSame DEF Same
  <2>2. UNCHANGED <<by, wpc, wm, todo, dead, streak>>
    BY <1>1 DEF PollVanished, PollTorn, PollIdle
  <2> QED BY <2>1, <2>2, LoopStays
<1>2. CASE PollUnmarked \/ WatchFinish
  <2>1. mark'.run = mark.run /\ mark'.old = mark.old
    BY <1>2, BaselineIsNow DEF PollUnmarked, WatchFinish
  <2>2. UNCHANGED <<by, wpc, wm, todo, dead, streak>> BY <1>2 DEF PollUnmarked, WatchFinish
  <2> QED BY <2>1, <2>2, LoopStays
<1>3. CASE Resend \/ LineLost \/ FileVanishes \/ UNCHANGED vars
  BY <1>3, LoopStays DEF Resend, ResendStart, ResendArrives, ResendAnswered, ResendFails,
     LineLost, FileVanishes
<1> QED BY <1>1, <1>2, <1>3

\* A pass starts with the counts of the mark.
LEMMA PollNewLoop == ASSUME ForwardInv, LoopInv, PollNew PROVE LoopInv'
<1>1. mark'.run = mark.run /\ mark'.old = mark.old BY PollIsSame DEF Same
<1>2. wpc = "sleep" /\ wpc' = "read" /\ wm' = mark' /\ streak' = streak
  BY DEF PollNew, Reads, Polls
<1>3. Counts(mark)' BY <1>1, <1>2 DEF LoopInv, MarkCounts, Counts
<1> QED BY <1>2, <1>3 DEF LoopInv, MarkCounts, PassCounts, PostCounts, Counts, Posting

\* After an idle gap every mark starts anew.
LEMMA LongIdleLoop == ASSUME ForwardInv, LoopInv, LongIdle PROVE LoopInv'
<1>1. /\ mark' = [mark EXCEPT !.old = TRUE] /\ wm' = [wm EXCEPT !.old = TRUE]
      /\ UNCHANGED <<by, wpc, todo, dead, streak>>
  BY DEF LongIdle
<1>2. mark'.old /\ wm'.old /\ wm'.run = wm.run
  BY <1>1 DEF ForwardInv, MarkTyped, Mark
<1>3. Head' = Head BY <1>1 DEF Head
<1> QED BY <1>1, <1>2, <1>3 DEF LoopInv, MarkCounts, PassCounts, PostCounts, Counts, Posting

\* A mark that moves past a turn keeps the run.
LEMMA AdvanceLoop ==
  ASSUME LoopInv, NEW m \in Mark, NEW known, Advance(m, known),
         streak' \in Nat, streak' <= Cap, Counts(m)'
  PROVE  LoopInv'
<1>1. PICK old, run : old = m.old /\ run = m.run OBVIOUS
<1>2. mark'.run = run /\ mark'.old = old BY <1>1, AdvancedIs
<1>3. Counts(mark)' BY <1>1, <1>2 DEF Counts
<1>4. wpc' = "sleep" \/ (wpc' = "deliver" /\ wm' = mark') BY AdvancedIs
<1>5. wpc' = "deliver" => Counts(wm)' BY <1>3, <1>4 DEF Counts
<1> QED BY <1>3, <1>4, <1>5 DEF LoopInv, MarkCounts, PassCounts, PostCounts, Posting

\* A reply that is about to be posted is counted before, if it may answer the server.
LEMMA TurnBeginLoop == ASSUME ForwardInv, SentInv, LoopInv, TurnBegin PROVE LoopInv'
<1> DEFINE known == IF wpc = "read" THEN ledger ELSE fps
<1>1. wpc \in {"read", "deliver"} /\ InPass BY DEF TurnBegin, InPass
<1>2. PICK h : h = Head OBVIOUS
<1>3. PICK w : w = wm OBVIOUS
<1>4. h \in todo /\ h \in 1..done /\ w \in Mark BY <1>1, <1>2, <1>3, HeadInPass
<1>5. streak \in Nat /\ streak <= Cap /\ (w.old \/ streak <= w.run) /\ Cap \in Nat
  BY <1>1, <1>3, BoundsAssumption DEF LoopInv, PassCounts, Counts
<1>6. PICK human \in BOOLEAN : human = Typed(h) BY DEF Typed
<1>7. PICK m : m = Counted(w, human) OBVIOUS
<1>8. /\ m \in Mark /\ m.old = FALSE
      /\ m.run = IF human THEN 0 ELSE (IF w.old THEN 0 ELSE w.run) + 1
  BY <1>4, <1>7, CountedIs
<1>9. CASE streak' = streak /\ Advance(w, known)
  <2>1. Counts(w)' BY <1>5, <1>9 DEF Counts
  <2> HIDE DEF known
  <2> QED BY <1>4, <1>5, <1>9, <2>1, AdvanceLoop
<1>10. CASE /\ Deliverable(h) /\ ~Has(h, known)
            /\ streak' = (IF w.old \/ by[h] = "person" \/ h \in dead THEN 0 ELSE streak)
            /\ \/ Advance(m, known)
               \/ /\ wpc' = "post" /\ wm' = m /\ ~Trips(m)
                  /\ UNCHANGED <<todo, mark, dead, by>>
  <2>1. human /\ h \notin dead => by[h] = "person"
    <3>1. by[h] = "mcp" /\ human => h \in dead
      BY <1>1, <1>4, <1>6, <1>10, PassKnows DEF Spent, Typed
    <3>2. by[h] \in {"mcp", "person"}
      BY <1>4, BoundsAssumption DEF SentInv, Recorded, ForwardInv, MarkTyped, Turns
    <3> QED BY <3>1, <3>2
  <2>2. streak' \in Nat /\ streak' <= streak /\ streak' <= Cap BY <1>5, <1>10
  <2>3. streak' <= m.run BY <1>4, <1>5, <1>8, <1>10, <2>1 DEF Mark
  <2>4. by[h] = "mcp" /\ h \notin dead => streak' < m.run
    BY <1>4, <1>5, <1>8, <1>10, <2>1 DEF Mark
  <2>5. CASE Advance(m, known)
    <3>1. Counts(m)' BY <2>3 DEF Counts
    <3> HIDE DEF known
    <3> QED BY <1>8, <2>2, <2>5, <3>1, AdvanceLoop
  <2>6. CASE /\ wpc' = "post" /\ wm' = m /\ ~Trips(m)
             /\ UNCHANGED <<todo, mark, dead, by>>
    <3>1. m.run <= Cap BY <1>5, <1>8, <2>6 DEF Trips, Mark
    <3>2. Head' = h BY <1>2, <2>6 DEF Head
    <3>3. MarkCounts'
      <4>1. mark.run \in Nat /\ Counts(mark)
        BY <1>1 DEF ForwardInv, MarkTyped, Mark, LoopInv, MarkCounts
      <4> QED BY <1>5, <2>2, <2>6, <4>1 DEF MarkCounts, Counts
    <3> QED BY <2>2, <2>3, <2>4, <2>6, <3>1, <3>2, <3>3
            DEF LoopInv, PassCounts, PostCounts, Posting
  <2> QED BY <1>10, <2>5, <2>6
<1> QED BY <1>2, <1>3, <1>6, <1>7, <1>9, <1>10 DEF TurnBegin

\* A reply arrives that was counted, and the answer, or the end of its retries, saves that.
LEMMA PostLoop ==
  ASSUME ForwardInv, SentInv, LoopInv, Heard, Post
  PROVE  LoopInv'
<1>1. InPass /\ Posting
  BY DEF Post, PostArrives, PostAnswered, AnswerLost, PostGivenUp, InPass, Posting
<1>2. /\ wm \in Mark /\ wm.run \in Nat /\ Cap \in Nat /\ streak \in Nat
      /\ wm.run <= Cap /\ streak <= wm.run
  BY <1>1, HeadInPass, BoundsAssumption DEF LoopInv, PostCounts, Mark
<1>3. ~AnswerLost BY DEF AnswerLost, Heard
<1>4. CASE PostArrives
  <2>1. /\ wpc = "post" /\ wpc' = "answer" /\ UNCHANGED wm
        /\ streak' = IF by[Head] = "mcp" /\ Head \notin dead THEN streak + 1 ELSE streak
    BY <1>4 DEF PostArrives
  <2>2. streak' \in Nat /\ streak' <= wm.run
    BY <1>2, <2>1 DEF LoopInv, PostCounts
  <2> QED BY <1>2, <2>1, <2>2 DEF LoopInv, MarkCounts, PassCounts, PostCounts, Posting
<1>5. CASE PostAnswered \/ PostGivenUp
  <2>1. PICK known : Advance(wm, known) BY <1>5 DEF PostAnswered, PostGivenUp
  <2>2. streak' = streak BY <1>5 DEF PostAnswered, PostGivenUp
  <2>3. PICK w : w = wm OBVIOUS
  <2>4. Counts(w)' BY <1>2, <2>2, <2>3 DEF Counts
  <2>5. w \in Mark /\ Advance(w, known) /\ streak' \in Nat /\ streak' <= Cap
    BY <1>2, <2>1, <2>2, <2>3
  <2> QED BY <2>4, <2>5, AdvanceLoop
<1> QED BY <1>3, <1>4, <1>5 DEF Post

\* A watcher that stops goes on from the saved mark, which has counted what arrived.
LEMMA StoppedLoop ==
  ASSUME ForwardInv, LoopInv, Uncut, WatchStart \/ Unwatch \/ Restart
  PROVE  LoopInv'
<1>1. wpc # "answer" /\ wpc' \in {"off", "sleep"} /\ UNCHANGED <<mark, streak>>
  BY DEF WatchStart, Unwatch, Restart, NotCut, Uncut, StopWatcher
<1> QED BY <1>1 DEF LoopInv, MarkCounts, PassCounts, PostCounts, Counts, Posting

LEMMA TurnCompletesLoop == ASSUME ForwardInv, LoopInv, TurnCompletes PROVE LoopInv'
<1>1. UNCHANGED <<mark, wpc, wm, todo, dead, streak>> BY DEF TurnCompletes
<1>2. PICK h : h = Head OBVIOUS
<1>3. Head' = h BY <1>1, <1>2 DEF Head
<1>4. Posting => by'[h] = by[h]
  <2>1. Posting => h \in 1..done
    BY <1>2, HeadInPass DEF Posting, InPass
  <2>2. done \in Nat BY DEF ForwardInv, MarkTyped
  <2>3. PICK who : by' = [by EXCEPT ![done + 1] = who] BY DEF TurnCompletes
  <2> QED BY <2>1, <2>2, <2>3
<1> QED BY <1>1, <1>2, <1>3, <1>4
        DEF LoopInv, MarkCounts, PassCounts, PostCounts, Counts, Posting

LEMMA LoopStep ==
  ASSUME ForwardInv, SentInv, LoopInv, Uncut, Heard, [Next]_vars
  PROVE  LoopInv'
<1>1. ~WatchCancelled BY DEF WatchCancelled, Uncut
<1> QED BY <1>1, QuietKeepsLoop, PollNewLoop, LongIdleLoop, TurnBeginLoop, PostLoop, StoppedLoop,
           TurnCompletesLoop DEF Next, Poll

\* The loop guard's run survives restarts, reconnects and every move of the mark, and counts
\* a reply before it is posted: the conversation never receives more than
\* _LOOP_GUARD_MAX_CONSECUTIVE replies to the server's own prompts in a row, where a person's
\* prompt, an idle gap, or a reply that comes back from the dead-letter dir starts a new run.
\* Assumed are Prompt, Uncut and Heard.
THEOREM GuardHoldsAcrossRestarts ==
  ASSUME Prompt, Uncut, Heard PROVE Spec => []LoopGuardHolds
<1>1. LoopInv => LoopGuardHolds BY DEF LoopInv, LoopGuardHolds
<1> QED BY <1>1, ForwardInit, ForwardStep, SentInit, SentStep, LoopInit, LoopStep, PTL DEF Spec

-----------------------------------------------------------------------------
(* TypeOK.                                                                 *)

\* A turn that completed says something of Texts.
Said == \A t \in 1..done : text[t] \in Texts

\* A session_resend has a turn that completed.
Resent == rs # "idle" => rt \in 1..done

\* The inductive invariant of TypeOK: what it says of a mark rests on a set of turns having a
\* first and a last one, and what it says of the ledger on the texts there are.
TypeInv == TypeOK /\ FirstExists /\ LastExists /\ Said /\ Resent

LEMMA TypeInit == Init => TypeInv
<1> SUFFICES ASSUME Init PROVE TypeInv OBVIOUS
<1>1. 1..done = {} BY DEF Init
<1>2. FirstExists /\ LastExists BY <1>1 DEF FirstExists, LastExists
<1>3. Blank \in Marks BY BoundsAssumption DEF Blank, Marks, NoMark
<1>4. /\ done \in 0..MaxTurns /\ src \in [Turns -> 0..MaxFiles]
      /\ text \in [Turns -> Texts \cup {Empty}] /\ by \in [Turns -> {"mcp", "person"}]
      /\ since \in 0..done /\ torn \in 0..TornCap /\ stale \in 0..StaleCap
      /\ got \in [Texts -> Nat]
  BY BoundsAssumption DEF Init
<1>5. /\ calls \in 0..MaxCalls /\ crashes \in 0..MaxCrashes /\ tears \in 0..MaxTears
      /\ moves \in 0..MaxMoves
  BY BoundsAssumption DEF Init
<1>6. TypeOK BY <1>1, <1>3, <1>4, <1>5 DEF Init, TypeOK
<1> QED BY <1>1, <1>2, <1>6 DEF Init, TypeInv, Said, Resent

\* What a transcript tells is of turns that completed.
LEMMA ViewsTyped ==
  ASSUME TypeInv, NEW f, NEW k \in 0..done
  PROVE  /\ Times(f, k) \in SUBSET (1..done) /\ View(f, k) \in SUBSET (1..done)
         /\ Lines(f) \in SUBSET (1..done)
BY DEF TypeInv, TypeOK, Times, View, Lines

\* A mark that is moved and stamped is a mark.
LEMMA MarksTyped ==
  ASSUME TypeInv, NEW m \in Marks, NEW f \in 0..MaxFiles, NEW a \in 0..done
  PROVE  /\ Stamp([m EXCEPT !.file = f, !.last = a]) \in Marks
         /\ Stamp([m EXCEPT !.last = a]) \in Marks /\ Stamp([m EXCEPT !.file = f]) \in Marks
         /\ Stamp([m EXCEPT !.base = done]) \in Marks
         /\ Stamp([[m EXCEPT !.base = done] EXCEPT !.file = f, !.last = a]) \in Marks
         /\ [Stamp(m) EXCEPT !.last = a] \in Marks
<1>1. done \in 0..MaxTurns /\ MaxTurns \in Nat /\ MaxFiles \in Nat
  BY BoundsAssumption DEF TypeInv, TypeOK
<1>2. a \in 0..MaxTurns /\ done \in -1..MaxTurns BY <1>1
<1> DEFINE s == [m EXCEPT !.upd = done]
<1>3. s \in Marks BY <1>1 DEF Marks
<1>4. /\ Stamp([m EXCEPT !.file = f, !.last = a]) = [s EXCEPT !.file = f, !.last = a]
      /\ Stamp([m EXCEPT !.last = a]) = [s EXCEPT !.last = a]
      /\ Stamp([m EXCEPT !.file = f]) = [s EXCEPT !.file = f]
      /\ Stamp([m EXCEPT !.base = done]) = [s EXCEPT !.base = done]
      /\ Stamp([[m EXCEPT !.base = done] EXCEPT !.file = f, !.last = a])
            = [[s EXCEPT !.base = done] EXCEPT !.file = f, !.last = a]
      /\ [Stamp(m) EXCEPT !.last = a] = [s EXCEPT !.last = a]
  BY DEF Stamp, Marks
<1> HIDE DEF s
<1>5. [s EXCEPT !.base = done] \in Marks BY <1>2, <1>3 DEF Marks
<1>6. \A r \in Marks : /\ [r EXCEPT !.file = f, !.last = a] \in Marks
                        /\ [r EXCEPT !.last = a] \in Marks /\ [r EXCEPT !.file = f] \in Marks
  BY <1>2 DEF Marks
<1> QED BY <1>3, <1>4, <1>5, <1>6

LEMMA AnchorsTyped ==
  ASSUME TypeInv, NEW S \in SUBSET (1..done), NEW T \in SUBSET (1..done), NEW m \in Marks
  PROVE  Anchor(S, SeenUntil(T, m)) \in 0..done /\ MaxOf(S \cup {0}) \in 0..done
<1>1. done \in Nat /\ LastExists BY BoundsAssumption DEF TypeInv, TypeOK
<1>2. T # {} => MaxOf(T) \in 1..done BY <1>1, MaxOfTurns
<1>3. SeenUntil(T, m) \in Int BY <1>2 DEF SeenUntil, Latest, Marks
<1>4. PICK a : a = Anchor(S, SeenUntil(T, m)) OBVIOUS
<1>5. a \in S \cup {0} BY <1>1, <1>3, <1>4, AnchorBounds
<1>6. MaxOf(S \cup {0}) \in S \cup {0} BY <1>1, MaxOfTurns
<1>7. S \cup {0} \subseteq 0..done BY <1>1
<1> QED BY <1>4, <1>5, <1>6, <1>7

\* A baseline's mark is a mark.
LEMMA BaselineTyped ==
  ASSUME TypeInv, Baseline
  PROVE  /\ mark' \in Marks /\ tears' \in 0..MaxTears
         /\ UNCHANGED <<torn, stale>> /\ carried' \in BOOLEAN
<1>1. /\ mark \in Marks /\ files \subseteq Files /\ done \in Nat /\ tears \in 0..MaxTears
      /\ MaxTears \in Nat
  BY BoundsAssumption DEF TypeInv, TypeOK
<1>2. tears' \in 0..MaxTears BY <1>1 DEF Baseline, Whole, Torn
<1>3. UNCHANGED <<torn, stale>> /\ carried' \in BOOLEAN BY DEF Baseline, CarryOver
<1>4. CASE files = {}
  <2>1. 0 \in 0..MaxFiles /\ 0 \in 0..done BY <1>1, BoundsAssumption
  <2>2. Stamp([mark EXCEPT !.base = done]) \in Marks BY <1>1, <2>1, MarksTyped
  <2> QED BY <1>2, <1>3, <1>4, <2>2 DEF Baseline, Carried
<1>5. CASE files # {}
  <2>1. PICK f \in files, k \in 0..done : mark' = Stamp(BaselineAt(f, View(f, k)))
    BY <1>5 DEF Baseline, Active
  <2>2. f \in 0..MaxFiles BY <1>1 DEF Files
  <2>3. {} \in SUBSET (1..done) OBVIOUS
  <2>4. PICK a \in 0..done : a = MaxOf(View(f, k) \cup {0}) BY <1>1, <2>3, ViewsTyped, AnchorsTyped
  <2>5. \/ mark' = Stamp([mark EXCEPT !.base = done])
        \/ mark' = Stamp([[mark EXCEPT !.base = done] EXCEPT !.file = f, !.last = a])
    BY <2>1, <2>4 DEF BaselineAt, Carried
  <2> QED BY <1>1, <1>2, <1>3, <2>2, <2>5, MarksTyped
<1> QED BY <1>4, <1>5

\* The marks a poll may leave.
LEMMA PollTyped ==
  ASSUME TypeInv, NEW f \in files, NEW k \in 0..done
  PROVE  /\ Pinned(f) \in Marks
         /\ Stamp([Pinned(f) EXCEPT !.last = Anchor(View(f, k), SeenUntil({}, Pinned(f)))]) \in Marks
         /\ \A g \in files :
              Stamp([Pinned(f) EXCEPT !.file = g,
                       !.last = Anchor(Lines(g), SeenUntil(Times(f, k), Pinned(f)))]) \in Marks
<1>1. mark \in Marks /\ files \subseteq Files /\ done \in Nat /\ MaxFiles \in Nat
  BY BoundsAssumption DEF TypeInv, TypeOK
<1>2. \A g \in files : g \in 0..MaxFiles BY <1>1 DEF Files
<1>3. 0 \in 0..done BY <1>1
<1>4. PICK m : m = Pinned(f) OBVIOUS
<1>5. m \in Marks BY <1>1, <1>2, <1>3, <1>4, MarksTyped DEF Pinned
<1>6. {} \in SUBSET (1..done) OBVIOUS
<1>7. Anchor(View(f, k), SeenUntil({}, m)) \in 0..done BY <1>5, <1>6, ViewsTyped, AnchorsTyped
<1>8. \A g : Anchor(Lines(g), SeenUntil(Times(f, k), m)) \in 0..done
  BY <1>5, ViewsTyped, AnchorsTyped
<1> QED BY <1>2, <1>4, <1>5, <1>7, <1>8, MarksTyped

\* The conjuncts of TypeOK about anything but the mark, which most steps keep.
Rest ==
  /\ done \in 0..MaxTurns /\ src \in [Turns -> 0..MaxFiles]
  /\ text \in [Turns -> Texts \cup {Empty}] /\ by \in [Turns -> {"mcp", "person"}]
  /\ lost \subseteq 1..done /\ files \subseteq Files
  /\ ledger \subseteq Texts /\ sent \subseteq 1..done
  /\ watch \in BOOLEAN /\ dead \subseteq 1..done
  /\ wpc \in {"off", "sleep", "read", "deliver", "post", "answer"}
  /\ todo \subseteq 1..done /\ fps \subseteq ledger
  /\ (todo # {} <=> wpc \in {"read", "deliver", "post", "answer"})
  /\ origin \in {"mcp", "terminal"}
  /\ torn \in 0..TornCap /\ stale \in 0..StaleCap /\ carried \in BOOLEAN
  /\ call \in {"idle", "inspect"} /\ rs \in {"idle", "post", "answer"} /\ rt \in Nat
  /\ got \in [Texts -> Nat] /\ since \in 0..done /\ streak \in Nat
  /\ calls \in 0..MaxCalls /\ crashes \in 0..MaxCrashes /\ tears \in 0..MaxTears
  /\ moves \in 0..MaxMoves

LEMMA TypeParts == TypeOK <=> Rest /\ mark \in Marks /\ wm \in Marks
BY DEF TypeOK, Rest

\* The polls.
LEMMA PollsTyped == ASSUME TypeInv, Poll PROVE TypeOK'
<1>1. Rest /\ mark \in Marks /\ wm \in Marks BY TypeParts DEF TypeInv
<1>2. CASE PollUnmarked
  <2>1. /\ mark' \in Marks /\ tears' \in 0..MaxTears
        /\ UNCHANGED <<torn, stale>> /\ carried' \in BOOLEAN
    BY <1>2, BaselineTyped DEF PollUnmarked
  <2> QED BY <1>1, <1>2, <2>1, TypeParts DEF PollUnmarked, Rest, TypeOK
<1>3. CASE PollVanished
  <2>1. PICK g \in files :
          mark' = Stamp([mark EXCEPT !.file = g, !.last = Anchor(Lines(g), SeenUntil({}, mark))])
    BY <1>3 DEF PollVanished
  <2>2. {} \in SUBSET (1..done) /\ g \in 0..MaxFiles /\ done \in Nat
    BY <1>1, BoundsAssumption DEF Rest, Files
  <2>3. Lines(g) \in SUBSET (1..done) BY <2>2, ViewsTyped
  <2>4. mark' \in Marks BY <1>1, <2>1, <2>2, <2>3, AnchorsTyped, MarksTyped
  <2>5. UNCHANGED <<torn, stale>> /\ carried' \in BOOLEAN BY <1>3 DEF PollVanished, CarryOver
  <2> QED BY <1>1, <1>3, <2>4, <2>5, TypeParts DEF PollVanished, Rest, TypeOK
<1>4. CASE PollTorn \/ PollIdle
  <2>1. PICK f \in files, k \in 0..done :
          /\ Reads(f, k)
          /\ \/ mark' = Pinned(f)
             \/ mark' = Stamp([Pinned(f) EXCEPT
                                 !.last = Anchor(View(f, k), SeenUntil({}, Pinned(f)))])
             \/ \E g \in files :
                  mark' = Stamp([Pinned(f) EXCEPT !.file = g,
                                   !.last = Anchor(Lines(g), SeenUntil(Times(f, k), Pinned(f)))])
    <3>1. CASE PollTorn BY <3>1 DEF PollTorn
    <3>2. CASE PollIdle BY <3>2 DEF PollIdle, Newer
    <3> QED BY <1>4, <3>1, <3>2
  <2>2. mark' \in Marks BY <2>1, PollTyped
  <2>3. tears' = 0 \/ (tears < MaxTears /\ tears' = tears + 1)
    BY <2>1 DEF Reads, Whole, Torn
  <2>4. tears' \in 0..MaxTears BY <1>1, <2>3, BoundsAssumption DEF Rest
  <2>5. torn' \in 0..TornCap /\ stale' \in 0..StaleCap
    <3>1. /\ TornCap \in Nat /\ StaleCap \in Nat /\ torn \in 0..TornCap
          /\ stale \in 0..StaleCap
      BY <1>1, BoundsAssumption DEF Rest
    <3>2. CASE PollTorn
      <4>1. /\ stale' = stale
            /\ torn' = 0 \/ torn' = IF torn < TornCap THEN torn + 1 ELSE torn
        BY <3>2 DEF PollTorn
      <4> QED BY <3>1, <4>1
    <3>3. CASE PollIdle
      <4>1. torn' = 0 /\ (stale' = 0 \/ (stale + 1 < StaleCap /\ stale' = stale + 1))
        BY <3>3 DEF PollIdle
      <4> QED BY <3>1, <4>1
    <3> QED BY <1>4, <3>2, <3>3
  <2>6. UNCHANGED <<transcripts, ledger, sent, watch, dead, watcher, others, history, calls,
                    crashes, moves>>
    BY <1>4 DEF PollTorn, PollIdle
  <2>7. carried' \in BOOLEAN
    <3>1. CASE PollTorn BY <3>1 DEF PollTorn, CarryOver
    <3>2. CASE PollIdle BY <3>2 DEF PollIdle, CarryOver
    <3> QED BY <1>4, <3>1, <3>2
  <2> QED BY <1>1, <2>2, <2>4, <2>5, <2>6, <2>7 DEF Rest, TypeOK
<1>5. CASE PollNew
  <2>1. PICK f \in files, k \in 0..done :
          /\ Reads(f, k) /\ mark' = Pinned(f) /\ wm' = Pinned(f)
          /\ todo' = After(View(f, k), Pinned(f).last) /\ todo' # {}
    BY <1>5 DEF PollNew
  <2>2. mark' \in Marks /\ wm' \in Marks BY <2>1, PollTyped
  <2>3. tears' = 0 \/ (tears < MaxTears /\ tears' = tears + 1)
    BY <2>1 DEF Reads, Whole, Torn
  <2>4. tears' \in 0..MaxTears BY <1>1, <2>3, BoundsAssumption DEF Rest
  <2>5. todo' \subseteq 1..done BY <2>1, ViewsTyped DEF After
  <2>6. wpc' = "read" /\ torn' = 0 /\ stale' = 0 /\ carried' = FALSE BY <1>5 DEF PollNew
  <2>7. UNCHANGED <<transcripts, ledger, sent, watch, dead, fps, origin, others, history, calls,
                    crashes, moves>>
    BY <1>5 DEF PollNew
  <2>8. 0 \in 0..TornCap /\ 0 \in 0..StaleCap BY BoundsAssumption
  <2> QED BY <1>1, <2>1, <2>2, <2>4, <2>5, <2>6, <2>7, <2>8 DEF Rest, TypeOK
<1> QED BY <1>2, <1>3, <1>4, <1>5 DEF Poll

\* The first turn of a pass is one of its turns.
LEMMA HeadTyped ==
  ASSUME TypeInv, todo # {}
  PROVE  Head \in todo /\ Head \in 1..done
<1>1. todo \in SUBSET (1..done) BY DEF TypeInv, TypeOK
<1>2. PICK t \in todo : \A u \in todo : t <= u BY <1>1 DEF TypeInv, FirstExists
<1> QED BY <1>1, <1>2 DEF Head, MinOf

\* A mark that moves past a turn, and the pass that goes on with it.
LEMMA AdvanceTyped ==
  ASSUME TypeInv, todo # {}, NEW m \in Marks, NEW known, Advance(m, known),
         known \subseteq ledger'
  PROVE  /\ mark' \in Marks /\ wm' \in Marks /\ todo' \subseteq 1..done /\ fps' \subseteq ledger'
         /\ wpc' \in {"sleep", "deliver"} /\ (todo' # {} <=> wpc' = "deliver")
         /\ origin' = "terminal"
<1>1. PICK h \in 1..done : h = Head BY HeadTyped
<1>2. done \in Nat /\ 0 \in 0..MaxFiles BY BoundsAssumption DEF TypeInv, TypeOK
<1>3. h \in 0..done BY <1>1, <1>2
<1>4. mark' \in Marks BY <1>1, <1>2, <1>3, MarksTyped DEF Advance
<1>5. Blank \in Marks BY BoundsAssumption DEF Blank, Marks, NoMark
<1>6. todo' \subseteq 1..done BY DEF Advance, TypeInv, TypeOK
<1> QED BY <1>4, <1>5, <1>6 DEF Advance

LEMMA TurnBeginTyped == ASSUME TypeInv, TurnBegin PROVE TypeOK'
<1>1. Rest /\ mark \in Marks /\ wm \in Marks BY TypeParts DEF TypeInv
<1>2. PICK known : known = IF wpc = "read" THEN ledger ELSE fps OBVIOUS
<1>3. PICK m : m = Counted(wm, Typed(Head)) OBVIOUS
<1>4. todo # {} /\ wpc \in {"read", "deliver"} BY <1>1 DEF TurnBegin, Rest
<1>5. PICK h \in 1..done : h = Head BY <1>4, HeadTyped
<1>6. m \in Marks
  <2>1. PICK human \in BOOLEAN : human = Typed(Head) BY DEF Typed
  <2>2. PICK r, a : /\ r = (IF human THEN 0 ELSE (IF wm.old THEN 0 ELSE wm.run) + 1)
                    /\ a = (IF wm.old THEN 0 ELSE wm.all) + 1
    OBVIOUS
  <2>3. m = [wm EXCEPT !.run = r, !.all = a, !.old = FALSE] BY <1>3, <2>1, <2>2 DEF Counted
  <2>4. r \in Nat /\ a \in Nat BY <1>1, <2>2 DEF Marks
  <2> QED BY <1>1, <2>3, <2>4 DEF Marks
<1>7. known \subseteq ledger BY <1>1, <1>2 DEF Rest
<1>8. UNCHANGED <<transcripts, ledger, watch, counts, others, got, since, bounds>>
  BY DEF TurnBegin
<1>9. sent' \subseteq sent /\ streak' \in {0, streak} /\ dead' \subseteq dead \cup {h}
  BY <1>5 DEF TurnBegin
<1>10. \/ Advance(wm, known) \/ Advance(m, known)
       \/ /\ wpc' = "post" /\ wm' = m /\ fps' = known /\ UNCHANGED <<todo, mark>>
          /\ origin' \in {"mcp", "terminal"}
  BY <1>2, <1>3 DEF TurnBegin
<1>11. /\ mark' \in Marks /\ wm' \in Marks /\ todo' \subseteq 1..done /\ fps' \subseteq ledger'
       /\ wpc' \in {"sleep", "deliver", "post"} /\ (todo' # {} <=> wpc' # "sleep")
       /\ origin' \in {"mcp", "terminal"}
  <2>1. CASE Advance(wm, known) BY <1>1, <1>4, <1>7, <1>8, <2>1, AdvanceTyped
  <2>2. CASE Advance(m, known) BY <1>4, <1>6, <1>7, <1>8, <2>2, AdvanceTyped
  <2>3. CASE /\ wpc' = "post" /\ wm' = m /\ fps' = known /\ UNCHANGED <<todo, mark>>
             /\ origin' \in {"mcp", "terminal"}
    BY <1>1, <1>4, <1>6, <1>7, <1>8, <2>3 DEF Rest
  <2> QED BY <1>10, <2>1, <2>2, <2>3
<1> QED BY <1>1, <1>8, <1>9, <1>11 DEF Rest, TypeOK

LEMMA PostTyped == ASSUME TypeInv, Post PROVE TypeOK'
<1>1. Rest /\ mark \in Marks /\ wm \in Marks BY TypeParts DEF TypeInv
<1>2. todo # {} /\ wpc \in {"post", "answer"}
  BY <1>1 DEF Post, PostArrives, PostAnswered, AnswerLost, PostGivenUp, Rest
<1>3. PICK h \in 1..done : h = Head BY <1>2, HeadTyped
<1>4. CASE PostArrives
  <2>1. got' \in [Texts -> Nat]
    <3>1. got' = [got EXCEPT ![text[h]] = @ + 1] BY <1>3, <1>4 DEF PostArrives, Receive
    <3>2. CASE text[h] \in Texts BY <1>1, <3>1, <3>2 DEF Rest
    <3>3. CASE text[h] \notin Texts BY <1>1, <3>1, <3>3 DEF Rest
    <3> QED BY <3>2, <3>3
  <2>2. streak' \in Nat BY <1>1, <1>4 DEF PostArrives, Rest
  <2> QED BY <1>1, <1>2, <1>4, <2>1, <2>2 DEF PostArrives, Rest, TypeOK
<1>5. CASE AnswerLost
  <2>1. moves' \in 0..MaxMoves BY <1>1, <1>5, BoundsAssumption DEF AnswerLost, Disturb, Rest
  <2> QED BY <1>1, <1>2, <1>5, <2>1 DEF AnswerLost, Disturb, Rest, TypeOK
<1>6. CASE PostAnswered
  <2>1. text[h] \in Texts BY DEF TypeInv, Said
  <2>2. PICK known : known = fps \cup {text[h]} OBVIOUS
  <2>3. ledger' = ledger \cup {text[h]} /\ Advance(wm, known)
    BY <1>3, <1>6, <2>2 DEF PostAnswered
  <2>4. known \subseteq ledger' BY <1>1, <2>2, <2>3 DEF Rest
  <2>5. /\ mark' \in Marks /\ wm' \in Marks /\ todo' \subseteq 1..done /\ fps' \subseteq ledger'
        /\ wpc' \in {"sleep", "deliver"} /\ (todo' # {} <=> wpc' = "deliver")
        /\ origin' = "terminal"
    BY <1>1, <1>2, <2>3, <2>4, AdvanceTyped
  <2>6. UNCHANGED <<transcripts, sent, watch, dead, counts, others, history, bounds>>
    BY <1>6 DEF PostAnswered
  <2>7. ledger' \subseteq Texts BY <1>1, <2>1, <2>3 DEF Rest
  <2> QED BY <1>1, <2>5, <2>6, <2>7 DEF Rest, TypeOK
<1>7. CASE PostGivenUp
  <2>1. fps \subseteq ledger' BY <1>1, <1>7 DEF PostGivenUp, Rest
  <2>2. /\ mark' \in Marks /\ wm' \in Marks /\ todo' \subseteq 1..done /\ fps' \subseteq ledger'
        /\ wpc' \in {"sleep", "deliver"} /\ (todo' # {} <=> wpc' = "deliver")
        /\ origin' = "terminal"
    BY <1>1, <1>2, <1>7, <2>1, AdvanceTyped DEF PostGivenUp
  <2>3. dead' \subseteq 1..done BY <1>1, <1>3, <1>7 DEF PostGivenUp, Rest
  <2>4. moves' \in 0..MaxMoves BY <1>1, <1>7, BoundsAssumption DEF PostGivenUp, Disturb, Rest
  <2>5. UNCHANGED <<transcripts, ledger, sent, watch, counts, others, history, calls, crashes,
                    tears>>
    BY <1>7 DEF PostGivenUp, Disturb
  <2> QED BY <1>1, <2>2, <2>3, <2>4, <2>5 DEF Rest, TypeOK
<1> QED BY <1>4, <1>5, <1>6, <1>7 DEF Post

LEMMA ResendTyped == ASSUME TypeInv, Resend PROVE TypeOK'
<1>1. Rest /\ mark \in Marks /\ wm \in Marks BY TypeParts DEF TypeInv
<1>2. CASE ResendStart
  <2>1. rt' \in Nat BY <1>2, <1>1 DEF ResendStart, Lines, View, Times, Rest
  <2>2. calls' \in 0..MaxCalls BY <1>1, <1>2, BoundsAssumption DEF ResendStart, Call, Rest
  <2> QED BY <1>1, <1>2, <2>1, <2>2 DEF ResendStart, Call, Rest, TypeOK
<1>3. CASE ResendArrives
  <2>1. rt \in 1..done BY <1>3 DEF ResendArrives, TypeInv, Resent
  <2>2. text[rt] \in Texts BY <2>1 DEF TypeInv, Said
  <2>3. got' \in [Texts -> Nat] BY <1>1, <1>3, <2>2 DEF ResendArrives, Receive, Rest
  <2> QED BY <1>1, <1>3, <2>3 DEF ResendArrives, Rest, TypeOK
<1>4. CASE ResendAnswered
  <2>1. rt \in 1..done BY <1>4 DEF ResendAnswered, TypeInv, Resent
  <2>2. text[rt] \in Texts BY <2>1 DEF TypeInv, Said
  <2>3. ledger' \subseteq Texts /\ fps \subseteq ledger'
    BY <1>1, <1>4, <2>2 DEF ResendAnswered, Rest
  <2> QED BY <1>1, <1>4, <2>3 DEF ResendAnswered, Rest, TypeOK
<1>5. CASE ResendFails
  <2>1. moves' \in 0..MaxMoves BY <1>1, <1>5, BoundsAssumption DEF ResendFails, Disturb, Rest
  <2> QED BY <1>1, <1>5, <2>1 DEF ResendFails, Disturb, Rest, TypeOK
<1> QED BY <1>2, <1>3, <1>4, <1>5 DEF Resend

LEMMA CallsTyped ==
  ASSUME TypeInv, WatchStart \/ WatchFinish \/ WatchCancelled \/ Unwatch \/ Restart
  PROVE  TypeOK'
<1>1. Rest /\ mark \in Marks /\ wm \in Marks BY TypeParts DEF TypeInv
<1>2. Blank \in Marks /\ 0 \in 0..TornCap /\ 0 \in 0..StaleCap
  BY BoundsAssumption DEF Blank, Marks, NoMark
<1>3. CASE WatchStart
  <2>1. calls' \in 0..MaxCalls BY <1>1, <1>3, BoundsAssumption DEF WatchStart, Call, Rest
  <2> QED BY <1>1, <1>2, <1>3, <2>1 DEF WatchStart, Call, StopWatcher, Rest, TypeOK
<1>4. CASE WatchFinish
  <2>1. /\ mark' \in Marks /\ tears' \in 0..MaxTears
        /\ UNCHANGED <<torn, stale>> /\ carried' \in BOOLEAN
    BY <1>4, BaselineTyped DEF WatchFinish
  <2>2. since' \in 0..done BY <1>1, <1>4 DEF WatchFinish, Rest
  <2> QED BY <1>1, <1>4, <2>1, <2>2 DEF WatchFinish, Rest, TypeOK
<1>5. CASE WatchCancelled BY <1>1, <1>5 DEF WatchCancelled, Rest, TypeOK
<1>6. CASE Unwatch
  <2>1. calls' \in 0..MaxCalls BY <1>1, <1>6, BoundsAssumption DEF Unwatch, Call, Rest
  <2> QED BY <1>1, <1>2, <1>6, <2>1 DEF Unwatch, Call, StopWatcher, Rest, TypeOK
<1>7. CASE Restart
  <2>1. crashes' \in 0..MaxCrashes BY <1>1, <1>7, BoundsAssumption DEF Restart, Rest
  <2>2. ledger' \subseteq Texts
    <3>1. CASE ledger' = ledger BY <1>1, <3>1 DEF Rest
    <3>2. CASE wpc = "answer" /\ ledger' = ledger \cup {text[Head]}
      <4>1. Head \in 1..done BY <1>1, <3>2, HeadTyped DEF Rest
      <4>2. text[Head] \in Texts BY <4>1 DEF TypeInv, Said
      <4> QED BY <1>1, <3>2, <4>2 DEF Rest
    <3> QED BY <1>7, <3>1, <3>2 DEF Restart
  <2>3. /\ UNCHANGED <<transcripts, mark, watch, dead, history, calls, tears, moves, sent>>
        /\ wpc' \in {"off", "sleep"} /\ wm' = Blank /\ todo' = {} /\ fps' = {}
        /\ origin' = "terminal" /\ torn' = 0 /\ stale' = 0 /\ carried' = FALSE
        /\ call' = "idle" /\ rs' = "idle" /\ rt' = 1
    BY <1>7 DEF Restart, StopWatcher, SentRecords
  <2> QED BY <1>1, <1>2, <2>1, <2>2, <2>3 DEF Rest, TypeOK
<1> QED BY <1>3, <1>4, <1>5, <1>6, <1>7

LEMMA SessionTyped ==
  ASSUME TypeInv, TurnCompletes \/ LineLost \/ FileVanishes \/ LongIdle \/ UNCHANGED vars
  PROVE  TypeOK'
<1>1. Rest /\ mark \in Marks /\ wm \in Marks BY TypeParts DEF TypeInv
<1>2. CASE TurnCompletes
  <2>1. PICK f \in Files, x \in Texts, who \in {"mcp", "person"} :
          /\ src' = [src EXCEPT ![done + 1] = f] /\ files' = files \cup {f}
          /\ text' = [text EXCEPT ![done + 1] = x]
          /\ by' = [by EXCEPT ![done + 1] = who]
          /\ sent' = IF who = "mcp" THEN sent \cup {done + 1} ELSE sent
    BY <1>2 DEF TurnCompletes, Writable
  <2>2. done \in Nat /\ done' = done + 1 /\ done' \in 0..MaxTurns /\ 1..done \subseteq 1..done'
    BY <1>1, <1>2, BoundsAssumption DEF TurnCompletes, Rest
  <2>3. f \in 0..MaxFiles BY DEF Files
  <2>4. /\ src' \in [Turns -> 0..MaxFiles] /\ text' \in [Turns -> Texts \cup {Empty}]
        /\ by' \in [Turns -> {"mcp", "person"}] /\ files' \subseteq Files
    BY <1>1, <2>1, <2>3 DEF Rest
  <2>5. done + 1 \in 1..done' /\ 0..done \subseteq 0..done' BY <2>2
  <2>6. lost \subseteq 1..done' /\ sent' \subseteq 1..done' /\ dead \subseteq 1..done'
        /\ todo \subseteq 1..done' /\ since \in 0..done'
    BY <1>1, <2>1, <2>2, <2>5 DEF Rest
  <2>7. UNCHANGED <<lost, mark, ledger, watch, dead, watcher, counts, others, history, bounds>>
    BY <1>2 DEF TurnCompletes
  <2> QED BY <1>1, <2>2, <2>4, <2>6, <2>7 DEF Rest, TypeOK
<1>3. CASE LineLost \/ FileVanishes
  <2>1. lost' \subseteq 1..done /\ files' \subseteq files
    BY <1>1, <1>3, ViewsTyped DEF LineLost, FileVanishes, Rest, Lines, View, Times
  <2>2. moves' \in 0..MaxMoves
    BY <1>1, <1>3, BoundsAssumption DEF LineLost, FileVanishes, Disturb, Rest
  <2>3. UNCHANGED <<done, src, text, by, disk, watcher, counts, others, history, calls, crashes,
                    tears>>
    BY <1>3 DEF LineLost, FileVanishes, Disturb
  <2> QED BY <1>1, <2>1, <2>2, <2>3 DEF Rest, TypeOK
<1>4. CASE LongIdle
  <2>1. mark' \in Marks /\ wm' \in Marks BY <1>1, <1>4 DEF LongIdle, Marks
  <2>2. moves' \in 0..MaxMoves BY <1>1, <1>4, BoundsAssumption DEF LongIdle, Disturb, Rest
  <2> QED BY <1>1, <1>4, <2>1, <2>2 DEF LongIdle, Disturb, Rest, TypeOK
<1>5. CASE UNCHANGED vars BY <1>1, <1>5 DEF Rest, TypeOK
<1> QED BY <1>2, <1>3, <1>4, <1>5

\* The rest of TypeInv.
LEMMA TurnsTold == ASSUME TypeInv, [Next]_vars PROVE FirstExists' /\ LastExists' /\ Said' /\ Resent'
<1>1. done \in Nat /\ Rest BY BoundsAssumption, TypeParts DEF TypeInv, TypeOK
<1>2. CASE TurnCompletes
  <2>1. done' = done + 1 /\ UNCHANGED <<rs, rt>> BY <1>2 DEF TurnCompletes
  <2>2. PICK x \in Texts : text' = [text EXCEPT ![done + 1] = x] BY <1>2 DEF TurnCompletes
  <2>3. done + 1 \in Turns BY <1>1, <1>2, BoundsAssumption DEF TurnCompletes, Turns
  <2>4. Said'
    <3> SUFFICES ASSUME NEW t \in 1..(done + 1) PROVE text'[t] \in Texts BY <2>1 DEF Said
    <3>1. CASE t = done + 1 BY <1>1, <2>2, <2>3, <3>1 DEF Rest
    <3>2. CASE t # done + 1
      <4>1. t \in 1..done BY <1>1, <3>2
      <4> QED BY <2>2, <3>2, <4>1 DEF TypeInv, Said
    <3> QED BY <3>1, <3>2
  <2>5. Resent' BY <1>1, <2>1 DEF TypeInv, Resent
  <2> QED BY <1>1, <2>1, <2>4, <2>5, OneMoreTurn, OneMoreLast DEF TypeInv
<1>3. CASE ~TurnCompletes
  <2>1. UNCHANGED <<done, text>>
    BY <1>3 DEF Next, Poll, PollUnmarked, PollVanished, PollTorn, PollIdle, PollNew, TurnBegin,
       Post, PostArrives, PostAnswered, AnswerLost, PostGivenUp, Resend, ResendStart,
       ResendArrives, ResendAnswered, ResendFails, WatchStart, WatchFinish, WatchCancelled,
       Unwatch, Restart, LineLost, FileVanishes, LongIdle
  <2>2. FirstExists' /\ LastExists' /\ Said'
    BY <2>1 DEF TypeInv, FirstExists, LastExists, Said
  <2>3. rs' = "idle" \/ rt' \in 1..done \/ (UNCHANGED rt /\ rs # "idle") \/ UNCHANGED <<rs, rt>>
    BY <1>3 DEF Next, Poll, PollUnmarked, PollVanished, PollTorn, PollIdle, PollNew, TurnBegin,
       Post, PostArrives, PostAnswered, AnswerLost, PostGivenUp, Resend, ResendStart,
       ResendArrives, ResendAnswered, ResendFails, WatchStart, WatchFinish, WatchCancelled,
       Unwatch, Restart, LineLost, FileVanishes, LongIdle, Lines, View, Times
  <2>4. Resent' BY <2>1, <2>3 DEF TypeInv, Resent
  <2> QED BY <2>2, <2>4
<1> QED BY <1>2, <1>3

LEMMA TypeStep == ASSUME TypeInv, [Next]_vars PROVE TypeInv'
BY PollsTyped, TurnBeginTyped, PostTyped, ResendTyped, CallsTyped, SessionTyped, TurnsTold
   DEF Next, TypeInv

\* Every variable has its type, in every state and for every constant, whatever goes wrong.
THEOREM TypesHold == Spec => []TypeOK
<1>1. TypeInv => TypeOK BY DEF TypeInv
<1> QED BY <1>1, TypeInit, TypeStep, PTL DEF Spec

-----------------------------------------------------------------------------
(* NoReplySkipped.                                                         *)

\* Lines go, and Claude starts again, only after the watcher has caught up; the torn reads in a
\* row are fewer than the polls the watcher waits, and none comes while it still counts polls
\* from before its mark last moved.
Settled == Faults \cap {"latelose", "quickstart"} = {}
Gated   == MaxTears < TornCap /\ MaxTears < StaleCap /\ "carried" \notin Faults

\* A reply from after the connect that is still to be delivered and can be.
Pending(t) == t > mark.base /\ ~Handled(t) /\ t \notin lost

\* Claude leaves a transcript for good, and the one it writes to stays.
InOrder ==
  /\ \A t, u \in 1..done : t <= u => src[t] <= src[u]
  /\ \A t \in 1..done : src[t] \in Files
  /\ \A f \in files : \E t \in 1..done : src[t] = f
  /\ done # 0 => src[done] \in files
  /\ \A t \in 1..done : src[t] \in files \/ t \in lost

\* What is to be delivered is behind the anchor in the mark's file, or in the transcript
\* that Claude writes to.
PendingAhead ==
  \A t \in 1..done : Pending(t) =>
    /\ src[t] = mark.file \/ src[t] = src[done]
    /\ src[t] = mark.file => t > mark.last

\* Once the anchor or the whole file is lost, it was written after the mark was last saved.
PendingAfterLoss ==
  mark.last \in lost \/ mark.file \notin files \cup {0} =>
    \A t \in 1..done : Pending(t) => t > mark.upd

\* A pass has all there was of it in its file, and loses none.
PassComplete ==
  InPass =>
    /\ todo \cap lost = {}
    /\ \A t \in 1..done : Pending(t) /\ src[t] = mark.file =>
         t \in todo \/ \A u \in todo : u < t

\* The inductive invariant of NoReplySkipped, beside ForwardInv, TypeInv and CountsMean.
SkipInv == InOrder /\ PendingAhead /\ PendingAfterLoss /\ PassComplete

\* Claude writes to a later transcript, and nothing in the mark's is left to deliver.
LeftForGood ==
  /\ done # 0 /\ mark.file < src[done]
  /\ \A t \in 1..done : Pending(t) => src[t] # mark.file

\* What the counts say, when all of their polls were made where the mark is: a missing anchor
\* is missing from torn reads only, and an idle transcript is left for good or was torn.
CountsMean ==
  /\ InPass => torn = 0 /\ stale = 0
  /\ ~carried /\ mark.last \notin lost => torn <= tears
  /\ ~carried /\ mark.last \notin lost /\ stale # 0 => stale <= tears \/ LeftForGood

LEMMA SkipInit == Init => SkipInv
<1> SUFFICES ASSUME Init PROVE SkipInv OBVIOUS
<1>1. 1..done = {} BY DEF Init
<1> QED BY <1>1 DEF Init, SkipInv, InOrder, PendingAhead, PendingAfterLoss, PassComplete, InPass

\* A turn in the transcript Claude writes to is newer than all the others hold.
LEMMA CurrentIsNewest ==
  ASSUME TypeInv, InOrder, NEW t \in 1..done, NEW u \in 1..done,
         src[t] = src[done], src[u] # src[t]
  PROVE  u < t
<1>1. done \in Nat /\ done \in 1..done BY BoundsAssumption DEF TypeInv, TypeOK
<1>2. src[u] <= src[done] /\ src[u] \in Nat /\ src[done] \in Nat
  BY <1>1 DEF InOrder, Files
<1>3. t <= u => src[t] <= src[u] BY DEF InOrder
<1> QED BY <1>1, <1>2, <1>3

\* The transcript Claude writes to.
LEMMA CurrentIs ==
  ASSUME TypeInv, InOrder
  PROVE  Current = IF done = 0 THEN 0 ELSE src[done]
<1>1. done \in Nat BY BoundsAssumption DEF TypeInv, TypeOK
<1> DEFINE S == {src[t] : t \in 1..done} \cup {0}
<1>2. CASE done = 0
  <2>1. 1..done = {} BY <1>2
  <2>2. S = {0} BY <2>1
  <2>3. Current = MaxOf(S) BY DEF Current
  <2> HIDE DEF S
  <2> QED BY <1>2, <2>2, <2>3 DEF MaxOf
<1>3. CASE done # 0
  <2>1. done \in 1..done BY <1>1, <1>3
  <2>2. src[done] \in S /\ \A y \in S : y <= src[done] /\ y \in Nat
    BY <1>1, <2>1 DEF InOrder, Files
  <2>3. Current = MaxOf(S) BY DEF Current
  <2> HIDE DEF S
  <2>4. MaxOf(S) \in S /\ \A y \in S : y <= MaxOf(S) BY <2>2 DEF MaxOf
  <2>5. MaxOf(S) = src[done]
    <3>1. MaxOf(S) <= src[done] /\ src[done] <= MaxOf(S) /\ MaxOf(S) \in Nat /\ src[done] \in Nat
      BY <2>2, <2>4
    <3> QED BY <3>1
  <2> QED BY <1>3, <2>3, <2>5
<1> QED BY <1>2, <1>3

\* The anchor is no later than seen.
LEMMA AnchorNotAfter ==
  ASSUME done \in Nat, LastExists, NEW S \in SUBSET (1..done), NEW seen \in Int,
         NEW t \in 1..done, t > seen
  PROVE  t > Anchor(S, seen)
<1> DEFINE T == {u \in S : u <= seen}
<1>1. T \in SUBSET (1..done) OBVIOUS
<1>2. PICK a : a = Anchor(S, seen) OBVIOUS
<1>3. a \in T \cup {0} BY <1>1, <1>2, MaxOfTurns DEF Anchor
<1>4. t \in Nat /\ t > 0 BY DEF LastExists
<1>5. CASE a = 0 BY <1>2, <1>4, <1>5
<1>6. CASE a \in T
  <2>1. a \in Int /\ a <= seen BY <1>6
  <2> QED BY <1>2, <1>4, <2>1
<1> QED BY <1>3, <1>5, <1>6

\* A poll reads a whole file, or a part of it that may lack an anchor the file has.
LEMMA ReadsWhat ==
  ASSUME TypeInv, Prompt, Gated, NEW f, NEW k \in 0..done, Reads(f, k)
  PROVE  /\ f \in files /\ mark.file \in {0, f} /\ mark.base # NoMark
         /\ \/ k = done /\ View(f, k) = Lines(f) /\ Times(f, k) = Times(f, done) /\ tears' = 0
            \/ mark.last \notin lost \cup {0} /\ ~carried /\ tears < MaxTears /\ tears' = tears + 1
BY DEF Reads, Whole, Torn, Prompt, Gated, Active, Lines

\* Steps that move no mark, and on which no pending reply comes up.
LEMMA SkipStays ==
  ASSUME SkipInv, UNCHANGED <<done, src, text, files, lost>>, ledger \subseteq ledger',
         dead \subseteq dead', mark'.file = mark.file, mark'.last = mark.last,
         mark'.base = mark.base, mark'.upd = mark.upd, InPass' => InPass /\ UNCHANGED todo
  PROVE  SkipInv'
<1>1. \A t \in 1..done : Pending(t)' => Pending(t)
  BY DEF Pending, Handled, Deliverable
<1>2. InOrder' BY DEF SkipInv, InOrder
<1>3. PendingAhead' BY <1>1 DEF SkipInv, PendingAhead
<1>4. PendingAfterLoss' BY <1>1 DEF SkipInv, PendingAfterLoss
<1>5. PassComplete' BY <1>1 DEF SkipInv, PassComplete
<1> QED BY <1>2, <1>3, <1>4, <1>5 DEF SkipInv

\* Steps after which nothing is pending.
LEMMA NothingPending ==
  ASSUME InOrder', ~InPass', \A t \in 1..done' : ~Pending(t)'
  PROVE  SkipInv'
BY DEF SkipInv, PendingAhead, PendingAfterLoss, PassComplete

\* The mark moves to file g, where all that is pending in g is behind its anchor.
LEMMA SkipMoved ==
  ASSUME SkipInv, UNCHANGED <<done, src, text, files, lost, ledger, dead>>, ~InPass',
         mark'.base = mark.base, NEW g \in files, mark'.file = g, mark'.last \in Lines(g) \cup {0},
         0 \notin lost,
         \A t \in 1..done : Pending(t) =>
           /\ src[t] = g \/ src[t] = src[done]
           /\ src[t] = g => t > mark'.last
  PROVE  SkipInv'
<1>1. \A t \in 1..done : Pending(t)' <=> Pending(t)
  BY DEF Pending, Handled, Deliverable
<1>2. InOrder' BY DEF SkipInv, InOrder
<1>3. PendingAhead' BY <1>1 DEF PendingAhead
<1>4. PendingAfterLoss' BY DEF PendingAfterLoss, Lines, View
<1> QED BY <1>2, <1>3, <1>4 DEF SkipInv, PassComplete

\* The mark is pinned to the first transcript there is: all of it is behind no anchor.
LEMMA PinnedSkip ==
  ASSUME ForwardInv, TypeInv, SkipInv, NEW f \in files, mark.file \in {0, f},
         mark' = Pinned(f), ~InPass',
         UNCHANGED <<done, src, text, files, lost, ledger, dead>>
  PROVE  SkipInv'
<1>1. CASE mark.file # 0 BY <1>1, SkipStays DEF Pinned
<1>2. CASE mark.file = 0
  <2>1. mark \in Mark /\ mark.last = 0 /\ lost \subseteq 1..done
    BY <1>2 DEF ForwardInv, MarkTyped, Connected, TypeInv, TypeOK
  <2>2. mark'.base = mark.base /\ mark'.file = f /\ mark'.last = 0
    BY <1>2, <2>1 DEF Pinned, Stamp, Mark
  <2>3. ASSUME NEW t \in 1..done, Pending(t) PROVE src[t] = src[done] /\ t > 0
    <3>1. src[t] # 0 /\ t > 0 BY DEF SkipInv, InOrder, Files
    <3> QED BY <1>2, <2>3, <3>1 DEF SkipInv, PendingAhead
  <2> QED BY <2>1, <2>2, <2>3, SkipMoved
<1> QED BY <1>1, <1>2

\* What Pinned leaves of a mark.
LEMMA PinnedLeaves ==
  ASSUME ForwardInv, NEW f \in files, mark.file \in {0, f}
  PROVE  /\ Pinned(f) \in Mark /\ Pinned(f).file = f /\ Pinned(f).last = mark.last
         /\ Pinned(f).base = mark.base /\ Pinned(f).upd \in {mark.upd, done}
<1>1. mark \in Mark /\ f \in Nat /\ done \in Nat BY DEF ForwardInv, MarkTyped, Files
<1>2. CASE mark.file = 0
  <2>1. Pinned(f) = Stamp([mark EXCEPT !.file = f]) BY <1>2 DEF Pinned
  <2> QED BY <1>1, <2>1 DEF Stamp, Mark
<1>3. CASE mark.file # 0 BY <1>1, <1>3 DEF Pinned, Mark
<1> QED BY <1>2, <1>3

\* The mark follows from f, which has nothing pending, to g: what is pending is newer than f.
LEMMA FollowSkip ==
  ASSUME ForwardInv, TypeInv, SkipInv, NEW f \in files, NEW g \in files, g # f,
         NEW m \in Mark, m.base = mark.base, NEW k \in 0..done, Times(f, k) # {},
         \A t \in 1..done : Pending(t) => src[t] # f /\ src[t] = src[done],
         mark' = Stamp([m EXCEPT !.file = g,
                          !.last = Anchor(Lines(g), SeenUntil(Times(f, k), m))]),
         ~InPass', UNCHANGED <<done, src, text, files, lost, ledger, dead>>
  PROVE  SkipInv'
<1>1. done \in Nat /\ LastExists /\ lost \subseteq 1..done /\ files \subseteq Files
  BY BoundsAssumption DEF TypeInv, TypeOK
<1>2. Times(f, k) \in SUBSET (1..done) /\ Lines(g) \in SUBSET (1..done)
  BY <1>1, ViewsTyped
<1>3. Times(f, k) # {} OBVIOUS
<1>4. PICK seen : seen = SeenUntil(Times(f, k), m) OBVIOUS
<1>5. PICK a : a = Anchor(Lines(g), seen) OBVIOUS
<1>6. seen \in Int BY <1>1, <1>2, <1>4, SeenBounds
<1>7. a \in Lines(g) \cup {0} BY <1>1, <1>2, <1>5, <1>6, AnchorBounds
<1>8. mark' = Stamp([m EXCEPT !.file = g, !.last = a]) BY <1>4, <1>5
<1>9. mark'.base = mark.base /\ mark'.file = g /\ mark'.last = a BY <1>8 DEF Stamp, Mark
<1>10. ASSUME NEW t \in 1..done, Pending(t) PROVE t > a
  <2>1. MaxOf(Times(f, k)) \in Times(f, k) BY <1>1, <1>2, <1>3, MaxOfTurns
  <2>2. PICK u \in 1..done : src[u] = f /\ u = MaxOf(Times(f, k))
    <3>1. MaxOf(Times(f, k)) \in 1..done BY <1>2, <2>1
    <3> QED BY <2>1, <3>1 DEF Times
  <2>3. u < t BY <1>10, <2>2, CurrentIsNewest DEF SkipInv
  <2>4. t > m.base BY <1>10 DEF Pending
  <2>5. t > seen BY <1>3, <1>4, <2>2, <2>3, <2>4 DEF SeenUntil, Latest
  <2> QED BY <1>1, <1>2, <1>5, <1>6, <2>5, AnchorNotAfter
<1>11. 0 \notin lost BY <1>1
<1> QED BY <1>7, <1>9, <1>10, <1>11, SkipMoved

\* A reply that is pending in the mark's file is a line of it, behind the anchor.
LEMMA PendingIsLine ==
  ASSUME SkipInv, NEW t \in 1..done, Pending(t), src[t] = mark.file
  PROVE  t \in Lines(mark.file) /\ t > mark.last
BY DEF SkipInv, PendingAhead, Pending, Lines, View, Times

\* A file that is read whole, with nothing new in it.
LEMMA IdleHasNone ==
  ASSUME ForwardInv, TypeInv, SkipInv, NEW f \in files, mark.file \in {0, f},
         After(Lines(f), mark.last) = {}
  PROVE  \A t \in 1..done : Pending(t) => src[t] # f /\ src[t] = src[done]
<1> SUFFICES ASSUME NEW t \in 1..done, Pending(t) PROVE src[t] # f /\ src[t] = src[done]
  OBVIOUS
<1>1. src[t] # 0 /\ t \in Nat /\ t > 0
  BY BoundsAssumption DEF SkipInv, InOrder, Files, TypeInv, TypeOK
<1>2. mark.file = 0 => mark.last = 0 BY DEF ForwardInv, Connected
<1>3. src[t] # f
  <2>1. SUFFICES ASSUME src[t] = f PROVE FALSE OBVIOUS
  <2>2. t \in Lines(f) BY <2>1 DEF Pending, Lines, View, Times
  <2>3. t > mark.last BY <1>1, <1>2, <2>1 DEF SkipInv, PendingAhead
  <2> QED BY <2>2, <2>3 DEF After
<1> QED BY <1>1, <1>3 DEF SkipInv, PendingAhead

\* A transcript that another is newer than is one that Claude has left.
LEMMA NewerIsLater ==
  ASSUME TypeInv, InOrder, NEW f \in files, Newer(f, done) # {}
  PROVE  done # 0 /\ f < src[done]
<1>1. PICK g \in files \ {f} : \E t \in Times(g, done) : \A u \in Times(f, done) : u <= t
  BY DEF Newer
<1>2. PICK t \in 1..done : src[t] = g /\ \A u \in Times(f, done) : u <= t BY <1>1 DEF Times
<1>3. PICK u \in 1..done : src[u] = f BY DEF InOrder
<1>4. u <= t BY <1>2, <1>3 DEF Times
<1>5. done \in Nat /\ done # 0 /\ done \in 1..done /\ t <= done
  BY BoundsAssumption DEF TypeInv, TypeOK
<1>6. f <= g /\ g <= src[done] BY <1>2, <1>3, <1>4, <1>5 DEF InOrder
<1>7. f \in Nat /\ g \in Nat /\ src[done] \in Nat /\ f # g
  BY <1>1, <1>5 DEF InOrder, Files, TypeInv, TypeOK
<1> QED BY <1>5, <1>6, <1>7

\* What a poll does that finds its anchor in a transcript it read only a part of, or does not
\* find one that is in there: it counts, and the count is of such reads alone.
LEMMA TornCounts ==
  ASSUME ForwardInv, TypeInv, CountsMean, Gated, mark.last \notin lost \cup {0}, ~carried,
         tears < MaxTears, tears' = tears + 1
  PROVE  /\ torn + 1 < TornCap /\ torn + 1 <= tears'
         /\ LeftForGood \/ (stale + 1 < StaleCap /\ stale + 1 <= tears')
         /\ mark.file # 0
<1>1. /\ TornCap \in Nat /\ StaleCap \in Nat /\ MaxTears \in Nat /\ torn \in Nat /\ stale \in Nat
      /\ tears \in Nat
  BY BoundsAssumption DEF TypeInv, TypeOK
<1>2. torn <= tears BY DEF CountsMean
<1>3. stale = 0 \/ stale <= tears \/ LeftForGood BY DEF CountsMean
<1>4. mark.file # 0 BY DEF ForwardInv, Connected
<1> QED BY <1>1, <1>2, <1>3, <1>4 DEF Gated

\* Steps after which nothing is counted, or all that is counted is from before.
LEMMA CountsAnew ==
  ASSUME InPass' => torn' = 0 /\ stale' = 0, carried' \/ (torn' = 0 /\ stale' = 0), tears' = 0
         \/ (tears' = tears /\ TypeInv)
  PROVE  CountsMean'
<1>1. 0 <= tears'
  <2>1. tears \in Nat \/ tears' = 0 BY BoundsAssumption DEF TypeInv, TypeOK
  <2> QED BY <2>1
<1> QED BY <1>1 DEF CountsMean

\* Steps that count nothing and leave the mark where it is.
LEMMA CountsStay ==
  ASSUME CountsMean, UNCHANGED <<torn, stale, carried, tears, done, src, text>>,
         mark'.file = mark.file, mark'.last = mark.last, mark'.base = mark.base,
         lost \subseteq lost', ledger \subseteq ledger', dead \subseteq dead', InPass' => InPass
  PROVE  CountsMean'
<1>1. \A t \in 1..done : Pending(t)' => Pending(t)
  BY DEF Pending, Handled, Deliverable
<1>2. LeftForGood => LeftForGood' BY <1>1 DEF LeftForGood
<1> QED BY <1>2 DEF CountsMean

\* Nothing new, or _rotate_if_stale_pin follows to the transcript Claude writes to.
LEMMA PollIdleSkip ==
  ASSUME ForwardInv, TypeInv, SkipInv, CountsMean, Prompt, Gated, PollIdle
  PROVE  SkipInv' /\ CountsMean'
<1>1. PICK f \in files, k \in 0..done :
        /\ Reads(f, k) /\ Resolves(View(f, k), Pinned(f).last)
        /\ After(View(f, k), Pinned(f).last) = {}
        /\ \/ stale' = 0 /\ mark' = Pinned(f)
           \/ /\ Newer(f, k) # {} /\ stale + 1 < StaleCap
              /\ stale' = stale + 1 /\ mark' = Pinned(f)
           \/ /\ stale + 1 >= StaleCap /\ stale' = 0
              /\ \E g \in Newer(f, k) :
                   mark' = Stamp([Pinned(f) EXCEPT !.file = g,
                                    !.last = Anchor(Lines(g), SeenUntil(Times(f, k), Pinned(f)))])
  BY DEF PollIdle
<1>2. UNCHANGED <<done, src, text, files, lost, ledger, dead, wpc>> /\ torn' = 0
      /\ (carried /\ stale' # 0 => carried')
  BY DEF PollIdle, CarryOver
<1>3. ~InPass /\ ~InPass' BY <1>1, <1>2 DEF Reads, Polls, InPass
<1>4. /\ mark.file \in {0, f}
      /\ \/ k = done /\ View(f, k) = Lines(f) /\ Times(f, k) = Times(f, done) /\ tears' = 0
         \/ mark.last \notin lost \cup {0} /\ ~carried /\ tears < MaxTears /\ tears' = tears + 1
  BY <1>1, ReadsWhat
<1>5. PICK m \in Mark : /\ m = Pinned(f) /\ m.base = mark.base /\ m.last = mark.last
                        /\ m.file = f
  BY <1>4, PinnedLeaves
<1>6. tears' \in Nat /\ stale \in Nat /\ StaleCap \in Nat /\ MaxTears \in Nat
  BY <1>4, BoundsAssumption DEF TypeInv, TypeOK
<1>7. ASSUME mark' = Pinned(f) PROVE SkipInv' BY <1>2, <1>3, <1>4, <1>7, PinnedSkip
<1>8. ASSUME NEW g \in files, g # f, Times(f, k) # {},
             \A t \in 1..done : Pending(t) => src[t] # f /\ src[t] = src[done],
             mark' = Stamp([Pinned(f) EXCEPT !.file = g,
                              !.last = Anchor(Lines(g), SeenUntil(Times(f, k), Pinned(f)))])
      PROVE  SkipInv'
  BY <1>2, <1>3, <1>5, <1>8, FollowSkip
<1>9. Newer(f, k) \subseteq files \ {f} BY DEF Newer
<1>10. ASSUME stale' = 0 PROVE CountsMean' BY <1>2, <1>3, <1>6, <1>10 DEF CountsMean
<1>11. CASE k = done /\ View(f, k) = Lines(f) /\ Times(f, k) = Times(f, done) /\ tears' = 0
  <2>1. \A t \in 1..done : Pending(t) => src[t] # f /\ src[t] = src[done]
    BY <1>1, <1>4, <1>5, <1>11, IdleHasNone
  <2>2. Times(f, k) # {} BY <1>11 DEF SkipInv, InOrder, Times
  <2>3. SkipInv' BY <1>1, <1>7, <1>8, <1>9, <2>1, <2>2
  <2>4. ASSUME Newer(f, k) # {}, mark' = Pinned(f) PROVE CountsMean'
    <3>1. done # 0 /\ f < src[done] BY <1>11, <2>4, NewerIsLater DEF SkipInv
    <3>2. \A t \in 1..done : Pending(t)' => Pending(t)
      BY <1>2, <1>5, <2>4 DEF Pending, Handled, Deliverable
    <3>3. LeftForGood' BY <1>2, <1>5, <2>1, <2>4, <3>1, <3>2 DEF LeftForGood
    <3> QED BY <1>2, <1>3, <1>6, <3>3 DEF CountsMean
  <2>5. CountsMean' BY <1>1, <1>10, <2>4
  <2> QED BY <2>3, <2>5
<1>12. CASE /\ mark.last \notin lost \cup {0} /\ ~carried
            /\ tears < MaxTears /\ tears' = tears + 1
  <2>1. /\ LeftForGood \/ (stale + 1 < StaleCap /\ stale + 1 <= tears')
        /\ mark.file # 0
    BY <1>12, TornCounts
  <2>2. mark.file = f /\ Pinned(f) = mark BY <1>4, <2>1 DEF Pinned
  <2>3. LeftForGood => \A t \in 1..done : Pending(t) => src[t] # f /\ src[t] = src[done]
    BY <2>2 DEF LeftForGood, SkipInv, PendingAhead
  <2>4. Times(f, k) # {} BY <1>1, <1>12, <2>2 DEF Resolves, View
  <2>5. stale + 1 >= StaleCap => LeftForGood BY <1>6, <2>1
  <2>6. SkipInv' BY <1>1, <1>7, <1>8, <1>9, <2>3, <2>4, <2>5
  <2>7. ASSUME stale' = stale + 1, mark' = mark PROVE CountsMean'
    <3>1. \A t \in 1..done : Pending(t)' => Pending(t)
      BY <1>2, <2>7 DEF Pending, Handled, Deliverable
    <3>2. LeftForGood => LeftForGood' BY <1>2, <2>7, <3>1 DEF LeftForGood
    <3> QED BY <1>2, <1>3, <1>6, <2>1, <2>7, <3>2 DEF CountsMean
  <2>8. CountsMean' BY <1>1, <1>10, <2>2, <2>7
  <2> QED BY <2>6, <2>8
<1> QED BY <1>4, <1>11, <1>12

\* The anchor is missing from a torn read: wait.
LEMMA TornReadWaits ==
  ASSUME ForwardInv, TypeInv, SkipInv, CountsMean, Prompt, Gated, PollTorn, tears' # 0
  PROVE  SkipInv' /\ CountsMean'
<1>1. PICK f \in files, k \in 0..done :
        LET n == IF torn < TornCap THEN torn + 1 ELSE torn IN
        /\ Reads(f, k)
        /\ TornForGood(n) \/ (torn' = n /\ mark' = Pinned(f))
  BY DEF PollTorn
<1>2. UNCHANGED <<done, src, text, files, lost, ledger, dead, wpc, stale>>
  BY DEF PollTorn
<1>3. ~InPass /\ ~InPass' BY <1>1, <1>2 DEF Reads, Polls, InPass
<1>4. /\ mark.file \in {0, f}
      /\ mark.last \notin lost \cup {0} /\ ~carried /\ tears < MaxTears /\ tears' = tears + 1
  BY <1>1, ReadsWhat
<1>5. /\ torn + 1 < TornCap /\ torn + 1 <= tears' /\ mark.file # 0
      /\ LeftForGood \/ stale + 1 <= tears'
  BY <1>4, TornCounts
<1>6. TornCap \in Nat /\ torn \in Nat /\ stale \in Nat /\ tears \in Nat
  BY BoundsAssumption DEF TypeInv, TypeOK
<1>7. mark' = mark /\ torn' = torn + 1
  <2>1. torn < TornCap /\ ~TornForGood(torn + 1) BY <1>5, <1>6 DEF TornForGood
  <2> QED BY <1>1, <1>4, <1>5, <2>1 DEF Pinned
<1>8. SkipInv' BY <1>2, <1>3, <1>7, SkipStays
<1>9. \A t \in 1..done : Pending(t)' => Pending(t)
  BY <1>2, <1>7 DEF Pending, Handled, Deliverable
<1>10. LeftForGood => LeftForGood' BY <1>2, <1>7, <1>9 DEF LeftForGood
<1>11. stale' <= tears' \/ LeftForGood' BY <1>2, <1>4, <1>5, <1>6, <1>10
<1>12. CountsMean' BY <1>3, <1>5, <1>7, <1>11 DEF CountsMean
<1> QED BY <1>8, <1>12

\* The anchor is missing from the whole file: wait, re-anchor in the file, or follow.
LEMMA PollTornSkip ==
  ASSUME ForwardInv, TypeInv, SkipInv, Prompt, Gated, PollTorn, tears' = 0
  PROVE  SkipInv' /\ CountsMean'
<1>1. PICK f \in files, k \in 0..done :
        /\ Reads(f, k) /\ ~Resolves(View(f, k), Pinned(f).last)
        /\ carried' = ((carried \/ mark' # Pinned(f)) /\ (torn' # 0 \/ stale' # 0))
        /\ \/ mark' = Pinned(f)
           \/ mark' = Stamp([Pinned(f) EXCEPT
                               !.last = Anchor(View(f, k), SeenUntil({}, Pinned(f)))])
           \/ /\ Left(View(f, k), Pinned(f)) = {}
              /\ \E g \in files \ {f} :
                   mark' = Stamp([Pinned(f) EXCEPT !.file = g,
                                    !.last = Anchor(Lines(g), SeenUntil(Times(f, k), Pinned(f)))])
  BY DEF PollTorn, CarryOver
<1>2. UNCHANGED <<done, src, text, files, lost, ledger, dead, wpc>> BY DEF PollTorn
<1>3. ~InPass' BY <1>1, <1>2 DEF Reads, Polls, InPass
<1>4. /\ k = done /\ View(f, k) = Lines(f) /\ Times(f, k) = Times(f, done)
      /\ mark.file \in {0, f}
  <2>1. tears' # tears + 1
    <3>1. tears \in Nat BY BoundsAssumption DEF TypeInv, TypeOK
    <3> QED BY <3>1
  <2>2. Reads(f, k) BY <1>1
  <2> QED BY <2>1, <2>2, ReadsWhat
<1>5. /\ done \in Nat /\ LastExists /\ lost \subseteq 1..done
      /\ Lines(f) \in SUBSET (1..done) /\ {} \in SUBSET (1..done)
  BY BoundsAssumption, <1>4, ViewsTyped DEF TypeInv, TypeOK
<1>6. PICK m \in Mark : /\ m = Pinned(f) /\ m.base = mark.base /\ m.last = mark.last
                        /\ m.file = f /\ m.upd \in {mark.upd, done}
  BY <1>4, PinnedLeaves
<1>7. mark.file = f /\ mark.last \in lost /\ m = mark
  <2>1. mark.last # 0 BY <1>1, <1>6 DEF Resolves
  <2>2. mark.file = f BY <1>4, <2>1 DEF ForwardInv, Connected
  <2>3. mark.last \in 1..done /\ src[mark.last] = f
    BY <2>1, <2>2 DEF ForwardInv, AnchorInFile
  <2>4. f # 0 BY <1>5 DEF Files, TypeInv, TypeOK
  <2> QED BY <1>1, <1>4, <1>6, <2>2, <2>3, <2>4 DEF Resolves, Lines, View, Times, Pinned
<1>8. PICK seen : seen = SeenUntil({}, m) OBVIOUS
<1>9. seen \in Int BY <1>5, <1>8, SeenBounds
<1>10. ASSUME NEW t \in 1..done, Pending(t)
       PROVE  t > seen /\ t > Anchor(Lines(f), seen)
  <2>1. t > mark.upd BY <1>7, <1>10 DEF SkipInv, PendingAfterLoss
  <2>2. t > mark.base BY <1>10 DEF Pending
  <2>3. t > seen BY <1>7, <1>8, <2>1, <2>2 DEF SeenUntil, Latest
  <2> QED BY <1>5, <1>9, <2>3, AnchorNotAfter
<1>11. ASSUME mark' = Pinned(f) PROVE SkipInv'
  BY <1>2, <1>3, <1>4, <1>11, PinnedSkip
<1>12. ASSUME mark' = Stamp([Pinned(f) EXCEPT
                               !.last = Anchor(View(f, k), SeenUntil({}, Pinned(f)))])
       PROVE  SkipInv'
  <2>1. PICK a : a = Anchor(Lines(f), seen) OBVIOUS
  <2>2. a \in Lines(f) \cup {0} BY <1>5, <1>9, <2>1, AnchorBounds
  <2>3. mark' = Stamp([m EXCEPT !.last = a]) BY <1>4, <1>6, <1>8, <1>12, <2>1
  <2>4. mark'.base = mark.base /\ mark'.file = f /\ mark'.last = a
    BY <1>6, <2>3 DEF Stamp, Mark
  <2>5. \A t \in 1..done : Pending(t) => (src[t] = f \/ src[t] = src[done]) /\ t > a
    BY <1>7, <1>10, <2>1 DEF SkipInv, PendingAhead
  <2>6. 0 \notin lost BY <1>5
  <2> QED BY <1>2, <1>3, <2>2, <2>4, <2>5, <2>6, SkipMoved
<1>13. ASSUME NEW g \in files \ {f}, Left(Lines(f), m) = {},
              mark' = Stamp([m EXCEPT !.file = g,
                               !.last = Anchor(Lines(g), SeenUntil(Times(f, k), m))])
       PROVE  SkipInv'
  <2>1. ASSUME NEW t \in 1..done, Pending(t) PROVE src[t] # f /\ src[t] = src[done]
    <3>1. src[t] # f
      <4>1. SUFFICES ASSUME src[t] = f PROVE FALSE OBVIOUS
      <4>2. t \in Lines(f) BY <2>1, <4>1 DEF Pending, Lines, View, Times
      <4>3. t > Anchor(Lines(f), SeenUntil({}, m)) BY <1>8, <1>10, <2>1
      <4>4. Deliverable(t) /\ text[t] \notin ledger BY <2>1 DEF Pending, Handled
      <4> QED BY <1>13, <4>2, <4>3, <4>4 DEF Left, After
    <3> QED BY <1>7, <2>1, <3>1 DEF SkipInv, PendingAhead
  <2>2. Times(f, k) # {} BY <1>4 DEF SkipInv, InOrder, Times
  <2> QED BY <1>2, <1>3, <1>6, <1>13, <2>1, <2>2, FollowSkip
<1>14. SkipInv' BY <1>1, <1>4, <1>6, <1>11, <1>12, <1>13
<1>15. CountsMean'
  <2>1. CASE mark' = Pinned(f) BY <1>2, <1>3, <1>6, <1>7, <2>1 DEF CountsMean
  <2>2. CASE mark' # Pinned(f) BY <1>1, <1>3, <2>2, CountsAnew
  <2> QED BY <2>1, <2>2
<1> QED BY <1>14, <1>15

\* The file is gone, and the mark follows to any other.
LEMMA PollVanishedSkip ==
  ASSUME ForwardInv, TypeInv, SkipInv, PollVanished
  PROVE  SkipInv'
<1>1. PICK g \in files :
        mark' = Stamp([mark EXCEPT !.file = g, !.last = Anchor(Lines(g), SeenUntil({}, mark))])
  BY DEF PollVanished
<1>2. UNCHANGED <<done, src, text, files, lost, ledger, dead, wpc>> BY DEF PollVanished
<1>3. ~InPass' /\ mark.file \notin files \cup {0}
  BY <1>2 DEF PollVanished, Polls, InPass
<1>4. /\ done \in Nat /\ LastExists /\ lost \subseteq 1..done /\ mark \in Mark
      /\ {} \in SUBSET (1..done)
  BY BoundsAssumption DEF TypeInv, TypeOK, ForwardInv, MarkTyped
<1>5. Lines(g) \in SUBSET (1..done) BY <1>4, ViewsTyped
<1>6. PICK seen : seen = SeenUntil({}, mark) OBVIOUS
<1>7. PICK a : a = Anchor(Lines(g), seen) OBVIOUS
<1>8. seen \in Int BY <1>4, <1>6, SeenBounds
<1>9. a \in Lines(g) \cup {0} BY <1>4, <1>5, <1>7, <1>8, AnchorBounds
<1>10. mark' = Stamp([mark EXCEPT !.file = g, !.last = a]) BY <1>1, <1>6, <1>7
<1>11. mark'.base = mark.base /\ mark'.file = g /\ mark'.last = a
  BY <1>4, <1>10 DEF Stamp, Mark
<1>12. ASSUME NEW t \in 1..done, Pending(t) PROVE src[t] = src[done] /\ t > a
  <2>1. t > mark.upd BY <1>3, <1>12 DEF SkipInv, PendingAfterLoss
  <2>2. t > mark.base BY <1>12 DEF Pending
  <2>3. t > seen BY <1>6, <2>1, <2>2 DEF SeenUntil, Latest
  <2>4. t > a BY <1>4, <1>5, <1>7, <1>8, <2>3, AnchorNotAfter
  <2>5. src[t] # mark.file BY <1>3, <1>12 DEF SkipInv, InOrder, Pending
  <2> QED BY <1>12, <2>4, <2>5 DEF SkipInv, PendingAhead
<1>13. 0 \notin lost BY <1>4
<1> QED BY <1>2, <1>3, <1>9, <1>11, <1>12, <1>13, SkipMoved

\* A pass takes all there is behind the anchor of its file.
LEMMA PollNewSkip ==
  ASSUME ForwardInv, TypeInv, SkipInv, Prompt, Gated, PollNew
  PROVE  SkipInv'
<1>1. PICK f \in files, k \in 0..done :
        /\ Reads(f, k) /\ mark' = Pinned(f) /\ todo' = After(View(f, k), Pinned(f).last)
  BY DEF PollNew
<1>2. UNCHANGED <<done, src, text, files, lost, ledger, dead>> BY DEF PollNew
<1>3. mark.file \in {0, f} BY <1>1, ReadsWhat
<1>4. PICK m \in Mark : /\ m = Pinned(f) /\ m.base = mark.base /\ m.last = mark.last
                        /\ m.file = f /\ m.upd \in {mark.upd, done}
  BY <1>3, PinnedLeaves
<1>5. \A t \in 1..done : Pending(t)' <=> Pending(t)
  BY <1>1, <1>2, <1>4 DEF Pending, Handled, Deliverable
<1>6. InOrder' BY <1>2 DEF SkipInv, InOrder
<1>7. mark.file = 0 => mark.last = 0 BY DEF ForwardInv, Connected
<1>8. ASSUME NEW t \in 1..done, Pending(t)
      PROVE  (src[t] = f \/ src[t] = src[done]) /\ (src[t] = f => t \in Lines(f) /\ t > mark.last)
  <2>1. src[t] # 0 /\ t > 0 BY DEF SkipInv, InOrder, Files
  <2>2. src[t] = f \/ src[t] = src[done] BY <1>3, <1>8, <2>1 DEF SkipInv, PendingAhead
  <2>3. src[t] = f => t > mark.last
    BY <1>3, <1>7, <1>8, <2>1 DEF SkipInv, PendingAhead
  <2>4. src[t] = f => t \in Lines(f) BY <1>8 DEF Pending, Lines, View, Times
  <2> QED BY <2>2, <2>3, <2>4
<1>9. PendingAhead' BY <1>1, <1>2, <1>4, <1>5, <1>8 DEF PendingAhead
<1>10. PendingAfterLoss'
  <2>1. mark'.file = f /\ mark'.last = mark.last /\ f \in files BY <1>1, <1>4
  <2>2. CASE mark.file = f
    <3>1. mark' = mark \/ mark.file = 0 BY <1>1 DEF Pinned
    <3>2. CASE mark' = mark
      BY <1>2, <1>5, <3>2 DEF SkipInv, PendingAfterLoss
    <3>3. CASE mark.file = 0
      <4>1. f # 0 BY DEF TypeInv, TypeOK, Files
      <4> QED BY <2>2, <3>3, <4>1
    <3> QED BY <3>1, <3>2, <3>3
  <2>3. CASE mark.file = 0
    <3>1. mark.last = 0 /\ 0 \notin lost BY <1>7, <2>3 DEF TypeInv, TypeOK
    <3> QED BY <1>2, <2>1, <3>1 DEF PendingAfterLoss
  <2> QED BY <1>3, <2>2, <2>3
<1>11. PassComplete'
  <2>1. todo' = After(View(f, k), mark.last) BY <1>1, <1>4
  <2>2. todo' \cap lost = {} BY <2>1 DEF After, View
  <2>3. ASSUME NEW t \in 1..done, Pending(t), src[t] = f
        PROVE  t \in todo' \/ \A u \in todo' : u < t
    <3>1. t \in Lines(f) /\ t > mark.last BY <1>8, <2>3
    <3>2. CASE t <= k
      <4>1. done \in Nat BY BoundsAssumption DEF TypeInv, TypeOK
      <4>2. t \in View(f, k) BY <3>1, <3>2, <4>1 DEF Lines, View, Times
      <4> QED BY <2>1, <3>1, <4>2 DEF After
    <3>3. CASE ~(t <= k)
      <4>1. done \in Nat BY BoundsAssumption DEF TypeInv, TypeOK
      <4>2. todo' \subseteq 1..k BY <2>1 DEF After, View, Times
      <4> QED BY <3>3, <4>1, <4>2
    <3> QED BY <3>2, <3>3
  <2> QED BY <1>1, <1>2, <1>4, <1>5, <2>2, <2>3 DEF PassComplete
<1> QED BY <1>6, <1>9, <1>10, <1>11 DEF SkipInv

\* The mark moves past a turn that is dealt with: what is pending in its file is newer.
LEMMA AdvanceSkip ==
  ASSUME ForwardInv, TypeInv, SkipInv, InPass, NEW m \in Mark, m.base = mark.base,
         m.file = mark.file, NEW known, Advance(m, known), NEW h \in 1..done, h = Head,
         Handled(h)', ledger \subseteq ledger', dead \subseteq dead',
         UNCHANGED <<done, src, text, files, lost>>
  PROVE  SkipInv'
<1>1. /\ h \in todo /\ \A u \in todo : h <= u
  <2>1. todo \in SUBSET (1..done) /\ todo # {} BY DEF ForwardInv, MarkTyped
  <2>2. PICK t \in todo : \A u \in todo : t <= u BY <2>1 DEF ForwardInv, FirstExists
  <2>3. Head \in todo /\ \A u \in todo : Head <= u BY <2>2 DEF Head, MinOf
  <2> QED BY <2>3
<1>2. mark' = [Stamp(m) EXCEPT !.last = h] BY DEF Advance
<1>3. mark'.base = mark.base /\ mark'.file = mark.file /\ mark'.last = h
  BY <1>2 DEF Stamp, Mark
<1>4. todo' = todo \ {h} BY DEF Advance
<1>5. \A t \in 1..done : Pending(t)' => Pending(t) /\ t # h
  BY <1>3 DEF Pending, Handled, Deliverable
<1>6. h \notin lost BY <1>1 DEF SkipInv, PassComplete
<1>7. InOrder' BY DEF SkipInv, InOrder
<1>8. mark.file \in files
  <2>1. src[h] = mark.file BY <1>1 DEF ForwardInv, PassForward
  <2> QED BY <1>6, <2>1 DEF SkipInv, InOrder
<1>9. ASSUME NEW t \in 1..done, Pending(t)'
      PROVE  /\ src[t] = mark.file \/ src[t] = src[done]
             /\ src[t] = mark.file => t > h /\ (t \in todo' \/ \A u \in todo' : u < t)
  <2>1. Pending(t) /\ t # h BY <1>5, <1>9
  <2>2. src[t] = mark.file => t \in todo \/ \A u \in todo : u < t
    BY <2>1 DEF SkipInv, PassComplete
  <2>3. src[t] = mark.file => t > h BY <1>1, <2>1, <2>2
  <2>4. src[t] = mark.file \/ src[t] = src[done] BY <2>1 DEF SkipInv, PendingAhead
  <2> QED BY <1>4, <2>1, <2>2, <2>3, <2>4
<1>10. PendingAhead' BY <1>3, <1>9 DEF PendingAhead
<1>11. PendingAfterLoss' BY <1>3, <1>6, <1>8 DEF PendingAfterLoss
<1>12. PassComplete'
  <2>1. todo' \cap lost = {} BY <1>4 DEF SkipInv, PassComplete
  <2> QED BY <1>3, <1>9, <2>1 DEF PassComplete
<1> QED BY <1>7, <1>10, <1>11, <1>12 DEF SkipInv

\* A turn of the pass is passed over, stopped or posted.
LEMMA TurnBeginSkip == ASSUME ForwardInv, TypeInv, SkipInv, TurnBegin PROVE SkipInv'
<1>1. InPass /\ wpc \in {"read", "deliver"} BY DEF TurnBegin, InPass
<1>2. UNCHANGED <<done, src, text, files, lost, ledger>> BY DEF TurnBegin
<1>3. PICK h \in 1..done : h = Head BY <1>1, HeadInPass
<1>4. wm \in Mark /\ wm.base = mark.base /\ wm.file = mark.file
  BY <1>1 DEF ForwardInv, MarkTyped, PassForward
<1>5. PICK known : known = IF wpc = "read" THEN ledger ELSE fps OBVIOUS
<1>6. known \subseteq ledger BY <1>5 DEF TypeInv, TypeOK
<1>7. PICK m : m = Counted(wm, Typed(Head)) OBVIOUS
<1>8. m \in Mark /\ m.base = mark.base /\ m.file = mark.file
  <2>1. Typed(Head) \in BOOLEAN BY DEF Typed
  <2>2. m \in Mark /\ m.base = mark.base BY <1>4, <1>7, <2>1, CountedIs
  <2>3. PICK r, a : m = [wm EXCEPT !.run = r, !.all = a, !.old = FALSE] BY <1>7 DEF Counted
  <2> QED BY <1>4, <2>2, <2>3 DEF Mark
<1>9. dead \subseteq dead' BY DEF TurnBegin
<1>10. CASE Advance(wm, known) /\ (Has(h, known) \/ ~Deliverable(h))
  <2>1. Handled(h)' BY <1>2, <1>6, <1>10 DEF Handled, Has, Deliverable
  <2> QED BY <1>1, <1>2, <1>3, <1>4, <1>9, <1>10, <2>1, AdvanceSkip
<1>11. CASE Advance(m, known) /\ dead' = dead \cup {h}
  <2>1. Handled(h)' BY <1>11 DEF Handled
  <2> QED BY <1>1, <1>2, <1>3, <1>8, <1>9, <1>11, <2>1, AdvanceSkip
<1>12. CASE UNCHANGED <<todo, mark>> BY <1>1, <1>2, <1>9, <1>12, SkipStays
<1> QED BY <1>3, <1>5, <1>7, <1>10, <1>11, <1>12 DEF TurnBegin

LEMMA PostSkip == ASSUME ForwardInv, TypeInv, SkipInv, Post PROVE SkipInv'
<1>1. InPass BY DEF Post, PostArrives, PostAnswered, AnswerLost, PostGivenUp, InPass
<1>2. UNCHANGED <<done, src, text, files, lost>>
  BY DEF Post, PostArrives, PostAnswered, AnswerLost, PostGivenUp
<1>3. PICK h \in 1..done : h = Head BY <1>1, HeadInPass
<1>4. wm \in Mark /\ wm.base = mark.base /\ wm.file = mark.file
  BY <1>1 DEF ForwardInv, MarkTyped, PassForward
<1>5. CASE PostArrives \/ AnswerLost
  BY <1>1, <1>2, <1>5, SkipStays DEF PostArrives, AnswerLost
<1>6. CASE PostAnswered
  <2>1. Handled(h)' BY <1>2, <1>3, <1>6 DEF PostAnswered, Handled
  <2>2. PICK known : Advance(wm, known) BY <1>6 DEF PostAnswered
  <2>3. ledger \subseteq ledger' /\ dead \subseteq dead' BY <1>6 DEF PostAnswered
  <2> QED BY <1>1, <1>2, <1>3, <1>4, <2>1, <2>2, <2>3, AdvanceSkip
<1>7. CASE PostGivenUp
  <2>1. Handled(h)' BY <1>3, <1>7 DEF PostGivenUp, Handled
  <2>2. Advance(wm, fps) /\ ledger \subseteq ledger' /\ dead \subseteq dead'
    BY <1>7 DEF PostGivenUp
  <2> QED BY <1>1, <1>2, <1>3, <1>4, <2>1, <2>2, AdvanceSkip
<1> QED BY <1>5, <1>6, <1>7 DEF Post

\* A connect leaves nothing pending.
LEMMA ConnectSkip ==
  ASSUME ForwardInv, TypeInv, SkipInv, Prompt, PollUnmarked \/ WatchFinish
  PROVE  SkipInv'
<1>1. Baseline /\ UNCHANGED <<done, src, files, lost, wpc>> BY DEF PollUnmarked, WatchFinish
<1>2. ~InPass' BY <1>1 DEF ForwardInv, WatchWaits, PollUnmarked, WatchFinish, Polls, InPass
<1>3. mark'.base = done BY <1>1, BaselineIsNow
<1>4. done \in Nat BY DEF ForwardInv, MarkTyped
<1>5. \A t \in 1..done : ~Pending(t)' BY <1>3, <1>4 DEF Pending
<1>6. InOrder' BY <1>1 DEF SkipInv, InOrder
<1> QED BY <1>1, <1>2, <1>5, <1>6, NothingPending

\* Lines are lost, or a file, when nothing is pending.
LEMMA LossSkip ==
  ASSUME ForwardInv, TypeInv, SkipInv, Settled, LineLost \/ FileVanishes
  PROVE  SkipInv'
<1>1. UNCHANGED <<done, src, text, mark, ledger, dead, todo, wpc>>
  BY DEF LineLost, FileVanishes
<1>2. todo = {} /\ \A t \in 1..done : t > mark.base => Handled(t)
  BY DEF LineLost, FileVanishes, CaughtUp, Settled
<1>3. ~InPass' BY <1>1, <1>2 DEF ForwardInv, MarkTyped, InPass
<1>4. \A t \in 1..done : ~Pending(t)' BY <1>1, <1>2 DEF Pending, Handled, Deliverable
<1>5. lost \subseteq lost'
  BY DEF LineLost, FileVanishes
<1>6. InOrder'
  <2>1. CASE LineLost BY <1>1, <1>5, <2>1 DEF LineLost, SkipInv, InOrder
  <2>2. CASE FileVanishes
    <3>1. PICK f \in files : /\ \E g \in files : g > f
                             /\ files' = files \ {f} /\ lost' = lost \cup Lines(f)
      BY <2>2 DEF FileVanishes
    <3>2. \A t \in 1..done : src[t] \in files' \/ t \in lost'
      BY <3>1 DEF SkipInv, InOrder, Lines, View, Times
    <3>3. done # 0 => src[done] \in files'
      <4>1. SUFFICES ASSUME done # 0 PROVE src[done] # f BY <3>1 DEF SkipInv, InOrder
      <4>2. PICK g \in files : g > f BY <3>1
      <4>3. PICK t \in 1..done : src[t] = g BY DEF SkipInv, InOrder
      <4>4. done \in 1..done /\ t <= done BY <4>1 DEF ForwardInv, MarkTyped
      <4>5. src[t] <= src[done] /\ src[done] \in Nat /\ f \in Nat
        BY <4>4 DEF SkipInv, InOrder, Files, TypeInv, TypeOK
      <4>6. g \in Nat BY DEF TypeInv, TypeOK, Files
      <4> QED BY <4>2, <4>3, <4>5, <4>6
    <3> QED BY <1>1, <3>1, <3>2, <3>3 DEF SkipInv, InOrder
  <2> QED BY <2>1, <2>2
<1> QED BY <1>1, <1>3, <1>4, <1>6, NothingPending

\* A watcher that stops, a resend and an idle gap move no mark.
LEMMA IdleSkip ==
  ASSUME ForwardInv, TypeInv, SkipInv,
         \/ WatchStart \/ WatchCancelled \/ Unwatch \/ Restart \/ Resend \/ LongIdle
         \/ UNCHANGED vars
  PROVE  SkipInv'
<1>1. mark \in Mark BY DEF ForwardInv, MarkTyped
<1>2. CASE WatchStart \/ Unwatch \/ Restart
  <2>1. UNCHANGED <<done, src, text, files, lost, mark, dead>> /\ ledger \subseteq ledger'
    BY <1>2 DEF WatchStart, Unwatch, Restart
  <2>2. ~InPass' BY <1>2 DEF WatchStart, Unwatch, Restart, StopWatcher, InPass
  <2> QED BY <2>1, <2>2, SkipStays
<1>3. CASE WatchCancelled \/ Resend \/ UNCHANGED vars
  BY <1>3, SkipStays DEF WatchCancelled, Resend, ResendStart, ResendArrives, ResendAnswered,
     ResendFails, InPass
<1>4. CASE LongIdle
  <2>1. /\ mark'.file = mark.file /\ mark'.last = mark.last /\ mark'.base = mark.base
        /\ mark'.upd = mark.upd
    BY <1>1, <1>4 DEF LongIdle, Mark
  <2>2. UNCHANGED <<done, src, text, files, lost, dead, ledger, wpc, todo>>
    BY <1>4 DEF LongIdle
  <2> QED BY <2>1, <2>2, SkipStays DEF InPass
<1> QED BY <1>2, <1>3, <1>4

\* A turn completes in the transcript Claude writes to, or in a new one when what is pending is
\* all in the mark's file.
LEMMA TurnCompletesSkip ==
  ASSUME ForwardInv, TypeInv, SkipInv, Settled, TurnCompletes
  PROVE  SkipInv'
<1> DEFINE n == done + 1
<1>1. /\ done \in Nat /\ done' = n /\ n \in Turns /\ n \in Nat
      /\ src \in [Turns -> Nat] /\ mark \in Mark
  BY BoundsAssumption DEF TurnCompletes, ForwardInv, MarkTyped, Turns
<1>2. PICK f \in Writable, x \in Texts :
        /\ src' = [src EXCEPT ![n] = f] /\ files' = files \cup {f}
        /\ text' = [text EXCEPT ![n] = x]
  BY DEF TurnCompletes
<1>3. UNCHANGED <<lost, mark, ledger, dead, wpc, todo>> BY DEF TurnCompletes
<1>4. \A t \in 1..done : t # n /\ t \in 1..n /\ src'[t] = src[t] /\ text'[t] = text[t]
  BY <1>1, <1>2
<1>5. \A t \in 1..n : t = n \/ t \in 1..done BY <1>1
<1>6. src'[n] = f /\ f \in Files /\ f \in Nat BY <1>1, <1>2 DEF Writable, Files
<1>7. \A t \in 1..done : Pending(t)' <=> Pending(t)
  BY <1>3, <1>4 DEF Pending, Handled, Deliverable
<1>8. \A t \in 1..done : src[t] <= Current /\ Current = src[done] /\ src[t] \in Files
  <2> SUFFICES ASSUME NEW t \in 1..done
               PROVE  src[t] <= Current /\ Current = src[done] /\ src[t] \in Files
    OBVIOUS
  <2>1. done # 0 /\ done \in 1..done /\ t <= done BY <1>1
  <2> QED BY <2>1, CurrentIs DEF SkipInv, InOrder
<1>9. f \in {Current, Current + 1} /\ Current \in Nat
  <2>1. Current \in Nat
    <3>1. CASE done = 0 BY <3>1, CurrentIs DEF SkipInv
    <3>2. CASE done # 0
      <4>1. done \in 1..done BY <1>1, <3>2
      <4> QED BY <1>8, <4>1 DEF Files
    <3> QED BY <3>1, <3>2
  <2> QED BY <2>1 DEF Writable
<1>10. \A t \in 1..done : src[t] <= f /\ src[t] \in Nat
  BY <1>8, <1>9 DEF Files
<1>11. InOrder'
  <2>1. \A t, u \in 1..n : t <= u => src'[t] <= src'[u]
    <3> SUFFICES ASSUME NEW t \in 1..n, NEW u \in 1..n, t <= u PROVE src'[t] <= src'[u]
      OBVIOUS
    <3>1. CASE u = n
      <4>1. CASE t = n BY <1>6, <3>1, <4>1
      <4>2. CASE t # n BY <1>4, <1>5, <1>6, <1>10, <3>1, <4>2
      <4> QED BY <4>1, <4>2
    <3>2. CASE u # n
      <4>1. u \in 1..done /\ t \in 1..done BY <1>1, <1>5, <3>2
      <4> QED BY <1>4, <4>1 DEF SkipInv, InOrder
    <3> QED BY <3>1, <3>2
  <2>2. \A t \in 1..n : src'[t] \in Files BY <1>4, <1>5, <1>6 DEF SkipInv, InOrder
  <2>3. n \in 1..n BY <1>1
  <2>4. \A g \in files' : \E t \in 1..n : src'[t] = g
    BY <1>2, <1>4, <1>6, <2>3 DEF SkipInv, InOrder
  <2>5. \A t \in 1..n : src'[t] \in files' \/ t \in lost
    BY <1>2, <1>4, <1>5, <1>6 DEF SkipInv, InOrder
  <2>6. src'[n] \in files' BY <1>2, <1>6
  <2> HIDE DEF n
  <2> QED BY <1>1, <1>3, <2>1, <2>2, <2>4, <2>5, <2>6 DEF InOrder
<1>12. ASSUME NEW t \in 1..done, Pending(t) PROVE src[t] = mark.file \/ src[t] = f
  <2>1. CASE f = Current BY <1>8, <1>12, <2>1 DEF SkipInv, PendingAhead
  <2>2. CASE f # Current
    <3>1. \A u \in 1..done : src[u] # mark.file /\ u > mark.base => Handled(u) \/ u \in lost
      BY <2>2 DEF Writable, Settled
    <3> QED BY <1>12, <3>1 DEF Pending
  <2> QED BY <2>1, <2>2
<1>13. mark.last < n /\ mark.upd < n /\ mark.upd \in Nat /\ mark.last \in Nat
  BY <1>1 DEF ForwardInv, AnchorInFile, Mark
<1>14. PendingAhead'
  <2> SUFFICES ASSUME NEW t \in 1..n, Pending(t)'
               PROVE  /\ src'[t] = mark.file \/ src'[t] = src'[n]
                      /\ src'[t] = mark.file => t > mark.last
    BY <1>1, <1>3 DEF PendingAhead
  <2>1. CASE t = n BY <1>13, <2>1
  <2>2. CASE t # n
    <3>1. t \in 1..done /\ Pending(t) BY <1>5, <1>7, <2>2
    <3> QED BY <1>4, <1>6, <1>12, <3>1 DEF SkipInv, PendingAhead
  <2> QED BY <2>1, <2>2
<1>15. PendingAfterLoss'
  <2> SUFFICES ASSUME mark.last \in lost \/ mark.file \notin files' \cup {0},
                      NEW t \in 1..n, Pending(t)'
               PROVE  t > mark.upd
    BY <1>1, <1>3 DEF PendingAfterLoss
  <2>1. CASE t = n BY <1>13, <2>1
  <2>2. CASE t # n
    <3>1. t \in 1..done /\ Pending(t) BY <1>5, <1>7, <2>2
    <3> QED BY <1>2, <3>1 DEF SkipInv, PendingAfterLoss
  <2> QED BY <2>1, <2>2
<1>16. PassComplete'
  <2> SUFFICES ASSUME InPass
               PROVE  /\ todo \cap lost = {}
                      /\ \A t \in 1..n : Pending(t)' /\ src'[t] = mark.file =>
                           t \in todo \/ \A u \in todo : u < t
    BY <1>1, <1>3 DEF PassComplete, InPass
  <2>1. todo \cap lost = {} BY DEF SkipInv, PassComplete
  <2>2. ASSUME NEW t \in 1..n, Pending(t)', src'[t] = mark.file
        PROVE  t \in todo \/ \A u \in todo : u < t
    <3>1. CASE t = n
      <4>1. todo \subseteq 1..done BY DEF ForwardInv, MarkTyped
      <4> QED BY <1>1, <3>1, <4>1
    <3>2. CASE t # n
      <4>1. t \in 1..done /\ Pending(t) /\ src[t] = mark.file BY <1>4, <1>5, <1>7, <2>2, <3>2
      <4> QED BY <4>1 DEF SkipInv, PassComplete
    <3> QED BY <3>1, <3>2
  <2> QED BY <2>1, <2>2
<1> QED BY <1>11, <1>14, <1>15, <1>16 DEF SkipInv

\* A pass counts nothing; a poll that moves the mark, and a connect, keep the counts they find.
LEMMA CountsStep ==
  ASSUME ForwardInv, TypeInv, SkipInv, CountsMean, Prompt, [Next]_vars, ~PollIdle, ~PollTorn
  PROVE  CountsMean'
<1>1. mark \in Mark /\ done \in Nat BY DEF ForwardInv, MarkTyped
<1>2. CASE PollUnmarked \/ WatchFinish
  <2>1. Baseline /\ UNCHANGED wpc BY <1>2 DEF PollUnmarked, WatchFinish
  <2>2. ~InPass'
    BY <1>2, <2>1 DEF ForwardInv, WatchWaits, PollUnmarked, WatchFinish, Polls, InPass
  <2>3. tears' = 0 \/ tears' = tears
    <3>1. CASE files = {} BY <2>1, <3>1 DEF Baseline
    <3>2. CASE files # {} BY <2>1, <3>2 DEF Baseline, Whole, Torn, Prompt
    <3> QED BY <3>1, <3>2
  <2>4. carried' \/ (torn' = 0 /\ stale' = 0) BY <2>1 DEF Baseline, CarryOver
  <2> QED BY <2>2, <2>3, <2>4, CountsAnew
<1>3. CASE PollVanished
  <2>1. ~InPass' BY <1>3 DEF PollVanished, Polls, InPass
  <2>2. (carried' \/ (torn' = 0 /\ stale' = 0)) /\ tears' = tears
    BY <1>3 DEF PollVanished, CarryOver
  <2> QED BY <2>1, <2>2, CountsAnew
<1>4. CASE PollNew
  <2>1. torn' = 0 /\ stale' = 0 BY <1>4 DEF PollNew
  <2>2. tears' \in Nat
    <3>1. tears' = 0 \/ tears' = tears + 1 BY <1>4 DEF PollNew, Reads, Whole, Torn
    <3> QED BY <3>1, BoundsAssumption DEF TypeInv, TypeOK
  <2> QED BY <2>1, <2>2 DEF CountsMean
<1>5. CASE TurnBegin \/ Post
  <2>1. InPass /\ UNCHANGED <<torn, stale, tears>>
    BY <1>5 DEF TurnBegin, Post, PostArrives, PostAnswered, AnswerLost, PostGivenUp, Disturb,
       InPass
  <2>2. torn' = 0 /\ stale' = 0 BY <2>1 DEF CountsMean
  <2> QED BY <2>1, <2>2, CountsAnew
<1>6. CASE Unwatch \/ Restart
  <2>1. torn' = 0 /\ stale' = 0 /\ tears' = tears BY <1>6 DEF Unwatch, Call, Restart
  <2> QED BY <2>1, CountsAnew
<1>7. CASE Resend \/ WatchStart \/ WatchCancelled \/ UNCHANGED vars
  <2>1. UNCHANGED <<torn, stale, carried, tears, done, src, text, mark, lost, dead>>
    BY <1>7 DEF Resend, ResendStart, ResendArrives, ResendAnswered, ResendFails, Disturb, Call,
       WatchStart, WatchCancelled
  <2>2. ledger \subseteq ledger' /\ (InPass' => InPass)
    BY <1>7 DEF Resend, ResendStart, ResendArrives, ResendAnswered, ResendFails, WatchStart,
       WatchCancelled, StopWatcher, InPass
  <2> QED BY <2>1, <2>2, CountsStay
<1>8. CASE LineLost \/ FileVanishes
  <2>1. UNCHANGED <<torn, stale, carried, tears, done, src, text, mark, ledger, dead, wpc>>
    BY <1>8 DEF LineLost, FileVanishes, Disturb
  <2>2. lost \subseteq lost' BY <1>8 DEF LineLost, FileVanishes
  <2> QED BY <2>1, <2>2, CountsStay DEF InPass
<1>9. CASE LongIdle
  <2>1. mark'.file = mark.file /\ mark'.last = mark.last /\ mark'.base = mark.base
    BY <1>1, <1>9 DEF LongIdle, Mark
  <2>2. UNCHANGED <<torn, stale, carried, tears, done, src, text, lost, ledger, dead, wpc>>
    BY <1>9 DEF LongIdle, Disturb
  <2> QED BY <2>1, <2>2, CountsStay DEF InPass
<1>10. CASE TurnCompletes
  <2>1. UNCHANGED <<torn, stale, carried, tears, lost, mark, ledger, dead, wpc>>
    BY <1>10 DEF TurnCompletes
  <2>2. PICK f \in Writable, x \in Texts :
          src' = [src EXCEPT ![done + 1] = f] /\ text' = [text EXCEPT ![done + 1] = x]
    BY <1>10 DEF TurnCompletes
  <2>3. /\ done' = done + 1 /\ done + 1 \in Turns
        /\ src \in [Turns -> Nat] /\ text \in [Turns -> Texts \cup {Empty}]
    BY <1>1, <1>10, BoundsAssumption DEF TurnCompletes, Turns, TypeInv, TypeOK
  <2>4. \A t \in 1..done : t # done + 1 /\ src'[t] = src[t] /\ text'[t] = text[t]
    BY <1>1, <2>2, <2>3
  <2>5. src'[done'] = f BY <2>2, <2>3
  <2>6. LeftForGood => LeftForGood'
    <3> SUFFICES ASSUME LeftForGood PROVE LeftForGood' OBVIOUS
    <3>1. Current = src[done] /\ src[done] \in Nat /\ mark.file \in Nat
      <4>1. done \in 1..done BY <1>1 DEF LeftForGood
      <4> QED BY <1>1, <2>3, <4>1, CurrentIs DEF LeftForGood, SkipInv, InOrder, Files, Mark
    <3>2. mark.file < f /\ f \in Nat BY <2>2, <3>1 DEF Writable, LeftForGood
    <3>3. ASSUME NEW t \in 1..done', Pending(t)' PROVE src'[t] # mark.file
      <4>1. CASE t = done + 1 BY <2>3, <2>5, <3>1, <3>2, <4>1
      <4>2. CASE t # done + 1
        <5>1. t \in 1..done BY <1>1, <2>3, <4>2
        <5>2. Pending(t) BY <2>1, <2>4, <3>3, <5>1 DEF Pending, Handled, Deliverable
        <5> QED BY <2>4, <5>1, <5>2 DEF LeftForGood
      <4> QED BY <4>1, <4>2
    <3>4. done' # 0 BY <1>1, <2>3
    <3> QED BY <2>1, <2>5, <3>2, <3>3, <3>4 DEF LeftForGood
  <2> QED BY <2>1, <2>6 DEF CountsMean, InPass
<1> QED BY <1>2, <1>3, <1>4, <1>5, <1>6, <1>7, <1>8, <1>9, <1>10 DEF Next, Poll

LEMMA SkipStep ==
  ASSUME ForwardInv, TypeInv, SkipInv, CountsMean, Prompt, Settled, Gated, [Next]_vars
  PROVE  SkipInv' /\ CountsMean'
<1>1. CASE PollTorn BY <1>1, PollTornSkip, TornReadWaits
<1>2. CASE PollIdle BY <1>2, PollIdleSkip
<1>3. CASE ~PollTorn /\ ~PollIdle
  <2>1. SkipInv'
    BY <1>3, PollVanishedSkip, PollNewSkip, TurnBeginSkip, PostSkip, ConnectSkip, LossSkip,
       IdleSkip, TurnCompletesSkip DEF Next, Poll
  <2> QED BY <1>3, <2>1, CountsStep
<1> QED BY <1>1, <1>2, <1>3

\* MCP-34, MCP-37: the watcher never moves past a reply that completed after the connect and
\* can still be read, however Claude changes transcripts, wherever lost anchors, vanished and
\* newer files move the mark, however often transcripts are read half-rewritten, and whatever
\* stops the watcher, its server or a POST in the middle. Assumed are Prompt, Settled and Gated.
THEOREM NoReplyPassedBy ==
  ASSUME Prompt, Settled, Gated PROVE Spec => []NoReplySkipped
<1>1. ASSUME ForwardInv, TypeInv, SkipInv PROVE NoReplySkipped
  <2> SUFFICES ASSUME Posting, NEW t \in 1..(Head - 1), t > mark.base, ~Handled(t), t \notin lost
               PROVE  FALSE
    BY DEF NoReplySkipped
  <2>1. InPass BY DEF Posting, InPass
  <2>2. PICK h \in 1..done : h = Head /\ h \in todo BY <1>1, <2>1, HeadInPass
  <2>3. todo \in SUBSET (1..done) /\ todo # {} /\ done \in Nat
    BY <1>1, <2>1 DEF ForwardInv, MarkTyped
  <2>4. \A u \in todo : h <= u
    <3>1. PICK v \in todo : \A u \in todo : v <= u BY <1>1, <2>3 DEF ForwardInv, FirstExists
    <3> QED BY <2>2, <3>1 DEF Head, MinOf
  <2>5. t \in 1..done /\ t < h BY <2>2, <2>3
  <2>6. Pending(t) BY DEF Pending
  <2>7. src[h] = mark.file BY <1>1, <2>1, <2>2 DEF ForwardInv, PassForward
  <2>8. CASE src[t] = mark.file
    <3>1. t \in todo \/ \A u \in todo : u < t
      BY <1>1, <2>1, <2>5, <2>6, <2>8 DEF SkipInv, PassComplete
    <3> QED BY <2>2, <2>4, <2>5, <3>1
  <2>9. CASE src[t] # mark.file
    <3>1. src[t] = src[done] BY <1>1, <2>5, <2>6, <2>9 DEF SkipInv, PendingAhead
    <3>2. h < t BY <1>1, <2>5, <2>7, <2>9, <3>1, CurrentIsNewest DEF SkipInv
    <3> QED BY <2>5, <3>2
  <2> QED BY <2>8, <2>9
<1>2. Init => CountsMean BY DEF Init, CountsMean, InPass
<1> QED BY <1>1, <1>2, ForwardInit, ForwardStep, TypeInit, TypeStep, SkipInit, SkipStep, PTL DEF Spec
=============================================================================
