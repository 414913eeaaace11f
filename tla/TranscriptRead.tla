--------------------------- MODULE TranscriptRead ---------------------------
(***************************************************************************)
(* How a transcript reaches the server (.devcontainer/transcript-mirror.sh *)
(* and mcp/src/aidc_mcp/transcript.py): Claude appends lines to its file,  *)
(* the mirror copies it forward when it is newer than the copy, and the    *)
(* server reads the copy through a cache of what it parsed.                *)
(*                                                                         *)
(* A file is a sequence of complete lines and perhaps the beginning of one *)
(* more. Time is counted in ticks of the file system's clock: whatever     *)
(* happens in one tick gets one modification time.                         *)
(***************************************************************************)
EXTENDS Integers, Sequences, SequencesExt, FiniteSets

CONSTANTS
  Vals,        \* what a line may say
  Junk,        \* the value of a line that does not parse
  None,        \* no file, nothing kept
  Settle,      \* _STAMP_SETTLE_NS, in ticks
  MaxLines, MaxNow, MaxRewrites,  \* bounds: lines, ticks, changes of the copy
  Faults       \* which rare events the run lets happen, see FaultKinds

\* "midpass"  something else writes the copy while the mirror is about to replace it
FaultKinds == {"midpass"}

ASSUME BoundsAssumption ==
  /\ Settle \in Nat /\ MaxLines \in Nat /\ MaxNow \in Nat /\ MaxRewrites \in Nat
  /\ Faults \subseteq FaultKinds

VARIABLES
  now,     \* the clock
  src,     \* Claude's transcript: its content and modification time, or None
  mirror,  \* the mirror's pass: what it copies
  file,    \* the copy: content, inode and modification time, or None
  kept,    \* _parsed[path], or None
  read,    \* read_transcript: the stamp of the file it opened, and what is in that file
  seen,    \* the objects its last answer held
  right,   \* history: every answer was what the file held
  stray,   \* history: the copy is not the source's, and no later tick has written that
  rewrites \* bound

cache == <<kept, read, seen>>
vars  == <<now, src, mirror, file, cache, right, stray, rewrites>>

-----------------------------------------------------------------------------
(* Content                                                                 *)

\* The beginning of a line: all of it but the newline, or less, which does not parse.
Tails    == {None} \cup [val : Vals, whole : BOOLEAN]
Contents == [lines : UNION {[1..n -> Vals] : n \in 0..MaxLines}, tail : Tails]
Whole    == {c \in Contents : c.tail = None}

\* None is no beginning of a line and no file.
ASSUME NoneAssumption ==
  /\ None \notin [val : Vals, whole : BOOLEAN]
  /\ None \notin [lines : Seq(Vals), tail : Tails, mtime : Nat]
  /\ None \notin [lines : Seq(Vals), tail : Tails, mtime : Nat, ino : Nat]

\* A line is 3 bytes, its beginning 1 and all but its newline 2.
Size(c) == 3 * Len(c.lines) + (IF c.tail = None THEN 0 ELSE IF c.tail.whole THEN 2 ELSE 1)

\* parse_jsonl: what does not parse is skipped.
Parse(lines) ==
  LET objs[n \in Nat] == IF n = 0 THEN <<>>
                         ELSE IF lines[n] = Junk THEN objs[n - 1]
                         ELSE Append(objs[n - 1], lines[n])
  IN  objs[Len(lines)]
ParseTail(tail) == IF tail # None /\ tail.whole THEN Parse(<<tail.val>>) ELSE <<>>
Parsed(c)       == Parse(c.lines) \o ParseTail(c.tail)

NoContent  == [lines |-> <<>>, tail |-> None]
Content(f) == [lines |-> f.lines, tail |-> f.tail]
StampOf(f) == <<f.ino, Size(Content(f)), f.mtime>>

\* A slip: any file's stamp is believed.
SettledAtOnce(f) == TRUE

Settled(f) == now - f.mtime > Settle

-----------------------------------------------------------------------------
(* Claude, and the clock                                                   *)

\* Has the mirror read the source in this tick, or is its copy as new as that?
CopiedNow ==
  \/ file # None /\ file.mtime >= now
  \/ mirror.pc = "move" /\ mirror.mtime = now

WriteSource(c) ==
  /\ src' = [lines |-> c.lines, tail |-> c.tail, mtime |-> now]
  /\ stray' = CopiedNow
  /\ UNCHANGED <<now, mirror, file, cache, right>>

\* Claude writes a line, at once or bit by bit.
ClaudeWrites ==
  LET c == IF src = None THEN NoContent ELSE Content(src) IN
  /\ Len(c.lines) < MaxLines
  /\ \E v \in IF c.tail = None THEN Vals ELSE {c.tail.val} :
       \/ WriteSource([lines |-> Append(c.lines, v), tail |-> None])
       \/ \E w \in BOOLEAN :
            /\ c.tail # None => ~c.tail.whole /\ w
            /\ WriteSource([c EXCEPT !.tail = [val |-> v, whole |-> w]])
  /\ UNCHANGED rewrites

Rewrites == rewrites < MaxRewrites /\ rewrites' = rewrites + 1

\* The copy is written in place, by whatever is not the mirror, also for a reader that
\* has it open.
CopyRewritten ==
  /\ file # None /\ Rewrites
  /\ mirror.pc = "idle" \/ "midpass" \in Faults
  /\ \E c \in Whole :
       /\ c # Content(file)
       /\ file' = [file EXCEPT !.lines = c.lines, !.tail = c.tail, !.mtime = now]
       /\ read' = IF read.pc = "opened" /\ read.stamp[1] = file.ino
                    THEN [read EXCEPT !.content = c] ELSE read
  /\ stray' = TRUE
  /\ UNCHANGED <<now, src, mirror, kept, seen, right>>

Tick ==
  /\ now < MaxNow /\ now' = now + 1
  /\ UNCHANGED <<src, mirror, file, cache, right, stray, rewrites>>

-----------------------------------------------------------------------------
(* The mirror: aidc_mirror_copy_forward_pass                               *)

NoPass == [pc |-> "idle", lines |-> <<>>, tail |-> None, mtime |-> 0]

\* The copy is missing or older than the source, whose time cp -p takes first.
MirrorStarts ==
  /\ mirror.pc = "idle" /\ src # None
  /\ file # None => src.mtime > file.mtime
  /\ mirror' = [NoPass EXCEPT !.pc = "copy", !.mtime = src.mtime]
  /\ UNCHANGED <<now, src, file, cache, right, stray, rewrites>>

MirrorCopies ==
  /\ mirror.pc = "copy"
  /\ mirror' = [mirror EXCEPT !.pc = "move", !.lines = src.lines, !.tail = src.tail]
  /\ UNCHANGED <<now, src, file, cache, right, stray, rewrites>>

\* An inode that neither the path nor a reader holds.
FreeInode == CHOOSE i \in 1..3 : i # read.stamp[1] /\ (file # None => i # file.ino)

\* A slip: cp straight to the copy's name.
MirrorCopiesInPlace ==
  /\ mirror.pc = "move" /\ mirror' = NoPass
  /\ \E n \in 0..Len(mirror.lines) :
       file' = [lines |-> SubSeq(mirror.lines, 1, n), tail |-> None,
                mtime |-> mirror.mtime, ino |-> IF file = None THEN FreeInode ELSE file.ino]
  /\ UNCHANGED <<now, src, cache, right, stray, rewrites>>

\* A slip: cp without -p, so the copy's time is that of its making.
MirrorMovesUntimed ==
  /\ mirror.pc = "move" /\ mirror' = NoPass
  /\ file' = [lines |-> mirror.lines, tail |-> mirror.tail, mtime |-> now,
              ino |-> FreeInode]
  /\ UNCHANGED <<now, src, cache, right, stray, rewrites>>

\* The rename: a new file under the name. Whoever has the old one open reads on in that.
MirrorMoves ==
  /\ mirror.pc = "move" /\ mirror' = NoPass
  /\ file' = [lines |-> mirror.lines, tail |-> mirror.tail, mtime |-> mirror.mtime,
              ino |-> FreeInode]
  /\ UNCHANGED <<now, src, cache, right, stray, rewrites>>

\* cp or mv fails, or the container stops: the pass leaves nothing.
MirrorFails ==
  /\ mirror.pc # "idle" /\ mirror' = NoPass
  /\ UNCHANGED <<now, src, file, cache, right, stray, rewrites>>

-----------------------------------------------------------------------------
(* read_transcript. Its lock keeps it to one reader at a time.             *)

NoRead == [pc |-> "idle", stamp |-> <<0, 0, 0>>, content |-> NoContent, settled |-> FALSE]

Answer(got, c) == right' = (right /\ got = Parsed(c)) /\ seen' = got

\* fstat: an unchanged file of a settled stamp is answered from what is kept.
ReadOpens ==
  /\ read.pc = "idle" /\ file # None
  /\ IF kept # None /\ kept.stamp = StampOf(file) /\ kept.settled
     THEN Answer(kept.objs \o kept.tail, Content(file)) /\ UNCHANGED read
     ELSE /\ read' = [pc |-> "opened", stamp |-> StampOf(file), content |-> Content(file),
                      settled |-> Settled(file)]
          /\ UNCHANGED <<seen, right>>
  /\ UNCHANGED <<now, src, mirror, file, kept, stray, rewrites>>

\* A slip: a file that is longer than before has only grown.
StillBeginsByLength(c) == kept # None /\ Len(c.lines) >= Len(kept.consumed)

\* The bytes read still begin with those parsed before, by their hash.
StillBegins(c) == kept # None /\ IsPrefix(kept.consumed, c.lines)

\* A slip: the unfinished line is kept as parsed.
ConsumedWithTail(c) == c.lines \o (IF c.tail = None THEN <<>> ELSE <<c.tail.val>>)

\* Bytes through the last newline are kept as parsed.
Consumed(c) == c.lines

\* The bytes are read, and the lines not parsed before are parsed.
ReadFinishes ==
  /\ read.pc = "opened" /\ read' = NoRead
  /\ LET c    == read.content
         from == IF StillBegins(c) THEN Len(kept.consumed) ELSE 0
         objs == (IF StillBegins(c) THEN kept.objs ELSE <<>>)
                 \o Parse(SubSeq(c.lines, from + 1, Len(c.lines)))
     IN
     /\ kept' = [stamp |-> read.stamp, settled |-> read.settled,
                 consumed |-> Consumed(c), objs |-> objs, tail |-> ParseTail(c.tail)]
     /\ Answer(objs \o ParseTail(c.tail), c)
  /\ UNCHANGED <<now, src, mirror, file, stray, rewrites>>

\* Another transcript of the session is read, or forget_transcripts.
Forgotten ==
  /\ kept # None /\ read.pc = "idle" /\ kept' = None
  /\ UNCHANGED <<now, src, mirror, file, read, seen, right, stray, rewrites>>

-----------------------------------------------------------------------------
Init ==
  /\ now = 1 /\ src = None /\ mirror = NoPass /\ file = None
  /\ kept = None /\ read = NoRead /\ seen = <<>>
  /\ right = TRUE /\ stray = FALSE /\ rewrites = 0

Mirror == MirrorStarts \/ MirrorCopies \/ MirrorMoves
Read   == ReadOpens \/ ReadFinishes

Next ==
  \/ ClaudeWrites \/ CopyRewritten \/ Tick
  \/ Mirror \/ MirrorFails \/ Read \/ Forgotten

Spec == Init /\ [][Next]_vars

\* The mirror passes every two seconds, and the watcher polls as often; not every pass of
\* the mirror fails.
LiveSpec == /\ Spec /\ WF_vars(Mirror) /\ WF_vars(Read)
            /\ SF_vars(MirrorCopies) /\ SF_vars(MirrorMoves)

-----------------------------------------------------------------------------
(* Properties                                                              *)

\* read_transcript: "exactly what parse_jsonl(path.read_text(...)) [gives]", whoever writes
\* the file, but for the fault, and whatever is kept.
ReadIsFile == right

\* transcript-mirror.sh: a reader never sees a copy that is half written, so with a source
\* that only grows, and a copy only the mirror writes, no read gives less than one before
\* it, also when a pass fails between its cp and its mv.
NeverUnsays == [][rewrites = 0 => IsPrefix(seen, seen')]_vars

\* What Claude wrote last is read in the end, once it is not in the tick of a copy.
SeenInTheEnd == <>[](src = None \/ stray \/ seen = Parsed(Content(src)))
=============================================================================
