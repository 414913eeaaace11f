--------------------------- MODULE TranscriptProofs ---------------------------
(***************************************************************************)
(* Proofs about what Transcript makes of a transcript, whatever its length *)
(* and its lines: the pass that completes turns and the scan for the       *)
(* opener are recursive functions, and what they find is proved by         *)
(* induction, stated of sets and functions rather than of operators.       *)
(***************************************************************************)
EXTENDS Transcript, WellFoundedInduction, TLAPS

-----------------------------------------------------------------------------
(* Induction and recursion over the natural numbers.                       *)

\* < is well-founded.
LEMMA LessWellFounded == IsWellFoundedOn({p \in Nat \X Nat : p[1] < p[2]}, Nat)
BY NatLessThanWellFounded DEF OpToRel

\* A set of natural numbers that is not empty has a least element.
LEMMA Least ==
  ASSUME NEW S \in SUBSET Nat, S # {}
  PROVE  \E m \in S : \A t \in S : m <= t
<1> DEFINE R == {p \in Nat \X Nat : p[1] < p[2]}
<1>1. IsWellFoundedOn(R, Nat) BY LessWellFounded
<1> HIDE DEF R
<1>2. PICK m \in S : \A t \in S : ~(<<t, m>> \in R) BY <1>1, WFMin
<1> USE DEF R
<1>3. ASSUME NEW t \in S PROVE m <= t
  <2>1. t \in Nat /\ m \in Nat OBVIOUS
  <2>2. ~(t < m) BY <1>2, <2>1
  <2> QED BY <2>1, <2>2
<1> QED BY <1>3

\* Induction: what holds of 0, and with n of n + 1, holds of every natural number.
LEMMA Induct ==
  ASSUME NEW S, 0 \in S, \A n \in Nat : n \in S => n + 1 \in S
  PROVE  Nat \subseteq S
<1> SUFFICES ASSUME Nat \ S # {} PROVE FALSE OBVIOUS
<1>1. PICK m \in Nat \ S : \A t \in Nat \ S : m <= t BY Least
<1>2. m # 0 BY <1>1
<1>3. m - 1 \in Nat /\ m - 1 \in S BY <1>1, <1>2
<1> QED BY <1>1, <1>3

\* step says what follows a value of D, given the number it is for.
IsStep(step, D) == step \in [D \X Nat -> D]

\* f begins with a, and each value is what step makes of the one before.
IsRecursive(f, D, a, step) ==
  /\ f \in [Nat -> D] /\ f[0] = a
  /\ \A n \in Nat : f[n + 1] = step[<<f[n], n + 1>>]

\* Recursion: a first value and a step have a function on the natural numbers.
LEMMA Recursion ==
  ASSUME NEW D, NEW a \in D, NEW step, IsStep(step, D)
  PROVE  \E f : IsRecursive(f, D, a, step)
<1> USE DEF IsStep
<1> DEFINE Begins(f, n) ==
             /\ f \in [0 .. n -> D] /\ f[0] = a
             /\ \A k \in 0 .. n - 1 : f[k + 1] = step[<<f[k], k + 1>>]
           S == {n \in Nat : \E f \in [0 .. n -> D] : Begins(f, n)}
<1>1. Nat \subseteq S
  <2>1. 0 \in S
    <3>1. Begins([k \in 0 .. 0 |-> a], 0) OBVIOUS
    <3> QED BY <3>1
  <2>2. ASSUME NEW n \in Nat, n \in S PROVE n + 1 \in S
    <3>1. PICK f \in [0 .. n -> D] : Begins(f, n) BY <2>2
    <3> DEFINE g == [k \in 0 .. n + 1 |-> IF k = n + 1 THEN step[<<f[n], n + 1>>] ELSE f[k]]
    <3>2. step[<<f[n], n + 1>>] \in D OBVIOUS
    <3>3. g \in [0 .. n + 1 -> D] BY <3>2
    <3>4. g[0] = a BY <3>1
    <3>5. ASSUME NEW k \in 0 .. n PROVE g[k + 1] = step[<<g[k], k + 1>>]
      <4>1. g[k] = f[k] OBVIOUS
      <4>2. CASE k = n BY <4>1, <4>2, SMTT(30)
      <4>3. CASE k # n BY <4>1, <4>3, <3>1
      <4> QED BY <4>2, <4>3
    <3> HIDE DEF g
    <3>6. Begins(g, n + 1) BY <3>3, <3>4, <3>5
    <3> QED BY <3>3, <3>6
  <2> HIDE DEF S
  <2> QED BY <2>1, <2>2, Induct
<1>2. ASSUME NEW n \in Nat, NEW m \in Nat, n <= m,
             NEW f, NEW g, Begins(f, n), Begins(g, m)
      PROVE  \A k \in 0 .. n : f[k] = g[k]
  <2> DEFINE T == {k \in Nat : k <= n => f[k] = g[k]}
  <2>1. 0 \in T BY <1>2
  <2>2. ASSUME NEW k \in Nat, k \in T PROVE k + 1 \in T
    <3> SUFFICES ASSUME k + 1 <= n PROVE f[k + 1] = g[k + 1] OBVIOUS
    <3>1. k \in 0 .. n - 1 /\ k \in 0 .. m - 1 BY <1>2
    <3>2. f[k + 1] = step[<<f[k], k + 1>>] /\ g[k + 1] = step[<<g[k], k + 1>>] BY <1>2, <3>1
    <3> QED BY <2>2, <3>1, <3>2
  <2> HIDE DEF T
  <2>3. Nat \subseteq T BY <2>1, <2>2, Induct
  <2> QED BY <2>3 DEF T
<1> DEFINE F(n) == CHOOSE f \in [0 .. n -> D] : Begins(f, n)
           h == [n \in Nat |-> F(n)[n]]
<1>3. \A n \in Nat : F(n) \in [0 .. n -> D] /\ Begins(F(n), n)
  <2> SUFFICES ASSUME NEW n \in Nat PROVE F(n) \in [0 .. n -> D] /\ Begins(F(n), n) OBVIOUS
  <2>1. \E f \in [0 .. n -> D] : Begins(f, n) BY <1>1
  <2> HIDE DEF Begins
  <2> QED BY <2>1
<1> HIDE DEF F
<1>4. h \in [Nat -> D] BY <1>3
<1>5. h[0] = a BY <1>3
<1>6. ASSUME NEW n \in Nat PROVE h[n + 1] = step[<<h[n], n + 1>>]
  <2> HIDE DEF Begins
  <2>1. F(n)[n] = F(n + 1)[n]
    <3>1. n \in Nat /\ n + 1 \in Nat /\ n <= n + 1 /\ n \in 0 .. n OBVIOUS
    <3>2. Begins(F(n), n) /\ Begins(F(n + 1), n + 1) BY <1>3, <3>1
    <3> QED BY <1>2, <3>1, <3>2
  <2> USE DEF Begins
  <2>2. F(n + 1)[n + 1] = step[<<F(n + 1)[n], n + 1>>] BY <1>3
  <2> QED BY <2>1, <2>2
<1> QED BY <1>4, <1>5, <1>6 DEF IsRecursive

-----------------------------------------------------------------------------
(* The scan for the opener of the turn in progress.                        *)

Scans == [opener : Nat, open : BOOLEAN, saw : BOOLEAN, ended : BOOLEAN]
NoScan == [opener |-> 0, open |-> FALSE, saw |-> FALSE, ended |-> TRUE]

LEMMA ReadOpenerTyped ==
  ASSUME NEW o \in Scans, NEW kind, NEW i \in Nat
  PROVE  ReadOpener(o, kind, i) \in Scans
BY DEF ReadOpener, Scans, Assistant, OpensTurn

\* A record of a turn's end, an interrupt or a local command closes the turn.
LEMMA ReadOpenerCloses ==
  ASSUME NEW o \in Scans, NEW i, NEW kind \in {"duration", "interrupt", "local"}
  PROVE  ~ReadOpener(o, kind, i).open
<1>1. ReadOpener(o, kind, i) = [o EXCEPT !.open = FALSE] BY DEF ReadOpener
<1> QED BY <1>1 DEF Scans

\* What Claude writes leaves an open turn its opener.
LEMMA ReadOpenerReplies ==
  ASSUME NEW o, NEW i, NEW kind \in Assistant
  PROVE  ReadOpener(o, kind, i) =
           [opener |-> IF o.open THEN o.opener ELSE 0, open |-> TRUE, saw |-> TRUE,
            ended |-> kind # "work"]
BY DEF ReadOpener, Assistant

\* The scan is what its definition says: the recursion has a value.
LEMMA ScanIs ==
  ASSUME NEW s
  PROVE  /\ Scan(s) \in [Nat -> Scans]
         /\ Scan(s)[0] = NoScan
         /\ \A n \in Nat : Scan(s)[n + 1] = ReadOpener(Scan(s)[n], s[n + 1], n + 1)
<1> DEFINE step == [x \in Scans \X Nat |-> ReadOpener(x[1], s[x[2]], x[2])]
           Fn(o) == [n \in Nat |-> IF n = 0 THEN NoScan ELSE ReadOpener(o[n - 1], s[n], n)]
<1>1. NoScan \in Scans BY DEF NoScan, Scans
<1>2. step \in [Scans \X Nat -> Scans] BY ReadOpenerTyped
<1> HIDE DEF step
<1>3. PICK f : IsRecursive(f, Scans, NoScan, step)
  <2>1. IsStep(step, Scans) BY <1>2 DEF IsStep
  <2> QED BY <1>1, <2>1, Recursion
<1> USE DEF step
<1>4. /\ f \in [Nat -> Scans] /\ f[0] = NoScan
      /\ \A n \in Nat : f[n + 1] = ReadOpener(f[n], s[n + 1], n + 1)
  <2>1. \A n \in Nat : n + 1 \in Nat OBVIOUS
  <2>2. \A x \in Scans, n \in Nat : step[<<x, n>>] = ReadOpener(x, s[n], n) OBVIOUS
  <2> HIDE DEF step
  <2> QED BY <1>3, <2>1, <2>2 DEF IsRecursive
<1> HIDE DEF step
<1>5. f = Fn(f)
  <2>1. ASSUME NEW n \in Nat PROVE f[n] = Fn(f)[n]
    <3>1. CASE n = 0 BY <1>4, <3>1
    <3>2. CASE n # 0
      <4>1. n - 1 \in Nat /\ (n - 1) + 1 = n BY <3>2
      <4> QED BY <4>1, <1>4, <3>2
    <3> QED BY <3>1, <3>2
  <2> QED BY <2>1, <1>4
<1> DEFINE g == CHOOSE o : o = Fn(o)
<1>6. Scan(s) = g BY DEF Scan, NoScan
<1>7. g = Fn(g)
  <2> HIDE DEF Fn
  <2> QED BY <1>5
<1> HIDE DEF g
<1>8. g[0] = NoScan BY <1>7
<1>9. \A n \in Nat : g[n + 1] = ReadOpener(g[n], s[n + 1], n + 1)
  <2> SUFFICES ASSUME NEW n \in Nat PROVE g[n + 1] = ReadOpener(g[n], s[n + 1], n + 1) OBVIOUS
  <2>1. n + 1 \in Nat /\ n + 1 # 0 /\ (n + 1) - 1 = n OBVIOUS
  <2> QED BY <1>7, <2>1
<1>10. g \in [Nat -> Scans]
  <2> DEFINE T == {n \in Nat : g[n] \in Scans}
  <2>1. 0 \in T BY <1>1, <1>8
  <2>2. \A n \in Nat : n \in T => n + 1 \in T BY <1>9, ReadOpenerTyped
  <2> HIDE DEF T
  <2>3. Nat \subseteq T BY <2>1, <2>2, Induct
  <2>4. DOMAIN g = Nat BY <1>7
  <2>5. g = [n \in Nat |-> g[n]] BY <1>7, <2>4
  <2> QED BY <2>3, <2>5 DEF T
<1> QED BY <1>6, <1>8, <1>9, <1>10

\* It depends on the lines read only.
LEMMA ScanSame ==
  ASSUME NEW s, NEW t, NEW n \in Nat, \A i \in 1 .. n : s[i] = t[i]
  PROVE  Scan(s)[n] = Scan(t)[n]
<1> DEFINE T == {k \in Nat : k <= n => Scan(s)[k] = Scan(t)[k]}
<1>1. 0 \in T BY ScanIs
<1>2. ASSUME NEW k \in Nat, k \in T PROVE k + 1 \in T
  <2>1. CASE k + 1 <= n
    <3>1. Scan(s)[k] = Scan(t)[k] /\ s[k + 1] = t[k + 1] BY <1>2, <2>1
    <3> QED BY <3>1, ScanIs
  <2> QED BY <2>1
<1> HIDE DEF T
<1>3. Nat \subseteq T BY <1>1, <1>2, Induct
<1> QED BY <1>3 DEF T


-----------------------------------------------------------------------------
(* A pass over the lines, and the turns it completes.                      *)

Groups == [anchor : Nat, text : SUBSET Nat, pending : SUBSET Nat, ok : BOOLEAN, cut : BOOLEAN,
           prompts : SUBSET Nat, saw : BOOLEAN]
Turns  == [anchor : Nat, text : SUBSET Nat, ok : BOOLEAN, cut : BOOLEAN, prompts : SUBSET Nat]
Passes == [turns : Seq(Turns), group : Groups]
NoPass == [turns |-> <<>>, group |-> NoGroup]

\* g with its group put in place of p's.
Grouped(p, g) == [p EXCEPT !.group = g]

LEMMA GroupedIs ==
  ASSUME NEW p \in Passes, NEW g \in Groups
  PROVE  /\ Grouped(p, g) \in Passes
         /\ Grouped(p, g).turns = p.turns /\ Grouped(p, g).group = g
BY DEF Grouped, Passes

LEMMA NoGroupIs == NoGroup \in Groups /\ NoPass \in Passes
<1>1. NoGroup \in Groups BY DEF NoGroup, Groups
<1> QED BY <1>1 DEF NoPass, Passes

\* What each operation leaves of a group.
LEMMA WithdrawIs ==
  ASSUME NEW g \in Groups
  PROVE  LET h == Withdraw(g) IN
         /\ h \in Groups
         /\ h.anchor = 0 /\ h.text = {} /\ h.pending = g.pending /\ h.prompts = g.prompts
         /\ h.saw = g.saw
BY DEF Withdraw, Groups

LEMMA EndReplyIs ==
  ASSUME NEW g \in Groups, NEW i \in Nat, NEW ok \in BOOLEAN
  PROVE  LET h == EndReply(g, i, ok) IN
         /\ h \in Groups
         /\ h.anchor = i /\ h.text = g.pending /\ h.pending = g.pending
         /\ h.prompts = g.prompts /\ h.saw = g.saw
BY DEF EndReply, Groups

LEMMA WrittenIs ==
  ASSUME NEW g \in Groups, NEW i \in Nat
  PROVE  LET h == Written(g, i) IN
         /\ h \in Groups
         /\ h.anchor = g.anchor /\ h.text = g.text /\ h.pending = g.pending \cup {i}
         /\ h.prompts = g.prompts /\ h.saw
BY DEF Written, Groups

LEMMA FailedIs ==
  ASSUME NEW g \in Groups, NEW i \in Nat
  PROVE  LET h == Failed(g, i) IN
         /\ h \in Groups
         /\ h.anchor = i /\ h.text = g.pending \cup {i} /\ h.pending = g.pending
         /\ h.prompts = g.prompts /\ h.saw
BY DEF Failed, Groups

LEMMA CutOffIs ==
  ASSUME NEW g \in Groups, NEW i \in Nat
  PROVE  LET h == CutOff(g, i) IN
         /\ h \in Groups
         /\ h.prompts = g.prompts /\ h.pending = g.pending /\ h.saw = g.saw
         /\ IF g.anchor = 0 /\ (g.saw \/ g.prompts # {})
              THEN h.anchor = i /\ h.text = g.pending
              ELSE h = g
<1>1. CASE g.anchor = 0 /\ (g.saw \/ g.prompts # {})
  <2> DEFINE e == EndReply(g, i, TRUE)
  <2>1. /\ e \in Groups
        /\ e.anchor = i /\ e.text = g.pending /\ e.pending = g.pending
        /\ e.prompts = g.prompts /\ e.saw = g.saw
    BY EndReplyIs
  <2>2. CutOff(g, i) = [e EXCEPT !.cut = TRUE] BY <1>1 DEF CutOff
  <2> HIDE DEF e
  <2> QED BY <1>1, <2>1, <2>2 DEF Groups
<1>2. CASE ~(g.anchor = 0 /\ (g.saw \/ g.prompts # {})) BY <1>2 DEF CutOff
<1> QED BY <1>1, <1>2

LEMMA FlushIs ==
  ASSUME NEW p \in Passes
  PROVE  LET q == Flush(p) IN
         /\ q \in Passes /\ q.group = NoGroup
         /\ p.group.anchor = 0 => q.turns = p.turns
         /\ p.group.anchor # 0 =>
              q.turns = Append(p.turns, Turn(p.group)) /\ Turn(p.group) \in Turns
<1>1. p.turns \in Seq(Turns) /\ p.group \in Groups BY DEF Passes
<1>2. Turn(p.group) \in Turns BY <1>1 DEF Turn, Turns, Groups
<1>3. Flush(p) = [turns |-> IF p.group.anchor = 0 THEN p.turns
                            ELSE Append(p.turns, Turn(p.group)), group |-> NoGroup]
  BY DEF Flush
<1>4. Append(p.turns, Turn(p.group)) \in Seq(Turns) BY <1>1, <1>2
<1> QED BY <1>1, <1>2, <1>3, <1>4, NoGroupIs DEF Passes

\* What a line does to the pass, by its kind: the kinds it does something to, and the others.
Tells == {"feedback", "interrupt", "work", "reply", "ask", "error"} \cup UserPrompts

LEMMA ReadLineIs ==
  ASSUME NEW p, NEW i
  PROVE  /\ ReadLine(p, "feedback", i) =
              Grouped(p, IF p.group.anchor # 0 THEN Withdraw(p.group) ELSE p.group)
         /\ ReadLine(p, "interrupt", i) = Flush(Grouped(p, CutOff(p.group, i)))
         /\ ReadLine(p, "work", i) = Grouped(p, Written(p.group, i))
         /\ ReadLine(p, "reply", i) = Grouped(p, EndReply(Written(p.group, i), i, TRUE))
         /\ ReadLine(p, "ask", i) = Flush(Grouped(p, EndReply(Written(p.group, i), i, TRUE)))
         /\ ReadLine(p, "error", i) = Grouped(p, Failed(p.group, i))
         /\ \A kind \in UserPrompts : ReadLine(p, kind, i) = ReadPrompt(p, kind, i)
         /\ \A kind : kind \notin Tells => ReadLine(p, kind, i) = p
<1>1. /\ ReadLine(p, "feedback", i) =
           Grouped(p, IF p.group.anchor # 0 THEN Withdraw(p.group) ELSE p.group)
      /\ ReadLine(p, "interrupt", i) = Flush(Grouped(p, CutOff(p.group, i)))
  BY DEF ReadLine, Grouped
<1>2. /\ ReadLine(p, "work", i) = Grouped(p, Written(p.group, i))
      /\ ReadLine(p, "reply", i) = Grouped(p, EndReply(Written(p.group, i), i, TRUE))
  BY DEF ReadLine, Grouped, UserPrompts, Typed
<1>3. /\ ReadLine(p, "ask", i) = Flush(Grouped(p, EndReply(Written(p.group, i), i, TRUE)))
      /\ ReadLine(p, "error", i) = Grouped(p, Failed(p.group, i))
  BY DEF ReadLine, Grouped, UserPrompts, Typed
<1>4. \A kind \in UserPrompts : ReadLine(p, kind, i) = ReadPrompt(p, kind, i)
  BY DEF ReadLine, UserPrompts, Typed
<1>5. \A kind : kind \notin Tells => ReadLine(p, kind, i) = p
  BY DEF ReadLine, Tells, UserPrompts, Typed
<1> QED BY <1>1, <1>2, <1>3, <1>4, <1>5

\* A prompt, or a local command: first what it closes, then what it adds.
Closed(p, kind) ==
  IF p.group.saw THEN Flush(p)
  ELSE IF kind = "notice" THEN Grouped(p, [p.group EXCEPT !.prompts = {}]) ELSE p

\* r is p with a prompt read, q with what that closes closed.
PromptRead(p, kind, i, q, r) ==
  /\ q \in Passes /\ r \in Passes
  /\ r.turns = q.turns
  /\ r.group.anchor = q.group.anchor /\ r.group.text = q.group.text
  /\ r.group.pending = q.group.pending /\ r.group.saw = q.group.saw
  /\ r.group.prompts = IF kind = "prompt" THEN q.group.prompts \cup {i} ELSE q.group.prompts
  /\ ~p.group.saw =>
       /\ q.turns = p.turns
       /\ q.group.anchor = p.group.anchor /\ q.group.text = p.group.text
       /\ q.group.pending = p.group.pending /\ ~q.group.saw
       /\ q.group.prompts = IF kind = "notice" THEN {} ELSE p.group.prompts

LEMMA ReadPromptIs ==
  ASSUME NEW p \in Passes, NEW kind, NEW i \in Nat
  PROVE  PromptRead(p, kind, i, Closed(p, kind), ReadPrompt(p, kind, i))
<1> DEFINE g == p.group
           q == Closed(p, kind)
           none == [g EXCEPT !.prompts = {}]
<1>1. p.turns \in Seq(Turns) /\ g \in Groups BY DEF Passes
<1>2. /\ none \in Groups
      /\ none.anchor = g.anchor /\ none.text = g.text /\ none.pending = g.pending
      /\ none.saw = g.saw /\ none.prompts = {}
  BY <1>1 DEF Groups
<1> HIDE DEF none
<1>3. Flush(p) \in Passes /\ Flush(p).group = NoGroup BY FlushIs
<1>4. /\ Grouped(p, none) \in Passes
      /\ Grouped(p, none).turns = p.turns /\ Grouped(p, none).group = none
  BY <1>2, GroupedIs
<1>5. q \in Passes BY <1>3, <1>4 DEF Closed, none
<1>6. ~g.saw =>
        /\ q.turns = p.turns
        /\ q.group.anchor = g.anchor /\ q.group.text = g.text
        /\ q.group.pending = g.pending /\ ~q.group.saw
        /\ q.group.prompts = IF kind = "notice" THEN {} ELSE g.prompts
  BY <1>2, <1>4 DEF Closed, none
<1>7. ReadPrompt(p, kind, i) =
        IF kind = "prompt" THEN [q EXCEPT !.group.prompts = @ \cup {i}] ELSE q
  BY DEF ReadPrompt, Closed, Grouped
<1> HIDE DEF q
<1> DEFINE r == [q EXCEPT !.group.prompts = @ \cup {i}]
<1>8. /\ r \in Passes /\ r.turns = q.turns
      /\ r.group.anchor = q.group.anchor /\ r.group.text = q.group.text
      /\ r.group.pending = q.group.pending /\ r.group.saw = q.group.saw
      /\ r.group.prompts = q.group.prompts \cup {i}
  <2>1. q.group \in Groups /\ q.turns \in Seq(Turns) BY <1>5 DEF Passes
  <2> DEFINE h == [q.group EXCEPT !.prompts = @ \cup {i}]
  <2>2. /\ h \in Groups /\ h.anchor = q.group.anchor /\ h.text = q.group.text
        /\ h.pending = q.group.pending /\ h.saw = q.group.saw
        /\ h.prompts = q.group.prompts \cup {i}
    BY <2>1 DEF Groups
  <2>3. r = Grouped(q, h) BY <1>5 DEF Grouped, Passes
  <2> HIDE DEF h, r
  <2> QED BY <1>5, <2>2, <2>3, GroupedIs
<1> HIDE DEF r
<1>9. CASE kind = "prompt" BY <1>5, <1>6, <1>7, <1>8, <1>9 DEF q, r, PromptRead
<1>10. CASE kind # "prompt" BY <1>5, <1>6, <1>7, <1>10 DEF q, PromptRead
<1> QED BY <1>9, <1>10

LEMMA ReadLineTyped ==
  ASSUME NEW p \in Passes, NEW kind, NEW i \in Nat
  PROVE  ReadLine(p, kind, i) \in Passes
<1> DEFINE g == p.group
           r == ReadLine(p, kind, i)
<1>0. g \in Groups BY DEF Passes
<1>1. CASE kind = "feedback"
  <2>1. r = Grouped(p, IF g.anchor # 0 THEN Withdraw(g) ELSE g) BY <1>1, ReadLineIs
  <2> QED BY <1>0, <2>1, WithdrawIs, GroupedIs
<1>2. CASE kind = "interrupt"
  <2>1. r = Flush(Grouped(p, CutOff(g, i))) BY <1>2, ReadLineIs
  <2>2. Grouped(p, CutOff(g, i)) \in Passes BY <1>0, CutOffIs, GroupedIs
  <2> QED BY <2>1, <2>2, FlushIs
<1>3. CASE kind \in UserPrompts
  <2>1. r = ReadPrompt(p, kind, i) BY <1>3, ReadLineIs
  <2>2. PromptRead(p, kind, i, Closed(p, kind), ReadPrompt(p, kind, i)) BY ReadPromptIs
  <2> QED BY <2>1, <2>2 DEF PromptRead
<1>4. CASE kind = "work"
  <2>1. r = Grouped(p, Written(g, i)) BY <1>4, ReadLineIs
  <2> QED BY <1>0, <2>1, WrittenIs, GroupedIs
<1>5. CASE kind \in {"reply", "ask"}
  <2>1. Written(g, i) \in Groups BY <1>0, WrittenIs
  <2>2. EndReply(Written(g, i), i, TRUE) \in Groups BY <2>1, EndReplyIs
  <2>3. Grouped(p, EndReply(Written(g, i), i, TRUE)) \in Passes BY <2>2, GroupedIs
  <2>4. Flush(Grouped(p, EndReply(Written(g, i), i, TRUE))) \in Passes BY <2>3, FlushIs
  <2>5. CASE kind = "reply" BY <2>3, <2>5, ReadLineIs
  <2>6. CASE kind = "ask" BY <2>4, <2>6, ReadLineIs
  <2> QED BY <1>5, <2>5, <2>6
<1>6. CASE kind = "error"
  <2>1. r = Grouped(p, Failed(g, i)) BY <1>6, ReadLineIs
  <2> QED BY <1>0, <2>1, FailedIs, GroupedIs
<1>7. CASE kind \notin Tells BY <1>7, ReadLineIs
<1> QED BY <1>1, <1>2, <1>3, <1>4, <1>5, <1>6, <1>7 DEF Tells

\* The pass is what its definition says: the recursion has a value.
LEMMA PassIs ==
  ASSUME NEW s, NEW f \in Nat \ {0}
  PROVE  /\ Pass(s, f) \in [Nat -> Passes]
         /\ \A n \in 0 .. f - 1 : Pass(s, f)[n] = NoPass
         /\ \A n \in Nat : n + 1 >= f =>
              Pass(s, f)[n + 1] = ReadLine(Pass(s, f)[n], s[n + 1], n + 1)
<1> DEFINE step == [x \in Passes \X Nat |->
                      IF x[2] < f THEN NoPass ELSE ReadLine(x[1], s[x[2]], x[2])]
           Fn(p) == [n \in Nat |-> IF n < f THEN NoPass ELSE ReadLine(p[n - 1], s[n], n)]
<1>1. NoPass \in Passes BY NoGroupIs
<1>2. step \in [Passes \X Nat -> Passes] BY <1>1, ReadLineTyped
<1> HIDE DEF step
<1>3. PICK p : IsRecursive(p, Passes, NoPass, step)
  <2>1. IsStep(step, Passes) BY <1>2 DEF IsStep
  <2> QED BY <1>1, <2>1, Recursion
<1> USE DEF step
<1>4. /\ p \in [Nat -> Passes] /\ p[0] = NoPass
      /\ \A n \in Nat : p[n + 1] = IF n + 1 < f THEN NoPass
                                   ELSE ReadLine(p[n], s[n + 1], n + 1)
  <2>1. \A n \in Nat : n + 1 \in Nat OBVIOUS
  <2>2. \A x \in Passes, n \in Nat :
          step[<<x, n>>] = IF n < f THEN NoPass ELSE ReadLine(x, s[n], n) OBVIOUS
  <2> HIDE DEF step
  <2> QED BY <1>3, <2>1, <2>2 DEF IsRecursive
<1> HIDE DEF step
<1>5. p = Fn(p)
  <2>1. ASSUME NEW n \in Nat PROVE p[n] = Fn(p)[n]
    <3>1. CASE n = 0 BY <1>4, <3>1
    <3>2. CASE n # 0
      <4>1. n - 1 \in Nat /\ (n - 1) + 1 = n BY <3>2
      <4> QED BY <4>1, <1>4, <3>2
    <3> QED BY <3>1, <3>2
  <2> QED BY <2>1, <1>4
<1> DEFINE g == CHOOSE q : q = Fn(q)
<1>6. Pass(s, f) = g BY DEF Pass, NoPass
<1>7. g = Fn(g)
  <2> HIDE DEF Fn
  <2> QED BY <1>5
<1> HIDE DEF g
<1>8. \A n \in 0 .. f - 1 : g[n] = NoPass BY <1>7
<1>9. \A n \in Nat : n + 1 >= f => g[n + 1] = ReadLine(g[n], s[n + 1], n + 1)
  <2> SUFFICES ASSUME NEW n \in Nat, n + 1 >= f
               PROVE  g[n + 1] = ReadLine(g[n], s[n + 1], n + 1) OBVIOUS
  <2>1. n + 1 \in Nat /\ ~(n + 1 < f) /\ (n + 1) - 1 = n OBVIOUS
  <2> QED BY <1>7, <2>1
<1>10. g \in [Nat -> Passes]
  <2> DEFINE T == {n \in Nat : g[n] \in Passes}
  <2>1. 0 \in T BY <1>1, <1>8
  <2>2. ASSUME NEW n \in Nat, n \in T PROVE n + 1 \in T
    <3>1. CASE n + 1 < f BY <1>1, <1>8, <3>1
    <3>2. CASE ~(n + 1 < f) BY <1>9, <2>2, <3>2, ReadLineTyped
    <3> QED BY <3>1, <3>2
  <2> HIDE DEF T
  <2>3. Nat \subseteq T BY <2>1, <2>2, Induct
  <2>4. DOMAIN g = Nat BY <1>7
  <2>5. g = [n \in Nat |-> g[n]] BY <1>7, <2>4
  <2> QED BY <2>3, <2>5 DEF T
<1> QED BY <1>6, <1>8, <1>9, <1>10

\* It depends on the lines read only.
LEMMA PassSame ==
  ASSUME NEW s, NEW t, NEW f \in Nat \ {0}, NEW n \in Nat, \A i \in 1 .. n : s[i] = t[i]
  PROVE  Pass(s, f)[n] = Pass(t, f)[n]
<1> DEFINE T == {k \in Nat : k <= n => Pass(s, f)[k] = Pass(t, f)[k]}
<1>1. 0 \in T BY PassIs
<1>2. ASSUME NEW k \in Nat, k \in T PROVE k + 1 \in T
  <2>1. CASE k + 1 <= n /\ k + 1 >= f
    <3>1. Pass(s, f)[k] = Pass(t, f)[k] /\ s[k + 1] = t[k + 1] BY <1>2, <2>1
    <3> QED BY <2>1, <3>1, PassIs
  <2>2. CASE k + 1 < f
    <3>1. k + 1 \in 0 .. f - 1 BY <2>2
    <3> QED BY <3>1, PassIs
  <2> QED BY <2>1, <2>2
<1> HIDE DEF T
<1>3. Nat \subseteq T BY <1>1, <1>2, Induct
<1> QED BY <1>3 DEF T

LEMMA CompletedIs ==
  ASSUME NEW s \in Seq(Kinds), NEW n \in 0 .. Len(s), NEW f \in Nat \ {0}
  PROVE  CompletedTurns(SubSeq(s, 1, n), f) = Flush(Pass(s, f)[n]).turns
<1> DEFINE t == SubSeq(s, 1, n)
<1>1. Len(t) = n /\ \A i \in 1 .. n : t[i] = s[i] OBVIOUS
<1> HIDE DEF t
<1>2. Pass(t, f)[n] = Pass(s, f)[n] BY <1>1, PassSame
<1> QED BY <1>1, <1>2 DEF CompletedTurns, t

-----------------------------------------------------------------------------
(* What a pass finds, and where. *)

\* A turn ends on a line that ends a reply, and has the text of lines up to it.
Ends == {"reply", "ask", "error", "interrupt"}
TurnsSound(turns, f, n, s) ==
  /\ \A j \in DOMAIN turns :
       /\ turns[j].anchor \in f .. n /\ s[turns[j].anchor] \in Ends
       /\ \A x \in turns[j].text : f <= x /\ x <= turns[j].anchor
  /\ \A j, k \in DOMAIN turns : j < k =>
       /\ turns[j].anchor < turns[k].anchor
       /\ \A x \in turns[k].text : turns[j].anchor < x

\* The group comes after the turns; what lies before its anchor is its text.
GroupSound(turns, g, f, n, s) ==
  /\ g.anchor # 0 => g.anchor \in f .. n /\ s[g.anchor] \in Ends
  /\ \A x \in g.text : f <= x /\ x <= g.anchor
  /\ \A x \in g.pending : f <= x /\ x <= n
  /\ \A x \in g.prompts : f <= x /\ x <= n
  /\ \A x \in g.pending : x <= g.anchor => x \in g.text
  /\ \A j \in DOMAIN turns :
       /\ g.anchor # 0 => turns[j].anchor < g.anchor
       /\ \A x \in g.text : turns[j].anchor < x
       /\ \A x \in g.pending : turns[j].anchor < x

\* Nothing was written in it yet.
Fresh(g) == ~g.saw => g.anchor = 0 /\ g.pending = {}

Sound(p, f, n, s) ==
  /\ TurnsSound(p.turns, f, n, s) /\ GroupSound(p.turns, p.group, f, n, s) /\ Fresh(p.group)

LEMMA SoundNone ==
  ASSUME NEW turns \in Seq(Turns), NEW f, NEW n, NEW s
  PROVE  GroupSound(turns, NoGroup, f, n, s) /\ Fresh(NoGroup)
BY DEF NoGroup, GroupSound, Fresh

LEMMA SoundLater ==
  ASSUME NEW turns \in Seq(Turns), NEW g \in Groups, NEW f \in Nat \ {0}, NEW n \in Nat, NEW s,
         TurnsSound(turns, f, n, s), GroupSound(turns, g, f, n, s)
  PROVE  TurnsSound(turns, f, n + 1, s) /\ GroupSound(turns, g, f, n + 1, s)
<1>1. \A j \in DOMAIN turns : turns[j].anchor \in Nat /\ turns[j].text \subseteq Nat
  <2>1. \A j \in DOMAIN turns : turns[j] \in Turns OBVIOUS
  <2> QED BY <2>1 DEF Turns
<1>2. g.anchor \in Nat /\ g.text \subseteq Nat /\ g.pending \subseteq Nat /\ g.prompts \subseteq Nat
  BY DEF Groups
<1>3. TurnsSound(turns, f, n + 1, s) BY <1>1 DEF TurnsSound
<1>4. GroupSound(turns, g, f, n + 1, s) BY <1>1, <1>2 DEF GroupSound
<1> QED BY <1>3, <1>4

LEMMA SoundFlush ==
  ASSUME NEW p \in Passes, NEW f \in Nat \ {0}, NEW n \in Nat, NEW s,
         TurnsSound(p.turns, f, n, s), GroupSound(p.turns, p.group, f, n, s)
  PROVE  Sound(Flush(p), f, n, s)
<1> DEFINE q == Flush(p)
           g == p.group
<1>1. p.turns \in Seq(Turns) /\ g \in Groups BY DEF Passes
<1>2. q \in Passes /\ q.group = NoGroup BY FlushIs
<1>3. q.turns \in Seq(Turns) BY <1>2 DEF Passes
<1>4. CASE g.anchor = 0
  <2>1. q.turns = p.turns BY <1>4, FlushIs
  <2> QED BY <1>2, <1>3, <2>1, SoundNone DEF Sound
<1>5. CASE g.anchor # 0
  <2>1. q.turns = Append(p.turns, Turn(g)) /\ Turn(g) \in Turns BY <1>5, FlushIs
  <2>2. Turn(g).anchor = g.anchor /\ Turn(g).text = g.text BY DEF Turn
  <2> DEFINE m == Len(p.turns)
  <2>3. /\ m \in Nat /\ DOMAIN q.turns = 1 .. m + 1 /\ DOMAIN p.turns = 1 .. m
        /\ \A j \in 1 .. m : q.turns[j] = p.turns[j]
        /\ q.turns[m + 1] = Turn(g)
    BY <1>1, <2>1
  <2> HIDE DEF q, m
  <2>4. g.anchor \in f .. n /\ s[g.anchor] \in Ends BY <1>5 DEF GroupSound
  <2>5. ASSUME NEW j \in DOMAIN q.turns
        PROVE  /\ q.turns[j].anchor \in f .. n /\ s[q.turns[j].anchor] \in Ends
               /\ \A x \in q.turns[j].text : f <= x /\ x <= q.turns[j].anchor
    <3>1. CASE j = m + 1 BY <2>2, <2>3, <2>4, <3>1 DEF GroupSound
    <3>2. CASE j # m + 1
      <4>1. j \in 1 .. m /\ q.turns[j] = p.turns[j] BY <2>3, <3>2
      <4> QED BY <2>3, <4>1 DEF TurnsSound
    <3> QED BY <3>1, <3>2
  <2>6. ASSUME NEW j \in DOMAIN q.turns, NEW k \in DOMAIN q.turns, j < k
        PROVE  /\ q.turns[j].anchor < q.turns[k].anchor
               /\ \A x \in q.turns[k].text : q.turns[j].anchor < x
    <3>0. j \in 1 .. m /\ q.turns[j] = p.turns[j] BY <2>3, <2>6
    <3>1. CASE k = m + 1 BY <1>5, <2>2, <2>3, <3>0, <3>1 DEF GroupSound
    <3>2. CASE k # m + 1
      <4>1. k \in 1 .. m /\ q.turns[k] = p.turns[k] BY <2>3, <3>2
      <4> QED BY <2>3, <2>6, <3>0, <4>1 DEF TurnsSound
    <3> QED BY <3>1, <3>2
  <2>7. TurnsSound(q.turns, f, n, s) BY <2>5, <2>6 DEF TurnsSound
  <2>8. GroupSound(q.turns, NoGroup, f, n, s) /\ Fresh(NoGroup) BY <1>3, SoundNone
  <2>9. q.group = NoGroup BY <1>2 DEF q
  <2> QED BY <2>7, <2>8, <2>9 DEF Sound, q
<1> QED BY <1>4, <1>5

\* The operations on a group, at line i.
LEMMA SoundGroups ==
  ASSUME NEW turns \in Seq(Turns), NEW g \in Groups, NEW f \in Nat \ {0}, NEW i \in Nat, NEW s,
         i >= f, TurnsSound(turns, f, i - 1, s), GroupSound(turns, g, f, i, s),
         g.anchor < i
  PROVE  /\ GroupSound(turns, Withdraw(g), f, i, s)
         /\ GroupSound(turns, Written(g, i), f, i, s)
         /\ s[i] \in Ends => GroupSound(turns, Failed(g, i), f, i, s)
         /\ s[i] \in Ends => GroupSound(turns, CutOff(g, i), f, i, s)
<1>1. \A j \in DOMAIN turns : turns[j].anchor \in Nat /\ turns[j].anchor < i
  <2>1. \A j \in DOMAIN turns : turns[j] \in Turns OBVIOUS
  <2>2. \A j \in DOMAIN turns : turns[j].anchor \in Nat BY <2>1 DEF Turns
  <2> QED BY <2>2 DEF TurnsSound
<1>2. g.anchor \in Nat /\ g.text \subseteq Nat /\ g.pending \subseteq Nat /\ g.prompts \subseteq Nat
  BY DEF Groups
<1>3. GroupSound(turns, Withdraw(g), f, i, s)
  <2> DEFINE h == Withdraw(g)
  <2>1. h.anchor = 0 /\ h.text = {} /\ h.pending = g.pending /\ h.prompts = g.prompts
    BY WithdrawIs
  <2> HIDE DEF h
  <2>2. \A x \in h.pending : ~(x <= h.anchor) BY <1>2, <2>1 DEF GroupSound
  <2>3. GroupSound(turns, h, f, i, s) BY <1>1, <1>2, <2>1, <2>2 DEF GroupSound
  <2> QED BY <2>3 DEF h
<1>4. GroupSound(turns, Written(g, i), f, i, s)
  <2> DEFINE h == Written(g, i)
  <2>1. /\ h.anchor = g.anchor /\ h.text = g.text /\ h.pending = g.pending \cup {i}
        /\ h.prompts = g.prompts
    BY WrittenIs
  <2> HIDE DEF h
  <2>2. \A x \in h.pending : x <= h.anchor => x \in h.text BY <1>2, <2>1 DEF GroupSound
  <2>3. GroupSound(turns, h, f, i, s) BY <1>1, <1>2, <2>1, <2>2 DEF GroupSound
  <2> QED BY <2>3 DEF h
<1>5. ASSUME s[i] \in Ends PROVE GroupSound(turns, Failed(g, i), f, i, s)
  <2> DEFINE h == Failed(g, i)
  <2>1. /\ h.anchor = i /\ h.text = g.pending \cup {i} /\ h.pending = g.pending
        /\ h.prompts = g.prompts
    BY FailedIs
  <2> HIDE DEF h
  <2>2. GroupSound(turns, h, f, i, s) BY <1>1, <1>2, <1>5, <2>1 DEF GroupSound
  <2> QED BY <2>2 DEF h
<1>6. ASSUME s[i] \in Ends PROVE GroupSound(turns, CutOff(g, i), f, i, s)
  <2> DEFINE h == CutOff(g, i)
  <2>1. /\ h.prompts = g.prompts /\ h.pending = g.pending
        /\ h = g \/ (h.anchor = i /\ h.text = g.pending)
    BY CutOffIs
  <2> HIDE DEF h
  <2>2. CASE h = g BY <2>2 DEF h
  <2>3. CASE h.anchor = i /\ h.text = g.pending
    <3>1. GroupSound(turns, h, f, i, s) BY <1>1, <1>2, <1>6, <2>1, <2>3 DEF GroupSound
    <3> QED BY <3>1 DEF h
  <2> QED BY <2>1, <2>2, <2>3
<1> QED BY <1>3, <1>4, <1>5, <1>6

LEMMA SoundEndReply ==
  ASSUME NEW turns \in Seq(Turns), NEW g \in Groups, NEW f \in Nat \ {0}, NEW i \in Nat, NEW s,
         i >= f, s[i] \in Ends, TurnsSound(turns, f, i - 1, s), GroupSound(turns, g, f, i, s)
  PROVE  GroupSound(turns, EndReply(g, i, TRUE), f, i, s)
<1>1. \A j \in DOMAIN turns : turns[j].anchor \in Nat /\ turns[j].anchor < i
  <2>1. \A j \in DOMAIN turns : turns[j] \in Turns OBVIOUS
  <2>2. \A j \in DOMAIN turns : turns[j].anchor \in Nat BY <2>1 DEF Turns
  <2> QED BY <2>2 DEF TurnsSound
<1>2. g.pending \subseteq Nat /\ g.prompts \subseteq Nat BY DEF Groups
<1> DEFINE h == EndReply(g, i, TRUE)
<1>3. h.anchor = i /\ h.text = g.pending /\ h.pending = g.pending /\ h.prompts = g.prompts
  BY EndReplyIs
<1> HIDE DEF h
<1>4. GroupSound(turns, h, f, i, s) BY <1>1, <1>2, <1>3 DEF GroupSound
<1> QED BY <1>4 DEF h

LEMMA SoundLine ==
  ASSUME NEW p \in Passes, NEW f \in Nat \ {0}, NEW n \in Nat, NEW s, Sound(p, f, n, s),
         NEW i, i = n + 1, i >= f, NEW kind, kind = s[i]
  PROVE  Sound(ReadLine(p, kind, i), f, i, s)
<1> DEFINE g == p.group
           r == ReadLine(p, kind, i)
<1>1. p.turns \in Seq(Turns) /\ g \in Groups /\ i \in Nat /\ i >= f /\ i - 1 = n BY DEF Passes
<1>2. TurnsSound(p.turns, f, n, s) /\ GroupSound(p.turns, g, f, n, s) /\ Fresh(g)
  BY DEF Sound
<1>3. TurnsSound(p.turns, f, i, s) /\ GroupSound(p.turns, g, f, i, s)
  BY <1>1, <1>2, SoundLater
<1>4. TurnsSound(p.turns, f, i - 1, s) BY <1>1, <1>2
<1>5. g.anchor < i BY <1>1, <1>2 DEF GroupSound, Groups
<1>6. /\ GroupSound(p.turns, Withdraw(g), f, i, s)
      /\ GroupSound(p.turns, Written(g, i), f, i, s)
      /\ kind \in Ends => GroupSound(p.turns, Failed(g, i), f, i, s)
      /\ kind \in Ends => GroupSound(p.turns, CutOff(g, i), f, i, s)
  BY <1>1, <1>3, <1>4, <1>5, SoundGroups
<1> HIDE DEF g
\* A group put in place of p's.
<1>7. ASSUME NEW h \in Groups, GroupSound(p.turns, h, f, i, s)
      PROVE  /\ Fresh(h) => Sound(Grouped(p, h), f, i, s)
             /\ Sound(Flush(Grouped(p, h)), f, i, s)
  <2>1. /\ Grouped(p, h) \in Passes /\ Grouped(p, h).turns = p.turns
        /\ Grouped(p, h).group = h
    BY GroupedIs
  <2>2. Fresh(h) => Sound(Grouped(p, h), f, i, s) BY <1>3, <1>7, <2>1 DEF Sound
  <2>3. /\ TurnsSound(Grouped(p, h).turns, f, i, s)
        /\ GroupSound(Grouped(p, h).turns, Grouped(p, h).group, f, i, s)
    BY <1>3, <1>7, <2>1
  <2>4. Sound(Flush(Grouped(p, h)), f, i, s) BY <1>1, <2>1, <2>3, SoundFlush
  <2> QED BY <2>2, <2>4
<1>8. CASE kind = "feedback"
  <2> DEFINE h == IF g.anchor # 0 THEN Withdraw(g) ELSE g
  <2>1. r = Grouped(p, h) BY <1>1, <1>8, ReadLineIs DEF g
  <2>2. Withdraw(g) \in Groups /\ Fresh(Withdraw(g))
    BY <1>1, <1>2, WithdrawIs DEF Fresh, g
  <2>3. h \in Groups /\ GroupSound(p.turns, h, f, i, s) /\ Fresh(h)
    BY <1>1, <1>2, <1>3, <1>6, <2>2 DEF g
  <2> HIDE DEF h
  <2> QED BY <1>7, <2>1, <2>3
<1>9. CASE kind = "interrupt"
  <2>1. r = Flush(Grouped(p, CutOff(g, i))) BY <1>1, <1>9, ReadLineIs DEF g
  <2>2. CutOff(g, i) \in Groups BY <1>1, CutOffIs DEF g
  <2>3. GroupSound(p.turns, CutOff(g, i), f, i, s) BY <1>6, <1>9 DEF Ends
  <2> QED BY <1>7, <2>1, <2>2, <2>3
<1>10. CASE kind \in UserPrompts
  <2>1. r = ReadPrompt(p, kind, i) BY <1>10, ReadLineIs
  <2> DEFINE q == Closed(p, kind)
  <2>2. /\ q \in Passes /\ r \in Passes /\ r.turns = q.turns
        /\ r.group.anchor = q.group.anchor /\ r.group.text = q.group.text
        /\ r.group.pending = q.group.pending /\ r.group.saw = q.group.saw
        /\ r.group.prompts \subseteq q.group.prompts \cup {i}
    <3>1. PromptRead(p, kind, i, q, r) BY <1>1, <2>1, ReadPromptIs
    <3> HIDE DEF q, r
    <3> QED BY <3>1 DEF PromptRead
  <2> HIDE DEF r
  <2>3. Sound(q, f, i, s)
    <3>1. CASE g.saw
      <4>1. q = Flush(p) BY <3>1 DEF Closed, g
      <4>2. Sound(Flush(p), f, i, s) BY <1>1, <1>3, SoundFlush DEF g
      <4> QED BY <4>1, <4>2
    <3>2. CASE ~g.saw
      <4> DEFINE h == [g EXCEPT !.prompts = {}]
      <4>1. q = IF kind = "notice" THEN Grouped(p, h) ELSE p BY <3>2 DEF Closed, g
      <4>2. /\ h \in Groups /\ h.anchor = g.anchor /\ h.text = g.text
            /\ h.pending = g.pending /\ h.saw = g.saw /\ h.prompts = {}
        BY <1>1 DEF Groups, g
      <4> HIDE DEF h, q
      <4>3. GroupSound(p.turns, h, f, i, s) /\ Fresh(h)
        BY <1>2, <1>3, <4>2 DEF GroupSound, Fresh
      <4>4. Sound(p, f, i, s) BY <1>2, <1>3 DEF Sound, g
      <4> QED BY <1>7, <4>1, <4>2, <4>3, <4>4
    <3> QED BY <3>1, <3>2
  <2> HIDE DEF q
  <2>4. Sound(r, f, i, s)
    <3>1. TurnsSound(r.turns, f, i, s) BY <2>2, <2>3 DEF Sound
    <3>2. \A x \in r.group.prompts : f <= x /\ x <= i
      BY <1>1, <2>2, <2>3 DEF Sound, GroupSound
    <3>3. GroupSound(r.turns, r.group, f, i, s)
      <4> HIDE <1>6, <1>7
      <4> QED BY <2>2, <2>3, <3>2 DEF Sound, GroupSound
    <3>4. Fresh(r.group) BY <2>2, <2>3 DEF Sound, Fresh
    <3> QED BY <3>1, <3>3, <3>4 DEF Sound
  <2> QED BY <2>4 DEF r
<1>11. CASE kind = "work"
  <2>1. r = Grouped(p, Written(g, i)) BY <1>1, <1>11, ReadLineIs DEF g
  <2>2. Written(g, i) \in Groups /\ Fresh(Written(g, i)) BY <1>1, WrittenIs DEF Fresh, g
  <2> QED BY <1>6, <1>7, <2>1, <2>2
<1>12. CASE kind \in {"reply", "ask"}
  <2> DEFINE h == EndReply(Written(g, i), i, TRUE)
  <2>1. Written(g, i) \in Groups /\ Written(g, i).saw BY <1>1, WrittenIs DEF g
  <2>2. h \in Groups /\ h.saw
    <3>1. h.saw = Written(g, i).saw /\ h \in Groups BY <1>1, <2>1, EndReplyIs
    <3> QED BY <2>1, <3>1
  <2>3. GroupSound(p.turns, h, f, i, s)
    <3>1. s[i] \in Ends BY <1>12 DEF Ends
    <3> QED BY <1>1, <1>4, <1>6, <2>1, <3>1, SoundEndReply
  <2>4. kind = "reply" => r = Grouped(p, h)
    <3> SUFFICES ASSUME kind = "reply" PROVE r = Grouped(p, h) OBVIOUS
    <3> QED BY ReadLineIs DEF g
  <2>5. kind = "ask" => r = Flush(Grouped(p, h))
    <3> SUFFICES ASSUME kind = "ask" PROVE r = Flush(Grouped(p, h)) OBVIOUS
    <3> QED BY ReadLineIs DEF g
  <2>6. Fresh(h) BY <2>2 DEF Fresh
  <2> HIDE DEF h
  <2> QED BY <1>7, <1>12, <2>2, <2>3, <2>4, <2>5, <2>6
<1>13. CASE kind = "error"
  <2>1. r = Grouped(p, Failed(g, i)) BY <1>1, <1>13, ReadLineIs DEF g
  <2>2. Failed(g, i) \in Groups /\ Fresh(Failed(g, i)) BY <1>1, FailedIs DEF Fresh, g
  <2>3. GroupSound(p.turns, Failed(g, i), f, i, s) BY <1>6, <1>13 DEF Ends
  <2> QED BY <1>7, <2>1, <2>2, <2>3
<1>14. CASE kind \notin Tells
  <2>1. r = p BY <1>1, <1>14, ReadLineIs
  <2> QED BY <1>2, <1>3, <2>1 DEF Sound, g
<1> QED BY <1>8, <1>9, <1>10, <1>11, <1>12, <1>13, <1>14 DEF Tells

LEMMA PassSound ==
  ASSUME NEW s, NEW f \in Nat \ {0}, NEW n \in Nat, n >= f - 1
  PROVE  Pass(s, f)[n] \in Passes /\ Sound(Pass(s, f)[n], f, n, s)
<1> DEFINE T == {k \in Nat : k >= f - 1 => Sound(Pass(s, f)[k], f, k, s)}
<1>0. \A k \in Nat : Pass(s, f)[k] \in Passes BY PassIs
<1>1. Sound(NoPass, f, f - 1, s)
  <2>1. NoPass.turns = <<>> /\ NoPass.group = NoGroup BY DEF NoPass
  <2>2. TurnsSound(<<>>, f, f - 1, s) BY DEF TurnsSound
  <2>3. <<>> \in Seq(Turns) OBVIOUS
  <2> QED BY <2>1, <2>2, <2>3, SoundNone DEF Sound
<1>2. Pass(s, f)[f - 1] = NoPass /\ f - 1 \in Nat
  <2>1. f - 1 \in 0 .. f - 1 OBVIOUS
  <2> QED BY <2>1, PassIs
<1>3. 0 \in T
  <2>1. CASE f = 1 BY <1>1, <1>2, <2>1
  <2>2. CASE f # 1 BY <2>2
  <2> QED BY <2>1, <2>2
<1>4. ASSUME NEW k \in Nat, k \in T PROVE k + 1 \in T
  <2>1. CASE k + 1 >= f
    <3>1. Sound(Pass(s, f)[k], f, k, s) BY <1>4, <2>1
    <3>2. Pass(s, f)[k + 1] = ReadLine(Pass(s, f)[k], s[k + 1], k + 1) BY <2>1, PassIs
    <3> QED BY <1>0, <2>1, <3>1, <3>2, SoundLine
  <2>2. CASE k + 1 = f - 1 BY <1>1, <1>2, <2>2
  <2>3. CASE k + 1 < f - 1 BY <2>3
  <2> QED BY <2>1, <2>2, <2>3
<1> HIDE DEF T
<1>5. Nat \subseteq T BY <1>3, <1>4, Induct
<1> QED BY <1>0, <1>5 DEF T

-----------------------------------------------------------------------------
(* What each kind of line does to a pass, field by field. *)

\* r has one turn more than p.
Adds(p, r, line, text, prompts) ==
  LET n == Len(p.turns) IN
  /\ n \in Nat /\ DOMAIN p.turns = 1 .. n /\ DOMAIN r.turns = 1 .. n + 1
  /\ \A j \in 1 .. n : r.turns[j] = p.turns[j]
  /\ r.turns[n + 1].anchor = line /\ r.turns[n + 1].text = text
  /\ r.turns[n + 1].prompts = prompts

\* The group is closed: it was a turn if it has an anchor.
Closes(p, r) ==
  IF p.group.anchor # 0 THEN Adds(p, r, p.group.anchor, p.group.text, p.group.prompts)
  ELSE r.turns = p.turns

\* r is p with a line read.
LineRead(p, kind, i, r) ==
  /\ r \in Passes
  /\ kind = "work" =>
       /\ r.turns = p.turns /\ r.group.saw /\ r.group.prompts = p.group.prompts
       /\ r.group.anchor = p.group.anchor /\ r.group.text = p.group.text
       /\ r.group.pending = p.group.pending \cup {i}
  /\ kind = "reply" =>
       /\ r.turns = p.turns /\ r.group.saw /\ r.group.prompts = p.group.prompts
       /\ r.group.anchor = i /\ r.group.text = p.group.pending \cup {i}
       /\ r.group.pending = p.group.pending \cup {i}
  /\ kind = "error" =>
       /\ r.turns = p.turns /\ r.group.saw /\ r.group.prompts = p.group.prompts
       /\ r.group.anchor = i /\ r.group.text = p.group.pending \cup {i}
       /\ r.group.pending = p.group.pending
  /\ kind = "feedback" =>
       /\ r.turns = p.turns /\ r.group.saw = p.group.saw /\ r.group.prompts = p.group.prompts
       /\ r.group.anchor = 0 /\ r.group.pending = p.group.pending
       /\ r.group.text = IF p.group.anchor # 0 THEN {} ELSE p.group.text
  /\ kind = "ask" =>
       r.group = NoGroup /\ Adds(p, r, i, p.group.pending \cup {i}, p.group.prompts)
  /\ kind = "interrupt" =>
       /\ r.group = NoGroup
       /\ IF p.group.anchor = 0 /\ (p.group.saw \/ p.group.prompts # {})
            THEN Adds(p, r, i, p.group.pending, p.group.prompts)
            ELSE Closes(p, r)
  /\ kind \in UserPrompts =>
       LET own == IF kind = "prompt" THEN {i} ELSE {} IN
       /\ ~r.group.saw
       /\ p.group.saw => /\ Closes(p, r)
                         /\ r.group.anchor = 0 /\ r.group.text = {} /\ r.group.pending = {}
                         /\ r.group.prompts = own
       /\ ~p.group.saw =>
            /\ r.turns = p.turns
            /\ r.group.anchor = p.group.anchor /\ r.group.text = p.group.text
            /\ r.group.pending = p.group.pending
            /\ r.group.prompts = own \cup IF kind = "notice" THEN {} ELSE p.group.prompts
  /\ kind \notin Tells => r = p

LEMMA FlushCloses ==
  ASSUME NEW p \in Passes, NEW h \in Groups
  PROVE  LET r == Flush(Grouped(p, h)) IN
         /\ r \in Passes /\ r.group = NoGroup
         /\ h.anchor # 0 => Adds(p, r, h.anchor, h.text, h.prompts)
         /\ h.anchor = 0 => r.turns = p.turns
<1> DEFINE q == Grouped(p, h)
           r == Flush(q)
<1>1. q \in Passes /\ q.turns = p.turns /\ q.group = h BY GroupedIs
<1>2. p.turns \in Seq(Turns) BY DEF Passes
<1> HIDE DEF q
<1>3. /\ r \in Passes /\ r.group = NoGroup
      /\ h.anchor = 0 => r.turns = p.turns
      /\ h.anchor # 0 => r.turns = Append(p.turns, Turn(h)) /\ Turn(h) \in Turns
  BY <1>1, FlushIs
<1>4. Turn(h).anchor = h.anchor /\ Turn(h).text = h.text /\ Turn(h).prompts = h.prompts
  BY DEF Turn
<1> HIDE DEF r
<1>5. h.anchor # 0 => Adds(p, r, h.anchor, h.text, h.prompts)
  <2> SUFFICES ASSUME h.anchor # 0 PROVE Adds(p, r, h.anchor, h.text, h.prompts) OBVIOUS
  <2> DEFINE n == Len(p.turns)
  <2>1. /\ n \in Nat /\ DOMAIN p.turns = 1 .. n /\ DOMAIN r.turns = 1 .. n + 1
        /\ \A j \in 1 .. n : r.turns[j] = p.turns[j]
        /\ r.turns[n + 1] = Turn(h)
    BY <1>2, <1>3
  <2> QED BY <1>4, <2>1 DEF Adds
<1> QED BY <1>3, <1>5 DEF r, q

LEMMA LineReadIs ==
  ASSUME NEW p \in Passes, NEW kind, NEW i \in Nat \ {0}
  PROVE  LineRead(p, kind, i, ReadLine(p, kind, i))
<1> DEFINE g == p.group
           r == ReadLine(p, kind, i)
<1>0. g \in Groups /\ r \in Passes /\ p.turns \in Seq(Turns) BY ReadLineTyped DEF Passes
<1>1. CASE kind = "work"
  <2> DEFINE h == Written(g, i)
  <2>1. r = Grouped(p, h) BY <1>1, ReadLineIs
  <2>2. /\ h \in Groups /\ h.saw /\ h.prompts = g.prompts /\ h.anchor = g.anchor
        /\ h.text = g.text /\ h.pending = g.pending \cup {i}
    BY <1>0, WrittenIs
  <2> HIDE DEF h
  <2>3. r.turns = p.turns /\ r.group = h BY <2>1, <2>2, GroupedIs
  <2> HIDE DEF r
  <2>4. LineRead(p, kind, i, r)
    BY <1>0, <1>1, <2>2, <2>3 DEF LineRead, UserPrompts, Typed, Tells
  <2> QED BY <2>4 DEF r
<1>2. CASE kind \in {"reply", "ask"}
  <2> DEFINE w == Written(g, i)
             h == EndReply(w, i, TRUE)
  <2>1. /\ w \in Groups /\ w.saw /\ w.prompts = g.prompts /\ w.pending = g.pending \cup {i}
    BY <1>0, WrittenIs
  <2> HIDE DEF w
  <2>2. /\ h \in Groups /\ h.saw = w.saw /\ h.prompts = w.prompts /\ h.anchor = i
        /\ h.text = w.pending /\ h.pending = w.pending
    BY <2>1, EndReplyIs
  <2> HIDE DEF h
  <2>3. CASE kind = "reply"
    <3>1. r = Grouped(p, h) BY <2>3, ReadLineIs DEF h, w
    <3>2. r.turns = p.turns /\ r.group = h BY <2>2, <3>1, GroupedIs
    <3> HIDE DEF r
    <3>3. LineRead(p, kind, i, r)
      BY <1>0, <2>1, <2>2, <2>3, <3>2 DEF LineRead, UserPrompts, Typed, Tells
    <3> QED BY <3>3 DEF r
  <2>4. CASE kind = "ask"
    <3>1. r = Flush(Grouped(p, h)) BY <2>4, ReadLineIs DEF h, w
    <3>2. r.group = NoGroup /\ (h.anchor # 0 => Adds(p, r, h.anchor, h.text, h.prompts))
      BY <2>2, <3>1, FlushCloses
    <3> HIDE DEF r
    <3>3. Adds(p, r, i, g.pending \cup {i}, g.prompts) BY <2>1, <2>2, <3>2
    <3>4. LineRead(p, kind, i, r)
      BY <1>0, <2>4, <3>2, <3>3 DEF LineRead, UserPrompts, Typed, Tells
    <3> QED BY <3>4 DEF r
  <2> QED BY <1>2, <2>3, <2>4
<1>3. CASE kind = "error"
  <2> DEFINE h == Failed(g, i)
  <2>1. r = Grouped(p, h) BY <1>3, ReadLineIs
  <2>2. /\ h \in Groups /\ h.saw /\ h.prompts = g.prompts /\ h.anchor = i
        /\ h.text = g.pending \cup {i} /\ h.pending = g.pending
    BY <1>0, FailedIs
  <2> HIDE DEF h
  <2>3. r.turns = p.turns /\ r.group = h BY <2>1, <2>2, GroupedIs
  <2> HIDE DEF r
  <2>4. LineRead(p, kind, i, r)
    BY <1>0, <1>3, <2>2, <2>3 DEF LineRead, UserPrompts, Typed, Tells
  <2> QED BY <2>4 DEF r
<1>4. CASE kind = "feedback"
  <2> DEFINE h == IF g.anchor # 0 THEN Withdraw(g) ELSE g
  <2>1. r = Grouped(p, h) BY <1>4, ReadLineIs
  <2>2. /\ Withdraw(g) \in Groups /\ Withdraw(g).anchor = 0 /\ Withdraw(g).text = {}
        /\ Withdraw(g).pending = g.pending /\ Withdraw(g).prompts = g.prompts
        /\ Withdraw(g).saw = g.saw
    BY <1>0, WithdrawIs
  <2>3. /\ h \in Groups /\ h.anchor = 0 /\ h.text = (IF g.anchor # 0 THEN {} ELSE g.text)
        /\ h.pending = g.pending /\ h.prompts = g.prompts /\ h.saw = g.saw
    BY <1>0, <2>2
  <2> HIDE DEF h
  <2>4. r.turns = p.turns /\ r.group = h BY <2>1, <2>3, GroupedIs
  <2> HIDE DEF r
  <2>5. LineRead(p, kind, i, r)
    BY <1>0, <1>4, <2>3, <2>4 DEF LineRead, UserPrompts, Typed, Tells
  <2> QED BY <2>5 DEF r
<1>5. CASE kind = "interrupt"
  <2> DEFINE h == CutOff(g, i)
  <2>1. r = Flush(Grouped(p, h)) BY <1>5, ReadLineIs
  <2>2. /\ h \in Groups /\ h.prompts = g.prompts
        /\ IF g.anchor = 0 /\ (g.saw \/ g.prompts # {})
             THEN h.anchor = i /\ h.text = g.pending
             ELSE h = g
    BY <1>0, CutOffIs
  <2> HIDE DEF h
  <2>3. /\ r.group = NoGroup
        /\ h.anchor # 0 => Adds(p, r, h.anchor, h.text, h.prompts)
        /\ h.anchor = 0 => r.turns = p.turns
    BY <2>1, <2>2, FlushCloses
  <2> HIDE DEF r
  <2>4. IF g.anchor = 0 /\ (g.saw \/ g.prompts # {})
          THEN Adds(p, r, i, g.pending, g.prompts)
          ELSE Closes(p, r)
    BY <2>2, <2>3 DEF Closes
  <2>5. LineRead(p, kind, i, r)
    BY <1>0, <1>5, <2>3, <2>4 DEF LineRead, UserPrompts, Typed, Tells
  <2> QED BY <2>5 DEF r
<1>6. CASE kind \in UserPrompts
  <2> DEFINE q == Closed(p, kind)
  <2>1. r = ReadPrompt(p, kind, i) BY <1>6, ReadLineIs
  <2>2. PromptRead(p, kind, i, q, r) BY <2>1, ReadPromptIs
  <2>3. CASE ~g.saw
    <3> HIDE DEF q, r
    <3>1. LineRead(p, kind, i, r)
      BY <1>0, <1>6, <2>2, <2>3 DEF PromptRead, LineRead, UserPrompts, Typed, Tells
    <3> QED BY <3>1 DEF r
  <2>4. CASE g.saw
    <3>1. q = Flush(p) BY <2>4 DEF Closed
    <3>2. Grouped(p, g) = p BY DEF Grouped, Passes
    <3>3. /\ q.group = NoGroup
          /\ g.anchor # 0 => Adds(p, q, g.anchor, g.text, g.prompts)
          /\ g.anchor = 0 => q.turns = p.turns
      BY <1>0, <3>1, <3>2, FlushCloses
    <3> HIDE DEF q, r
    <3>4. Closes(p, r) BY <2>2, <3>3 DEF Closes, Adds, PromptRead
    <3>5. /\ r.group.anchor = 0 /\ r.group.text = {} /\ r.group.pending = {} /\ ~r.group.saw
          /\ r.group.prompts = IF kind = "prompt" THEN {i} ELSE {}
      BY <2>2, <3>3 DEF PromptRead, NoGroup
    <3>6. LineRead(p, kind, i, r)
      BY <1>0, <1>6, <2>4, <3>4, <3>5 DEF LineRead, UserPrompts, Typed, Tells
    <3> QED BY <3>6 DEF r
  <2> QED BY <2>3, <2>4
<1>7. CASE kind \notin Tells
  <2>1. r = p BY <1>7, ReadLineIs
  <2> QED BY <1>7, <2>1 DEF LineRead, Tells
<1> QED BY <1>1, <1>2, <1>3, <1>4, <1>5, <1>6, <1>7 DEF Tells

-----------------------------------------------------------------------------
(* A pass that begins later gathers no more. *)

Within(h, g) ==
  /\ h.saw => g.saw
  /\ h.prompts \subseteq g.prompts
  /\ h.prompts # {} => (g.saw => h.saw)

LEMMA WithinLine ==
  ASSUME NEW p \in Passes, NEW q \in Passes, NEW kind, NEW i \in Nat \ {0},
         Within(q.group, p.group)
  PROVE  Within(ReadLine(q, kind, i).group, ReadLine(p, kind, i).group)
<1> DEFINE pp == ReadLine(p, kind, i)
           qq == ReadLine(q, kind, i)
<1>1. LineRead(p, kind, i, pp) /\ LineRead(q, kind, i, qq) BY LineReadIs
<1> HIDE DEF pp, qq
<1>2. kind \in {"work", "reply", "error", "feedback"} => Within(qq.group, pp.group)
  BY <1>1 DEF LineRead, Within
<1>3. ASSUME kind \in {"ask", "interrupt"} PROVE Within(qq.group, pp.group)
  <2>1. pp.group = NoGroup /\ qq.group = NoGroup BY <1>1, <1>3 DEF LineRead
  <2> QED BY <2>1 DEF Within, NoGroup
<1>4. ASSUME kind \in UserPrompts PROVE Within(qq.group, pp.group)
  <2> DEFINE own == IF kind = "prompt" THEN {i} ELSE {}
  <2>1. ~pp.group.saw /\ ~qq.group.saw BY <1>1, <1>4 DEF LineRead
  <2>2. qq.group.prompts \subseteq pp.group.prompts
    <3>1. CASE p.group.saw /\ q.group.saw BY <1>1, <1>4, <3>1 DEF LineRead
    <3>2. CASE p.group.saw /\ ~q.group.saw
      <4>1. q.group.prompts = {} BY <3>2 DEF Within
      <4> QED BY <1>1, <1>4, <3>2, <4>1 DEF LineRead
    <3>3. CASE ~p.group.saw
      <4>1. ~q.group.saw /\ q.group.prompts \subseteq p.group.prompts BY <3>3 DEF Within
      <4> QED BY <1>1, <1>4, <3>3, <4>1 DEF LineRead
    <3> QED BY <3>1, <3>2, <3>3
  <2> QED BY <2>1, <2>2 DEF Within
<1>5. kind \notin Tells => Within(qq.group, pp.group) BY <1>1 DEF LineRead
<1>6. Within(qq.group, pp.group) BY <1>2, <1>3, <1>4, <1>5 DEF Tells
<1> QED BY <1>6 DEF pp, qq

LEMMA PassWithin ==
  ASSUME NEW s, NEW e \in Nat \ {0}, NEW f \in Nat \ {0}, e <= f, NEW n \in Nat, n >= f - 1
  PROVE  Within(Pass(s, f)[n].group, Pass(s, e)[n].group)
<1> DEFINE T == {k \in Nat : k >= f - 1 => Within(Pass(s, f)[k].group, Pass(s, e)[k].group)}
<1>0. \A k \in Nat : Pass(s, f)[k] \in Passes /\ Pass(s, e)[k] \in Passes BY PassIs
<1>1. ASSUME NEW k \in 0 .. f - 1 PROVE Within(Pass(s, f)[k].group, Pass(s, e)[k].group)
  <2>1. Pass(s, f)[k].group = NoGroup BY PassIs DEF NoPass
  <2> QED BY <2>1 DEF Within, NoGroup
<1>2. 0 \in T BY <1>1
<1>3. ASSUME NEW k \in Nat, k \in T PROVE k + 1 \in T
  <2>1. CASE k + 1 <= f - 1 BY <1>1, <2>1
  <2>2. CASE k + 1 >= f
    <3>1. Within(Pass(s, f)[k].group, Pass(s, e)[k].group) BY <1>3, <2>2
    <3>2. Pass(s, f)[k + 1] = ReadLine(Pass(s, f)[k], s[k + 1], k + 1) BY <2>2, PassIs
    <3>3. Pass(s, e)[k + 1] = ReadLine(Pass(s, e)[k], s[k + 1], k + 1) BY <2>2, PassIs
    <3>4. k + 1 \in Nat \ {0} OBVIOUS
    <3> QED BY <1>0, <3>1, <3>2, <3>3, <3>4, WithinLine
  <2> QED BY <2>1, <2>2
<1> HIDE DEF T
<1>4. Nat \subseteq T BY <1>2, <1>3, Induct
<1> QED BY <1>4 DEF T

-----------------------------------------------------------------------------
(* What a pass keeps of the lines it has read. *)

\* It has every line of D, in its group or in a turn.
InTurn(turns, x) == \E j \in DOMAIN turns : x \in turns[j].text
Has(p, D) == \A x \in D : x \in p.group.pending \/ x \in p.group.text \/ InTurn(p.turns, x)

\* Reading a line of this kind loses nothing of D that the group has.
Keeps(g, kind, D) ==
  /\ ~g.saw => g.anchor = 0 /\ g.pending = {}
  /\ g.anchor = 0 => g.text = {}
  /\ kind \in {"reply", "ask", "error", "feedback"} =>
       \A x \in g.text : x \in D => x \in g.pending
  /\ kind \in UserPrompts => g.pending \subseteq g.text
  /\ kind = "interrupt" /\ g.anchor # 0 => g.pending \subseteq g.text

LEMMA AddsHas ==
  ASSUME NEW p, NEW r, NEW line, NEW text, NEW prompts, Adds(p, r, line, text, prompts), NEW x,
         x \in text \/ InTurn(p.turns, x)
  PROVE  InTurn(r.turns, x)
<1> DEFINE n == Len(p.turns)
<1>1. /\ n \in Nat /\ DOMAIN p.turns = 1 .. n /\ DOMAIN r.turns = 1 .. n + 1
      /\ \A j \in 1 .. n : r.turns[j] = p.turns[j]
      /\ r.turns[n + 1].text = text
  BY DEF Adds
<1> HIDE DEF n
<1>2. CASE x \in text
  <2>1. n + 1 \in DOMAIN r.turns /\ x \in r.turns[n + 1].text BY <1>1, <1>2
  <2> QED BY <2>1 DEF InTurn
<1>3. CASE InTurn(p.turns, x)
  <2>1. PICK j \in DOMAIN p.turns : x \in p.turns[j].text BY <1>3 DEF InTurn
  <2>2. j \in DOMAIN r.turns /\ x \in r.turns[j].text BY <1>1, <2>1
  <2> QED BY <2>2 DEF InTurn
<1> QED BY <1>2, <1>3

LEMMA ClosesHas ==
  ASSUME NEW p, NEW r, Closes(p, r), NEW x, p.group.anchor = 0 => p.group.text = {},
         x \in p.group.text \/ InTurn(p.turns, x)
  PROVE  InTurn(r.turns, x)
<1>1. CASE p.group.anchor # 0
  <2>1. Adds(p, r, p.group.anchor, p.group.text, p.group.prompts) BY <1>1 DEF Closes
  <2> QED BY <2>1, AddsHas
<1>2. CASE p.group.anchor = 0
  <2>1. r.turns = p.turns BY <1>2 DEF Closes
  <2> QED BY <1>2, <2>1
<1> QED BY <1>1, <1>2

LEMMA LineKeeps ==
  ASSUME NEW p \in Passes, NEW kind, NEW i \in Nat \ {0}, NEW D, Has(p, D),
         Keeps(p.group, kind, D)
  PROVE  Has(ReadLine(p, kind, i), IF kind \in Assistant THEN D \cup {i} ELSE D)
<1> DEFINE g == p.group
           r == ReadLine(p, kind, i)
           h == r.group
<1>1. LineRead(p, kind, i, r) BY LineReadIs
<1> HIDE DEF r
<1>2. ASSUME NEW x \in D
      PROVE  x \in h.pending \/ x \in h.text \/ InTurn(r.turns, x)
  <2>1. x \in g.pending \/ x \in g.text \/ InTurn(p.turns, x) BY DEF Has
  <2>2. g.anchor = 0 => g.text = {} BY DEF Keeps
  <2>3. CASE kind \in {"work", "reply", "error", "feedback"}
    <3>1. r.turns = p.turns /\ (x \in g.pending => x \in h.pending)
      BY <1>1, <2>3 DEF LineRead
    <3>2. CASE kind = "work" BY <1>1, <2>1, <3>1, <3>2 DEF LineRead
    <3>3. CASE kind # "work"
      <4>1. x \in g.text => x \in g.pending BY <2>3, <3>3 DEF Keeps
      <4> QED BY <2>1, <3>1, <4>1
    <3> QED BY <3>2, <3>3
  <2>4. CASE kind = "ask"
    <3>1. Adds(p, r, i, g.pending \cup {i}, g.prompts) BY <1>1, <2>4 DEF LineRead
    <3>2. x \in g.text => x \in g.pending BY <2>4 DEF Keeps
    <3> QED BY <2>1, <3>1, <3>2, AddsHas
  <2>5. CASE kind = "interrupt"
    <3>1. CASE g.anchor = 0 /\ (g.saw \/ g.prompts # {})
      <4>1. Adds(p, r, i, g.pending, g.prompts) BY <1>1, <2>5, <3>1 DEF LineRead
      <4> QED BY <2>1, <2>2, <3>1, <4>1, AddsHas
    <3>2. CASE ~(g.anchor = 0 /\ (g.saw \/ g.prompts # {}))
      <4>1. Closes(p, r) BY <1>1, <2>5, <3>2 DEF LineRead
      <4>2. x \in g.pending => x \in g.text BY <2>5, <3>2 DEF Keeps
      <4> QED BY <2>1, <2>2, <4>1, <4>2, ClosesHas
    <3> QED BY <3>1, <3>2
  <2>6. CASE kind \in UserPrompts
    <3>1. CASE g.saw
      <4>1. Closes(p, r) BY <1>1, <2>6, <3>1 DEF LineRead
      <4>2. x \in g.pending => x \in g.text BY <2>6 DEF Keeps
      <4> QED BY <2>1, <2>2, <4>1, <4>2, ClosesHas
    <3>2. CASE ~g.saw
      <4>1. r.turns = p.turns /\ h.text = g.text /\ h.pending = g.pending
        BY <1>1, <2>6, <3>2 DEF LineRead
      <4> QED BY <2>1, <4>1
    <3> QED BY <3>1, <3>2
  <2>7. CASE kind \notin Tells
    <3>1. r = p BY <1>1, <2>7 DEF LineRead
    <3> QED BY <2>1, <3>1
  <2> QED BY <2>3, <2>4, <2>5, <2>6, <2>7 DEF Tells
<1>3. kind \in Assistant => i \in h.pending \/ i \in h.text \/ InTurn(r.turns, i)
  <2>1. kind \in {"work", "reply", "error"} => i \in h.pending \/ i \in h.text
    BY <1>1 DEF LineRead
  <2>2. kind = "ask" => InTurn(r.turns, i)
    <3>1. kind = "ask" => Adds(p, r, i, g.pending \cup {i}, g.prompts) BY <1>1 DEF LineRead
    <3> QED BY <3>1, AddsHas
  <2> QED BY <2>1, <2>2 DEF Assistant
<1>4. Has(r, IF kind \in Assistant THEN D \cup {i} ELSE D) BY <1>2, <1>3 DEF Has
<1> QED BY <1>4 DEF r

\* The group of a pass, and where it is.
LEMMA GroupIs ==
  ASSUME NEW s \in Seq(Kinds), NEW f \in Nat \ {0}, NEW n \in 0 .. Len(s), f <= n + 1
  PROVE  LET p == Pass(s, f)[n]
             g == p.group IN
         /\ p \in Passes /\ g \in Groups
         /\ ~g.saw => g.anchor = 0 /\ g.pending = {}
         /\ g.anchor = 0 => g.text = {}
         /\ g.anchor # 0 => g.anchor \in f .. n
         /\ \A x \in g.text : x \in f .. n
<1> DEFINE p == Pass(s, f)[n]
           g == p.group
<1>1. n \in Nat OBVIOUS
<1>2. p \in Passes /\ Sound(p, f, n, s) BY <1>1, PassSound
<1> HIDE DEF p
<1>3. g \in Groups BY <1>2 DEF Passes
<1>4. GroupSound(p.turns, g, f, n, s) /\ Fresh(g) BY <1>2 DEF Sound
<1>5. g.text \subseteq Nat /\ g.anchor \in Nat BY <1>3 DEF Groups
<1>6. g.anchor = 0 => g.text = {} BY <1>4, <1>5 DEF GroupSound
<1>7. g.anchor # 0 => g.anchor \in f .. n BY <1>4 DEF GroupSound
<1>8. \A x \in g.text : x \in f .. n
  <2> SUFFICES ASSUME NEW x \in g.text PROVE x \in f .. n OBVIOUS
  <2>1. f <= x /\ x <= g.anchor /\ x \in Nat BY <1>4, <1>5 DEF GroupSound
  <2>2. g.anchor # 0 BY <2>1
  <2> QED BY <1>1, <1>5, <1>7, <2>1, <2>2
<1> QED BY <1>2, <1>3, <1>4, <1>6, <1>7, <1>8 DEF Fresh, p

\* Closing the group adds a turn, if it has an anchor.
LEMMA FlushTells ==
  ASSUME NEW p \in Passes
  PROVE  Closes(p, Flush(p))
<1>1. p.group \in Groups BY DEF Passes
<1>2. Grouped(p, p.group) = p BY DEF Grouped, Passes
<1>3. /\ p.group.anchor # 0 => Adds(p, Flush(p), p.group.anchor, p.group.text, p.group.prompts)
      /\ p.group.anchor = 0 => Flush(p).turns = p.turns
  BY <1>1, <1>2, FlushCloses
<1> QED BY <1>3 DEF Closes

\* A pending line that the last turn's anchor lies behind is in that turn's text.
LEMMA FlushCovers ==
  ASSUME NEW p \in Passes, NEW f \in Nat \ {0}, NEW n \in Nat, NEW s, Sound(p, f, n, s),
         NEW x \in p.group.pending, NEW l, l = Len(Flush(p).turns), l # 0,
         x <= Flush(p).turns[l].anchor
  PROVE  x \in p.group.text
<1> DEFINE g == p.group
           o == Flush(p).turns
<1>1. GroupSound(p.turns, g, f, n, s) BY DEF Sound
<1>2. Closes(p, Flush(p)) BY FlushTells
<1>3. g \in Groups /\ p.turns \in Seq(Turns) BY DEF Passes
<1>4. x \in Nat /\ g.anchor \in Nat BY <1>3 DEF Groups
<1>5. CASE g.anchor # 0
  <2>1. Adds(p, Flush(p), g.anchor, g.text, g.prompts) BY <1>2, <1>5 DEF Closes
  <2> DEFINE m == Len(p.turns)
  <2>2. m \in Nat /\ DOMAIN o = 1 .. m + 1 /\ o[m + 1].anchor = g.anchor BY <2>1 DEF Adds
  <2>3. o \in Seq(Turns)
    <3>1. Flush(p) \in Passes BY FlushIs
    <3> QED BY <3>1 DEF Passes
  <2> HIDE DEF o, m
  <2>4. Len(o) = m + 1
    <3>1. DOMAIN o = 1 .. Len(o) /\ Len(o) \in Nat BY <2>3
    <3>2. m + 1 \in 1 .. Len(o) BY <2>2, <3>1
    <3>3. Len(o) \in 1 .. m + 1 BY <2>2, <3>1, <3>2
    <3> QED BY <2>2, <3>1, <3>2, <3>3
  <2>5. x <= g.anchor BY <2>2, <2>4 DEF o
  <2> QED BY <1>1, <2>5 DEF GroupSound
<1>6. CASE g.anchor = 0
  <2>1. o = p.turns BY <1>2, <1>6 DEF Closes
  <2> HIDE DEF o
  <2>2. l \in DOMAIN p.turns BY <1>3, <2>1 DEF o
  <2>3. o[l].anchor < x BY <1>1, <2>1, <2>2 DEF GroupSound
  <2>4. o[l].anchor \in Nat
    <3>1. p.turns[l] \in Turns BY <1>3, <2>2
    <3> QED BY <2>1, <3>1 DEF Turns
  <2>5. x <= o[l].anchor BY DEF o
  <2> QED BY <1>4, <2>3, <2>4, <2>5
<1> QED BY <1>5, <1>6
-----------------------------------------------------------------------------
(* The prompts a turn names. *)

\* Prompts of lines f .. n with nothing of Claude's from one to the next.
Named(P, f, n, s) ==
  \A x \in P :
    /\ f <= x /\ x <= n /\ s[x] = "prompt"
    /\ \A y \in P : x < y => \A i \in x .. y : s[i] \notin Assistant

\* Each turn names such prompts, of lines up to its anchor and behind the one before it.
NamesTurns(turns, f, s) ==
  /\ \A j \in DOMAIN turns : Named(turns[j].prompts, f, turns[j].anchor, s)
  /\ \A j, k \in DOMAIN turns : j < k => \A x \in turns[k].prompts : turns[j].anchor < x

NamesGroup(turns, g, f, n, s) ==
  /\ Named(g.prompts, f, n, s)
  /\ g.anchor # 0 => \A x \in g.prompts : x <= g.anchor
  /\ ~g.saw => \A x \in g.prompts : \A i \in x .. n : s[i] \notin Assistant
  /\ \A j \in DOMAIN turns : \A x \in g.prompts : turns[j].anchor < x

Names(p, f, n, s) == NamesTurns(p.turns, f, s) /\ NamesGroup(p.turns, p.group, f, n, s)

LEMMA AddsNames ==
  ASSUME NEW p, NEW r, NEW a, NEW text, NEW prompts, Adds(p, r, a, text, prompts),
         NEW f, NEW s, NamesTurns(p.turns, f, s), Named(prompts, f, a, s),
         \A j \in DOMAIN p.turns : \A x \in prompts : p.turns[j].anchor < x
  PROVE  NamesTurns(r.turns, f, s)
<1> DEFINE n == Len(p.turns)
<1>1. /\ n \in Nat /\ DOMAIN p.turns = 1 .. n /\ DOMAIN r.turns = 1 .. n + 1
      /\ \A j \in 1 .. n : r.turns[j] = p.turns[j]
      /\ r.turns[n + 1].anchor = a /\ r.turns[n + 1].prompts = prompts
  BY DEF Adds
<1> HIDE DEF n
<1>2. ASSUME NEW j \in 1 .. n + 1
      PROVE  Named(r.turns[j].prompts, f, r.turns[j].anchor, s)
  <2>1. CASE j = n + 1 BY <1>1, <2>1
  <2>2. CASE j # n + 1
    <3>1. j \in 1 .. n /\ r.turns[j] = p.turns[j] BY <1>1, <2>2
    <3>2. Named(p.turns[j].prompts, f, p.turns[j].anchor, s) BY <1>1, <3>1 DEF NamesTurns
    <3> QED BY <3>1, <3>2
  <2> QED BY <2>1, <2>2
<1>3. ASSUME NEW j \in 1 .. n + 1, NEW k \in 1 .. n + 1, j < k
      PROVE  \A x \in r.turns[k].prompts : r.turns[j].anchor < x
  <2>1. j \in 1 .. n /\ r.turns[j] = p.turns[j] BY <1>1, <1>3
  <2>2. CASE k = n + 1 BY <1>1, <2>1, <2>2
  <2>3. CASE k # n + 1
    <3>1. k \in 1 .. n /\ r.turns[k] = p.turns[k] BY <1>1, <2>3
    <3> QED BY <1>1, <1>3, <2>1, <3>1 DEF NamesTurns
  <2> QED BY <2>2, <2>3
<1> QED BY <1>1, <1>2, <1>3 DEF NamesTurns

LEMMA ClosesNames ==
  ASSUME NEW p, NEW r, Closes(p, r), NEW f, NEW n, NEW s, Names(p, f, n, s)
  PROVE  NamesTurns(r.turns, f, s)
<1> DEFINE g == p.group
<1>1. NamesTurns(p.turns, f, s) /\ NamesGroup(p.turns, g, f, n, s) BY DEF Names
<1>2. CASE g.anchor = 0
  <2>1. r.turns = p.turns BY <1>2 DEF Closes
  <2> QED BY <1>1, <2>1
<1>3. CASE g.anchor # 0
  <2>1. Adds(p, r, g.anchor, g.text, g.prompts) BY <1>3 DEF Closes
  <2>2. Named(g.prompts, f, g.anchor, s) BY <1>1, <1>3 DEF NamesGroup, Named
  <2>3. \A j \in DOMAIN p.turns : \A x \in g.prompts : p.turns[j].anchor < x
    BY <1>1 DEF NamesGroup
  <2> HIDE DEF g
  <2> QED BY <1>1, <2>1, <2>2, <2>3, AddsNames
<1> QED BY <1>2, <1>3

LEMMA NamesLine ==
  ASSUME NEW p \in Passes, NEW f \in Nat \ {0}, NEW n \in Nat, NEW s, Sound(p, f, n, s),
         Names(p, f, n, s), NEW i, i = n + 1, i >= f, NEW kind, kind = s[i]
  PROVE  Names(ReadLine(p, kind, i), f, i, s)
<1> DEFINE g == p.group
           r == ReadLine(p, kind, i)
           h == r.group
<1>0. i \in Nat \ {0} OBVIOUS
<1>1. LineRead(p, kind, i, r) BY <1>0, LineReadIs
<1>2. Sound(r, f, i, s) BY SoundLine
<1>3. NamesTurns(p.turns, f, s) /\ NamesGroup(p.turns, g, f, n, s) BY DEF Names
<1>4. /\ g \in Groups /\ g.prompts \subseteq Nat
      /\ \A x \in g.prompts : f <= x /\ x <= n
  BY <1>3 DEF Passes, Groups, NamesGroup, Named
<1>5. Named(g.prompts, f, i, s) BY <1>3, <1>4 DEF NamesGroup, Named
<1>6. Fresh(g) BY DEF Sound
<1> HIDE DEF r
<1>7. CASE kind \in {"work", "reply", "error", "feedback"}
  <2>1. r.turns = p.turns /\ h.prompts = g.prompts /\ h.anchor \in {0, g.anchor, i}
    BY <1>1, <1>7 DEF LineRead
  <2>2. h.anchor # 0 => \A x \in h.prompts : x <= h.anchor
    BY <1>3, <1>4, <2>1 DEF NamesGroup
  <2>3. ~h.saw => \A x \in h.prompts : \A k \in x .. i : s[k] \notin Assistant
    <3>1. CASE kind # "feedback"
      <4>1. h.saw BY <1>1, <1>7, <3>1 DEF LineRead
      <4> QED BY <4>1
    <3>2. CASE kind = "feedback"
      <4>1. h.saw = g.saw BY <1>1, <3>2 DEF LineRead
      <4>2. s[i] \notin Assistant BY <3>2 DEF Assistant
      <4>3. SUFFICES ASSUME ~g.saw, NEW x \in g.prompts, NEW k \in x .. i
                     PROVE  s[k] \notin Assistant
        BY <2>1, <4>1
      <4>4. k = i \/ k \in x .. n BY <1>4
      <4> QED BY <1>3, <4>2, <4>3, <4>4 DEF NamesGroup
    <3> QED BY <3>1, <3>2
  <2>4. NamesGroup(r.turns, h, f, i, s) BY <1>3, <1>5, <2>1, <2>2, <2>3 DEF NamesGroup
  <2> QED BY <1>3, <2>1, <2>4 DEF Names, r
<1>8. CASE kind \in {"ask", "interrupt"}
  <2>1. h = NoGroup BY <1>1, <1>8 DEF LineRead
  <2>2. NamesGroup(r.turns, h, f, i, s) BY <2>1 DEF NoGroup, NamesGroup, Named
  <2>3. \A j \in DOMAIN p.turns : \A x \in g.prompts : p.turns[j].anchor < x
    BY <1>3 DEF NamesGroup
  <2>4. CASE kind = "ask"
    <3>1. Adds(p, r, i, g.pending \cup {i}, g.prompts) BY <1>1, <2>4 DEF LineRead
    <3>2. NamesTurns(r.turns, f, s) BY <1>3, <1>5, <2>3, <3>1, AddsNames
    <3> QED BY <2>2, <3>2 DEF Names, r
  <2>5. CASE kind = "interrupt" /\ g.anchor = 0 /\ (g.saw \/ g.prompts # {})
    <3>1. Adds(p, r, i, g.pending, g.prompts) BY <1>1, <2>5 DEF LineRead
    <3>2. NamesTurns(r.turns, f, s) BY <1>3, <1>5, <2>3, <3>1, AddsNames
    <3> QED BY <2>2, <3>2 DEF Names, r
  <2>6. CASE kind = "interrupt" /\ ~(g.anchor = 0 /\ (g.saw \/ g.prompts # {}))
    <3>1. Closes(p, r) BY <1>1, <2>6 DEF LineRead
    <3>2. NamesTurns(r.turns, f, s) BY <3>1, ClosesNames
    <3> QED BY <2>2, <3>2 DEF Names, r
  <2> QED BY <1>8, <2>4, <2>5, <2>6
<1>9. CASE kind \in UserPrompts
  <2> DEFINE own == IF kind = "prompt" THEN {i} ELSE {}
  <2>1. ~h.saw /\ s[i] \notin Assistant
    BY <1>1, <1>9 DEF LineRead, UserPrompts, Typed, Assistant
  <2>2. \A j \in DOMAIN r.turns : r.turns[j].anchor < i
    <3> SUFFICES ASSUME NEW j \in DOMAIN r.turns PROVE r.turns[j].anchor < i OBVIOUS
    <3>1. r.turns[j].anchor \in f .. i /\ s[r.turns[j].anchor] \in Ends
      BY <1>2 DEF Sound, TurnsSound
    <3>2. s[i] \notin Ends BY <1>9 DEF UserPrompts, Typed, Ends
    <3> QED BY <1>0, <3>1, <3>2
  <2>3. \A x \in own : x = i /\ s[x] = "prompt" OBVIOUS
  <2>4. CASE g.saw
    <3>1. Closes(p, r) /\ h.anchor = 0 /\ h.prompts = own BY <1>1, <1>9, <2>4 DEF LineRead
    <3>2. NamesTurns(r.turns, f, s) BY <3>1, ClosesNames
    <3> HIDE DEF own
    <3>3. Named(own, f, i, s) BY <1>0, <2>3 DEF Named
    <3>4. \A x \in own : \A k \in x .. i : s[k] \notin Assistant BY <1>0, <2>1, <2>3
    <3>5. \A j \in DOMAIN r.turns : \A x \in own : r.turns[j].anchor < x BY <2>2, <2>3
    <3>6. NamesGroup(r.turns, h, f, i, s) BY <3>1, <3>3, <3>4, <3>5 DEF NamesGroup
    <3> QED BY <3>2, <3>6 DEF Names, r
  <2>5. CASE ~g.saw
    <3>1. r.turns = p.turns /\ h.anchor = g.anchor /\ h.prompts \subseteq own \cup g.prompts
      BY <1>1, <1>9, <2>5 DEF LineRead
    <3>2. h.anchor = 0 BY <1>6, <2>5, <3>1 DEF Fresh
    <3> HIDE DEF own, h
    <3>3. \A x \in g.prompts : \A k \in x .. n : s[k] \notin Assistant
      BY <1>3, <2>5 DEF NamesGroup
    <3>4. ASSUME NEW x \in h.prompts
          PROVE  /\ f <= x /\ x <= i /\ x \in Nat /\ s[x] = "prompt"
                 /\ \A k \in x .. i : s[k] \notin Assistant
                 /\ \A j \in DOMAIN r.turns : r.turns[j].anchor < x
      <4>1. CASE x \in own BY <1>0, <2>1, <2>2, <2>3, <4>1
      <4>2. CASE x \in g.prompts
        <5>1. x \in Nat /\ f <= x /\ x <= n /\ s[x] = "prompt"
          BY <1>3, <1>4, <4>2 DEF NamesGroup, Named
        <5>2. \A k \in x .. i : k \in x .. n \/ k = i BY <5>1
        <5>3. \A k \in x .. i : s[k] \notin Assistant BY <2>1, <3>3, <4>2, <5>2
        <5>4. \A j \in DOMAIN r.turns : r.turns[j].anchor < x BY <1>3, <3>1, <4>2 DEF NamesGroup
        <5> QED BY <5>1, <5>3, <5>4
      <4> QED BY <3>1, <3>4, <4>1, <4>2
    <3>5. Named(h.prompts, f, i, s)
      <4> SUFFICES ASSUME NEW x \in h.prompts, NEW y \in h.prompts, x < y, NEW k \in x .. y
                   PROVE  s[k] \notin Assistant
        BY <3>4 DEF Named
      <4>1. x \in Nat /\ y \in Nat /\ y <= i BY <3>4
      <4>2. k \in x .. i BY <1>0, <4>1
      <4> QED BY <3>4, <4>2
    <3>6. NamesGroup(r.turns, h, f, i, s) BY <3>2, <3>4, <3>5 DEF NamesGroup
    <3> QED BY <1>3, <3>1, <3>6 DEF Names, h, r
  <2> QED BY <2>4, <2>5
<1>10. CASE kind \notin Tells
  <2>1. r = p BY <1>1, <1>10 DEF LineRead
  <2>2. s[i] \notin Assistant BY <1>10 DEF Tells, Assistant
  <2>3. ~g.saw => \A x \in g.prompts : \A k \in x .. i : s[k] \notin Assistant
    <3> SUFFICES ASSUME ~g.saw, NEW x \in g.prompts, NEW k \in x .. i
                 PROVE  s[k] \notin Assistant
      OBVIOUS
    <3>1. k = i \/ k \in x .. n BY <1>4
    <3> QED BY <1>3, <2>2, <3>1 DEF NamesGroup
  <2>4. NamesGroup(p.turns, g, f, i, s) BY <1>3, <1>5, <2>3 DEF NamesGroup
  <2> QED BY <1>3, <2>1, <2>4 DEF Names, r
<1> QED BY <1>7, <1>8, <1>9, <1>10 DEF Tells

LEMMA PassNames ==
  ASSUME NEW s, NEW f \in Nat \ {0}, NEW n \in Nat, n >= f - 1
  PROVE  Names(Pass(s, f)[n], f, n, s)
<1> DEFINE T == {k \in Nat : k >= f - 1 => Names(Pass(s, f)[k], f, k, s)}
<1>0. \A k \in Nat : Pass(s, f)[k] \in Passes BY PassIs
<1>1. Names(NoPass, f, f - 1, s)
  <2>1. NoPass.turns = <<>> /\ NoPass.group = NoGroup BY DEF NoPass
  <2>2. NamesTurns(<<>>, f, s) BY DEF NamesTurns
  <2>3. NamesGroup(<<>>, NoGroup, f, f - 1, s) BY DEF NoGroup, NamesGroup, Named
  <2> QED BY <2>1, <2>2, <2>3 DEF Names
<1>2. Pass(s, f)[f - 1] = NoPass /\ f - 1 \in Nat
  <2>1. f - 1 \in 0 .. f - 1 OBVIOUS
  <2> QED BY <2>1, PassIs
<1>3. 0 \in T
  <2>1. CASE f = 1 BY <1>1, <1>2, <2>1
  <2>2. CASE f # 1 BY <2>2
  <2> QED BY <2>1, <2>2
<1>4. ASSUME NEW k \in Nat, k \in T PROVE k + 1 \in T
  <2>1. CASE k + 1 >= f
    <3>1. Names(Pass(s, f)[k], f, k, s) BY <1>4, <2>1
    <3>2. Pass(s, f)[k + 1] = ReadLine(Pass(s, f)[k], s[k + 1], k + 1) BY <2>1, PassIs
    <3>3. Sound(Pass(s, f)[k], f, k, s) BY <2>1, PassSound
    <3> QED BY <1>0, <2>1, <3>1, <3>2, <3>3, NamesLine
  <2>2. CASE k + 1 = f - 1 BY <1>1, <1>2, <2>2
  <2>3. CASE k + 1 < f - 1 BY <2>3
  <2> QED BY <2>1, <2>2, <2>3
<1> HIDE DEF T
<1>5. Nat \subseteq T BY <1>3, <1>4, Induct
<1> QED BY <1>5 DEF T

\* The turns of a pass, when its group is closed.
LEMMA CompletedNames ==
  ASSUME NEW s \in Seq(Kinds), NEW n \in 0 .. Len(s), NEW f \in Nat \ {0}, n >= f - 1
  PROVE  NamesTurns(CompletedTurns(SubSeq(s, 1, n), f), f, s)
<1> DEFINE p == Pass(s, f)[n]
<1>1. n \in Nat OBVIOUS
<1>2. p \in Passes /\ Names(p, f, n, s) BY <1>1, PassSound, PassNames
<1>3. CompletedTurns(SubSeq(s, 1, n), f) = Flush(p).turns BY CompletedIs
<1> HIDE DEF p
<1>4. Closes(p, Flush(p)) BY <1>2, FlushTells
<1> QED BY <1>2, <1>3, <1>4, ClosesNames

\* Lines that are not among those read, and a longer stretch of them, make no difference.
LEMMA NamedSame ==
  ASSUME NEW P \in SUBSET Nat, NEW e \in Nat \ {0}, NEW f \in Nat \ {0}, e <= f,
         NEW n \in Nat, NEW s, NEW t, \A i \in 1 .. n : s[i] = t[i], Named(P, f, n, s)
  PROVE  Named(P, e, n, t)
<1> SUFFICES ASSUME NEW x \in P
             PROVE  /\ e <= x /\ x <= n /\ t[x] = "prompt"
                    /\ \A y \in P : x < y => \A i \in x .. y : t[i] \notin Assistant
  BY DEF Named
<1>1. /\ x \in 1 .. n /\ f <= x /\ s[x] = "prompt"
      /\ \A y \in P : x < y => \A i \in x .. y : s[i] \notin Assistant
  BY DEF Named
<1>2. ASSUME NEW y \in P, x < y, NEW i \in x .. y PROVE t[i] \notin Assistant
  <2>1. y \in Nat /\ y <= n BY DEF Named
  <2>2. i \in 1 .. n BY <1>1, <2>1
  <2>3. s[i] \notin Assistant BY <1>1, <1>2
  <2> QED BY <2>2, <2>3
<1> QED BY <1>1, <1>2

LEMMA CompletedSound ==
  ASSUME NEW s \in Seq(Kinds), NEW n \in 0 .. Len(s), NEW f \in Nat \ {0}, n >= f - 1
  PROVE  LET c == CompletedTurns(SubSeq(s, 1, n), f) IN
         c \in Seq(Turns) /\ TurnsSound(c, f, n, s)
<1> DEFINE p == Pass(s, f)[n]
<1>1. n \in Nat OBVIOUS
<1>2. p \in Passes /\ Sound(p, f, n, s) BY <1>1, PassSound
<1>3. CompletedTurns(SubSeq(s, 1, n), f) = Flush(p).turns BY CompletedIs
<1> HIDE DEF p
<1>4. Flush(p).turns \in Seq(Turns) BY <1>2, FlushIs DEF Passes
<1>5. TurnsSound(p.turns, f, n, s) /\ GroupSound(p.turns, p.group, f, n, s) BY <1>2 DEF Sound
<1>6. Sound(Flush(p), f, n, s) BY <1>1, <1>2, <1>5, SoundFlush
<1> QED BY <1>3, <1>4, <1>6 DEF Sound
==============================================================================
