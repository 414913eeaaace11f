------------------------- MODULE TranscriptReadProofs -------------------------
(***************************************************************************)
(* Proofs about TranscriptRead, for files of every length and every value  *)
(* of a line, any settle time and any number of rewrites.                  *)
(***************************************************************************)
EXTENDS TranscriptRead, TLAPS

Numbers == INSTANCE TranscriptProofs

-----------------------------------------------------------------------------
(* What parsing makes of lines.                                            *)

\* What is parsed of the first n of them.
Objs(lines) ==
  CHOOSE objs : objs = [n \in Nat |-> IF n = 0 THEN <<>>
                                      ELSE IF lines[n] = Junk THEN objs[n - 1]
                                      ELSE Append(objs[n - 1], lines[n])]

LEMMA ParseIs == \A lines : Parse(lines) = Objs(lines)[Len(lines)]
BY DEF Parse, Objs

\* The recursion has a value.
LEMMA ObjsIs ==
  ASSUME NEW s
  PROVE  /\ \A n \in Nat : Objs(s)[n] \in Seq({s[k] : k \in Nat})
         /\ Objs(s)[0] = <<>>
         /\ \A n \in Nat : Objs(s)[n + 1] =
              IF s[n + 1] = Junk THEN Objs(s)[n] ELSE Append(Objs(s)[n], s[n + 1])
<1> DEFINE V == {s[k] : k \in Nat}
           D == Seq(V)
           After(x, n) == IF s[n] = Junk THEN x ELSE Append(x, s[n])
           step == [x \in D \X Nat |-> After(x[1], x[2])]
           Fn(o) == [n \in Nat |-> IF n = 0 THEN <<>>
                                   ELSE IF s[n] = Junk THEN o[n - 1]
                                   ELSE Append(o[n - 1], s[n])]
<1>1. <<>> \in D OBVIOUS
<1>2. ASSUME NEW x \in D, NEW n \in Nat PROVE After(x, n) \in D
  <2>1. s[n] \in V OBVIOUS
  <2> HIDE DEF V
  <2> QED BY <2>1
<1>3. Numbers!IsStep(step, D)
  <2> HIDE DEF D, After
  <2>1. step \in [D \X Nat -> D] BY <1>2
  <2> QED BY <2>1 DEF Numbers!IsStep
<1>4. \A x \in D, n \in Nat : step[<<x, n>>] = After(x, n) BY DEF step
<1> HIDE DEF step, D
<1>5. PICK f : Numbers!IsRecursive(f, D, <<>>, step) BY <1>1, <1>3, Numbers!Recursion
<1>6. /\ f \in [Nat -> D] /\ f[0] = <<>>
      /\ \A n \in Nat : f[n + 1] = After(f[n], n + 1)
  <2>1. \A n \in Nat : n + 1 \in Nat OBVIOUS
  <2> HIDE DEF After
  <2> QED BY <1>4, <1>5, <2>1 DEF Numbers!IsRecursive
<1>7. f = Fn(f)
  <2>1. ASSUME NEW n \in Nat PROVE f[n] = Fn(f)[n]
    <3>1. CASE n = 0 BY <1>6, <3>1
    <3>2. CASE n # 0
      <4>1. n - 1 \in Nat /\ (n - 1) + 1 = n BY <3>2
      <4> QED BY <4>1, <1>6, <3>2
    <3> QED BY <3>1, <3>2
  <2> QED BY <2>1, <1>6
<1> DEFINE g == CHOOSE o : o = Fn(o)
<1>8. Objs(s) = g BY DEF Objs
<1>9. g = Fn(g)
  <2> HIDE DEF Fn
  <2> QED BY <1>7
<1> HIDE DEF g
<1>10. g[0] = <<>> BY <1>9
<1>11. \A n \in Nat : g[n + 1] = After(g[n], n + 1)
  <2> SUFFICES ASSUME NEW n \in Nat PROVE g[n + 1] = After(g[n], n + 1) OBVIOUS
  <2>1. n + 1 \in Nat /\ n + 1 # 0 /\ (n + 1) - 1 = n OBVIOUS
  <2> QED BY <1>9, <2>1
<1>12. \A n \in Nat : g[n] \in D
  <2> DEFINE T == {n \in Nat : g[n] \in D}
  <2>1. 0 \in T BY <1>1, <1>10
  <2>2. \A n \in Nat : n \in T => n + 1 \in T
    <3> HIDE DEF After
    <3> QED BY <1>2, <1>11
  <2> HIDE DEF T
  <2>3. Nat \subseteq T BY <2>1, <2>2, Numbers!Induct
  <2> QED BY <2>3 DEF T
<1> QED BY <1>8, <1>10, <1>11, <1>12 DEF D

LEMMA ObjsStart == ASSUME NEW s PROVE Objs(s)[0] = <<>>
BY ObjsIs

LEMMA ObjsStep ==
  ASSUME NEW s, NEW n \in Nat
  PROVE  Objs(s)[n + 1] = IF s[n + 1] = Junk THEN Objs(s)[n] ELSE Append(Objs(s)[n], s[n + 1])
BY ObjsIs

LEMMA ObjsSeq == ASSUME NEW s, NEW n \in Nat PROVE Objs(s)[n] \in Seq({s[k] : k \in Nat})
BY ObjsIs

\* It depends on the lines parsed only.
LEMMA ObjsSame ==
  ASSUME NEW s, NEW t, NEW n \in Nat, \A i \in 1 .. n : s[i] = t[i]
  PROVE  Objs(s)[n] = Objs(t)[n]
<1> DEFINE T == {k \in Nat : k <= n => Objs(s)[k] = Objs(t)[k]}
<1>1. 0 \in T
  <2>1. Objs(s)[0] = <<>> BY ObjsStart
  <2>2. Objs(t)[0] = <<>> BY ObjsStart
  <2> QED BY <2>1, <2>2
<1>2. ASSUME NEW k \in Nat, k \in T PROVE k + 1 \in T
  <2>1. ASSUME k + 1 <= n PROVE Objs(s)[k + 1] = Objs(t)[k + 1]
    <3>1. Objs(s)[k] = Objs(t)[k] /\ s[k + 1] = t[k + 1] BY <1>2, <2>1
    <3>2. Objs(s)[k + 1] = IF s[k + 1] = Junk THEN Objs(s)[k] ELSE Append(Objs(s)[k], s[k + 1])
      BY ObjsStep
    <3>3. Objs(t)[k + 1] = IF t[k + 1] = Junk THEN Objs(t)[k] ELSE Append(Objs(t)[k], t[k + 1])
      BY ObjsStep
    <3> QED BY <3>1, <3>2, <3>3
  <2> QED BY <2>1
<1> HIDE DEF T
<1>3. Nat \subseteq T BY <1>1, <1>2, Numbers!Induct
<1> QED BY <1>3 DEF T

\* One after the other: a name for it, which the provers need not look into.
Cat(s, t) == s \o t

LEMMA CatNothing == ASSUME NEW S, NEW s \in Seq(S) PROVE s \o <<>> = s /\ <<>> \o s = s
OBVIOUS

LEMMA CatAppend ==
  ASSUME NEW S, NEW s \in Seq(S), NEW t \in Seq(S), NEW v \in S
  PROVE  Append(Cat(s, t), v) = Cat(s, Append(t, v))
BY DEF Cat

\* What is parsed of some lines, and then of those behind them, is what is parsed of all.
LEMMA ObjsMore ==
  ASSUME NEW s, NEW t, NEW m \in Nat, NEW n \in Nat, \A i \in 1 .. n : t[i] = s[m + i]
  PROVE  Objs(s)[m + n] = Objs(s)[m] \o Objs(t)[n]
<1> DEFINE V == {s[i] : i \in Nat} \cup {t[i] : i \in Nat}
           Is(k) == Objs(s)[m + k] = Cat(Objs(s)[m], Objs(t)[k])
           T == {k \in Nat : k <= n => Is(k)}
<1>1. ASSUME NEW k \in Nat PROVE Objs(s)[k] \in Seq(V)
  <2>1. Objs(s)[k] \in Seq({s[i] : i \in Nat}) BY ObjsSeq
  <2>2. {s[i] : i \in Nat} \subseteq V OBVIOUS
  <2> HIDE DEF V
  <2> DEFINE W == {s[i] : i \in Nat}
  <2> HIDE DEF W
  <2>3. Objs(s)[k] \in Seq(W) /\ W \subseteq V BY <2>1, <2>2 DEF W
  <2> QED BY <2>3
<1>2. ASSUME NEW k \in Nat PROVE Objs(t)[k] \in Seq(V)
  <2>1. Objs(t)[k] \in Seq({t[i] : i \in Nat}) BY ObjsSeq
  <2>2. {t[i] : i \in Nat} \subseteq V OBVIOUS
  <2> HIDE DEF V
  <2> DEFINE W == {t[i] : i \in Nat}
  <2> HIDE DEF W
  <2>3. Objs(t)[k] \in Seq(W) /\ W \subseteq V BY <2>1, <2>2 DEF W
  <2> QED BY <2>3
<1>3. \A k \in Nat : t[k] \in V OBVIOUS
<1> HIDE DEF V
<1>4. 0 \in T
  <2>1. Objs(t)[0] = <<>> /\ m + 0 = m BY ObjsStart
  <2>2. Objs(s)[m] \in Seq(V) BY <1>1
  <2>3. Objs(s)[m] \o <<>> = Objs(s)[m] BY <2>2, CatNothing
  <2>4. Is(0) BY <2>1, <2>3 DEF Cat
  <2> HIDE DEF Is
  <2> QED BY <2>4
<1>5. ASSUME NEW k \in Nat, k \in T PROVE k + 1 \in T
  <2>1. ASSUME k + 1 <= n PROVE Is(k + 1)
    <3>1. Is(k)
      <4> HIDE DEF Is
      <4> QED BY <1>5, <2>1
    <3>2. k + 1 \in Nat /\ m + (k + 1) = (m + k) + 1 /\ m + k \in Nat /\ k + 1 \in 1 .. n BY <2>1
    <3>3. t[k + 1] = s[(m + k) + 1]
      <4>1. t[k + 1] = s[m + (k + 1)] BY <3>2
      <4> QED BY <3>2, <4>1
    <3>4. Objs(s)[(m + k) + 1] =
            IF s[(m + k) + 1] = Junk THEN Objs(s)[m + k] ELSE Append(Objs(s)[m + k], s[(m + k) + 1])
      BY <3>2, ObjsStep
    <3>5. Objs(t)[k + 1] = IF t[k + 1] = Junk THEN Objs(t)[k] ELSE Append(Objs(t)[k], t[k + 1])
      BY ObjsStep
    <3>6. Objs(s)[m] \in Seq(V) /\ Objs(t)[k] \in Seq(V) /\ t[k + 1] \in V
      <4>1. Objs(s)[m] \in Seq(V) BY <1>1
      <4>2. Objs(t)[k] \in Seq(V) BY <1>2
      <4>3. t[k + 1] \in V BY <1>3, <3>2
      <4> QED BY <4>1, <4>2, <4>3
    <3> DEFINE a == Objs(s)[m]  b == Objs(t)[k]  v == t[k + 1]
               c == Objs(s)[m + k]  d == Objs(s)[(m + k) + 1]  e == Objs(t)[k + 1]
    <3>7. Append(Cat(a, b), v) = Cat(a, Append(b, v))
      <4>1. a \in Seq(V) /\ b \in Seq(V) /\ v \in V BY <3>6
      <4> HIDE DEF a, b, v
      <4> QED BY <4>1, CatAppend, SMTT(30)
    <3>8. c = Cat(a, b) BY <3>1
    <3>9. d = (IF v = Junk THEN c ELSE Append(c, v)) /\ e = IF v = Junk THEN b ELSE Append(b, v)
      BY <3>3, <3>4, <3>5
    <3>10. Is(k + 1) <=> d = Cat(a, e)
      <4>1. Objs(s)[m + (k + 1)] = d BY <3>2
      <4> HIDE DEF a, d, e
      <4> QED BY <4>1 DEF a, e
    <3> HIDE DEF Is, a, b, c, d, e, v
    <3>11. d = Cat(a, e) BY <3>7, <3>8, <3>9
    <3> QED BY <3>10, <3>11
  <2> HIDE DEF Is
  <2> QED BY <2>1
<1>6. Nat \subseteq T
  <2> HIDE DEF T
  <2> QED BY <1>4, <1>5, Numbers!Induct
<1>7. Is(n)
  <2> HIDE DEF Is
  <2> QED BY <1>6
<1> QED BY <1>7 DEF Cat

LEMMA ParseSeq == ASSUME NEW c \in Seq(Vals) PROVE Parse(c) \in Seq(Vals)
<1> DEFINE T == {k \in Nat : k <= Len(c) => Objs(c)[k] \in Seq(Vals)}
<1>1. 0 \in T
  <2>1. Objs(c)[0] = <<>> BY ObjsStart
  <2>2. <<>> \in Seq(Vals) OBVIOUS
  <2>3. 0 \in Nat OBVIOUS
  <2> QED BY <2>1, <2>2, <2>3
<1>2. ASSUME NEW k \in Nat, k \in T PROVE k + 1 \in T
  <2>1. ASSUME k + 1 <= Len(c) PROVE Objs(c)[k + 1] \in Seq(Vals)
    <3>1. Objs(c)[k] \in Seq(Vals) /\ c[k + 1] \in Vals BY <1>2, <2>1
    <3>2. Objs(c)[k + 1] = IF c[k + 1] = Junk THEN Objs(c)[k] ELSE Append(Objs(c)[k], c[k + 1])
      BY ObjsStep
    <3> QED BY <3>1, <3>2
  <2> QED BY <2>1
<1> HIDE DEF T
<1>3. Nat \subseteq T BY <1>1, <1>2, Numbers!Induct
<1>4. Parse(c) = Objs(c)[Len(c)] BY ParseIs
<1> QED BY <1>3, <1>4 DEF T

LEMMA PrefixIs ==
  ASSUME NEW S, NEW s \in Seq(S), NEW t \in Seq(S)
  PROVE  IsPrefix(s, t) <=> Len(s) <= Len(t) /\ \A i \in 1 .. Len(s) : s[i] = t[i]
<1>1. ASSUME IsPrefix(s, t) PROVE Len(s) <= Len(t) /\ \A i \in 1 .. Len(s) : s[i] = t[i]
  <2>1. Len(s) <= Len(t) /\ SubSeq(s, 1, Len(s)) = SubSeq(t, 1, Len(s)) BY <1>1 DEF IsPrefix
  <2>2. \A i \in 1 .. Len(s) : SubSeq(s, 1, Len(s))[i] = s[i] /\ SubSeq(t, 1, Len(s))[i] = t[i]
    BY <2>1
  <2> QED BY <2>1, <2>2
<1>2. ASSUME Len(s) <= Len(t), \A i \in 1 .. Len(s) : s[i] = t[i] PROVE IsPrefix(s, t)
  <2>1. SubSeq(s, 1, Len(s)) = SubSeq(t, 1, Len(s)) BY <1>2
  <2> QED BY <1>2, <2>1 DEF IsPrefix
<1> QED BY <1>1, <1>2

\* Lines parsed before, and the new ones.
LEMMA ParseOn ==
  ASSUME NEW s \in Seq(Vals), NEW c \in Seq(Vals), IsPrefix(s, c)
  PROVE  Parse(s) \o Parse(SubSeq(c, Len(s) + 1, Len(c))) = Parse(c)
<1> DEFINE m == Len(s)
           n == Len(c) - m
           t == SubSeq(c, m + 1, Len(c))
<1>1. m \in Nat /\ n \in Nat /\ m + n = Len(c) /\ \A i \in 1 .. m : s[i] = c[i]
  <2>1. Len(s) <= Len(c) /\ \A i \in 1 .. m : s[i] = c[i] BY PrefixIs
  <2> QED BY <2>1
<1>2. Len(t) = n /\ \A i \in 1 .. n : t[i] = c[m + i] BY <1>1
<1>3. Parse(s) = Objs(s)[m] /\ Parse(c) = Objs(c)[Len(c)] /\ Parse(t) = Objs(t)[Len(t)] BY ParseIs
<1>4. SubSeq(c, Len(s) + 1, Len(c)) = t OBVIOUS
<1> HIDE DEF m, n, t
<1>5. Objs(s)[m] = Objs(c)[m] BY <1>1, ObjsSame
<1>6. Objs(c)[m + n] = Objs(c)[m] \o Objs(t)[n]
  <2>1. m \in Nat /\ n \in Nat /\ \A i \in 1 .. n : t[i] = c[m + i] BY <1>1, <1>2
  <2> QED BY <2>1, ObjsMore
<1> QED BY <1>1, <1>2, <1>3, <1>4, <1>5, <1>6

\* From the start: as if nothing had been parsed.
LEMMA ParseAll ==
  ASSUME NEW c \in Seq(Vals)
  PROVE  <<>> \o Parse(SubSeq(c, 1, Len(c))) = Parse(c)
<1>1. SubSeq(c, 1, Len(c)) = c OBVIOUS
<1>2. Parse(c) \in Seq(Vals) BY ParseSeq
<1>3. <<>> \o Parse(c) = Parse(c) BY <1>2, CatNothing
<1> QED BY <1>1, <1>3
-----------------------------------------------------------------------------
(* The invariant.                                                          *)

Bytes   == [lines : Seq(Vals), tail : Tails]
Sources == [lines : Seq(Vals), tail : Tails, mtime : Nat]
Files   == [lines : Seq(Vals), tail : Tails, mtime : Nat, ino : Nat]
Passes  == [pc : {"idle", "copy", "move"}, lines : Seq(Vals), tail : Tails, mtime : Nat]
Stamps  == Nat \X Nat \X Nat
Reads   == [pc : {"idle", "opened"}, stamp : Stamps,
            content : Bytes, settled : BOOLEAN]
Kept    == [stamp : Stamps, settled : BOOLEAN, consumed : Seq(Vals), objs : Seq(Vals),
            tail : Seq(Vals)]

Types ==
  /\ now \in Nat /\ rewrites \in Nat
  /\ src \in Sources \cup {None} /\ file \in Files \cup {None}
  /\ mirror \in Passes /\ (mirror.pc # "idle" => src # None)
  /\ read \in Reads
  /\ kept \in Kept \cup {None}
  /\ right \in BOOLEAN

\* Nothing but the mirror has written the copy while the mirror was about to replace it.
Calm == rewrites = 0 \/ "midpass" \notin Faults

\* No time is ahead of the clock, and what the mirror brings is newer than what is there.
Ordered ==
  /\ src # None => src.mtime <= now
  /\ file # None => file.mtime <= now
  /\ mirror.pc # "idle" =>
       mirror.mtime <= now /\ (file # None => mirror.mtime > file.mtime)

\* What is kept of the bytes through the last newline is what they say.
KeptIsParsed == kept # None => kept.objs = Parse(kept.consumed)

\* A settled reader holds the file as it is, or the file is newer than the stamp taken.
StillRead ==
  read.pc = "opened" /\ read.settled =>
    /\ file # None /\ read.stamp[3] < now
    /\ \/ file.mtime > read.stamp[3]
       \/ file.mtime = read.stamp[3] /\ Content(file) = read.content

\* So does the cache.
StillKept ==
  kept # None /\ kept.settled =>
    /\ file # None /\ kept.stamp[3] < now
    /\ \/ file.mtime > kept.stamp[3]
       \/ file.mtime = kept.stamp[3] /\ kept.objs \o kept.tail = Parsed(Content(file))

CacheInv == Ordered /\ StillRead /\ StillKept /\ right

ReadInv == Types /\ KeptIsParsed /\ (Calm => CacheInv)

\* Bytes is a name for a set of records, nothing more.
USE DEF Bytes

LEMMA ContentTypes ==
  ASSUME NEW c, \/ c \in Sources \/ c \in Files \/ c \in Passes
  PROVE  Content(c) \in Bytes
BY DEF Sources, Files, Passes, Content

LEMMA StampTypes == ASSUME NEW f \in Files PROVE StampOf(f) \in Stamps /\ StampOf(f)[3] = f.mtime
<1>1. f.lines \in Seq(Vals) /\ Len(f.lines) \in Nat /\ f.mtime \in Nat /\ f.ino \in Nat BY DEF Files
<1>2. Size(Content(f)) \in Nat
  <2> DEFINE rest == IF Content(f).tail = None THEN 0 ELSE IF Content(f).tail.whole THEN 2 ELSE 1
  <2>1. Content(f).lines = f.lines BY DEF Content
  <2>2. rest \in Nat OBVIOUS
  <2>3. Size(Content(f)) = 3 * Len(f.lines) + rest BY <2>1 DEF Size
  <2> HIDE DEF rest
  <2> QED BY <1>1, <2>2, <2>3
<1> QED BY <1>1, <1>2 DEF StampOf, Stamps

LEMMA ParsedTypes ==
  ASSUME NEW c \in Bytes
  PROVE  /\ Parse(c.lines) \in Seq(Vals) /\ ParseTail(c.tail) \in Seq(Vals)
         /\ Parsed(c) \in Seq(Vals)
<1>1. Parse(c.lines) \in Seq(Vals)
  <2>1. c.lines \in Seq(Vals) OBVIOUS
  <2> QED BY <2>1, ParseSeq
<1>2. ParseTail(c.tail) \in Seq(Vals)
  <2>1. CASE c.tail # None /\ c.tail.whole
    <3>1. c.tail \in [val : Vals, whole : BOOLEAN] BY <2>1 DEF Tails
    <3>2. <<c.tail.val>> \in Seq(Vals) BY <3>1
    <3>3. Parse(<<c.tail.val>>) \in Seq(Vals) BY <3>2, ParseSeq
    <3> QED BY <2>1, <3>3 DEF ParseTail
  <2>2. CASE ~(c.tail # None /\ c.tail.whole)
    <3>1. ParseTail(c.tail) = <<>> BY <2>2 DEF ParseTail
    <3> QED BY <3>1
  <2> QED BY <2>1, <2>2
<1>3. Parse(c.lines) \o ParseTail(c.tail) \in Seq(Vals) BY <1>1, <1>2
<1> QED BY <1>1, <1>2, <1>3 DEF Parsed

LEMMA FreeInodeIs == ASSUME Types PROVE FreeInode \in Nat
<1>1. \E i \in 1 .. 3 : i # read.stamp[1] /\ (file # None => i # file.ino)
  <2>1. \/ 1 # read.stamp[1] /\ 1 # file.ino
        \/ 2 # read.stamp[1] /\ 2 # file.ino
        \/ 3 # read.stamp[1] /\ 3 # file.ino
    OBVIOUS
  <2>2. 1 \in 1 .. 3 /\ 2 \in 1 .. 3 /\ 3 \in 1 .. 3 OBVIOUS
  <2> QED BY <2>1, <2>2
<1> DEFINE P(i) == i # read.stamp[1] /\ (file # None => i # file.ino)
<1>2. FreeInode = CHOOSE i \in 1 .. 3 : P(i) BY DEF FreeInode
<1>3. \E i \in 1 .. 3 : P(i) BY <1>1
<1> HIDE DEF P
<1>4. FreeInode \in 1 .. 3 BY <1>2, <1>3
<1> QED BY <1>4

\* What a finished read holds, from what is kept and from the start.
LEMMA FinishedOn ==
  ASSUME Types, KeptIsParsed, StillBegins(read.content)
  PROVE  kept.objs \o Parse(SubSeq(read.content.lines, Len(kept.consumed) + 1,
                                   Len(read.content.lines)))
           = Parse(read.content.lines)
<1> DEFINE c == read.content.lines
<1>1. c \in Seq(Vals) BY DEF Types, Reads
<1>2. kept # None /\ IsPrefix(kept.consumed, c) BY DEF StillBegins
<1>3. kept.consumed \in Seq(Vals) /\ kept.objs = Parse(kept.consumed)
  BY <1>2 DEF Types, Kept, KeptIsParsed
<1>4. Parse(kept.consumed) \o Parse(SubSeq(c, Len(kept.consumed) + 1, Len(c))) = Parse(c)
  BY <1>1, <1>2, <1>3, ParseOn
<1> QED BY <1>3, <1>4

LEMMA FinishedAll ==
  ASSUME Types
  PROVE  <<>> \o Parse(SubSeq(read.content.lines, 0 + 1, Len(read.content.lines)))
           = Parse(read.content.lines)
<1>1. read.content.lines \in Seq(Vals) BY DEF Types, Reads
<1>2. 0 + 1 = 1 OBVIOUS
<1> QED BY <1>1, <1>2, ParseAll

-----------------------------------------------------------------------------
(* The steps.                                                              *)

LEMMA WriteSourceTypes ==
  ASSUME Types, NEW c \in Bytes, WriteSource(c)
  PROVE  src' \in Sources /\ src' # None /\ src'.mtime = now
<1>1. src' = [lines |-> c.lines, tail |-> c.tail, mtime |-> now] BY DEF WriteSource
<1>2. now \in Nat /\ c.lines \in Seq(Vals) /\ c.tail \in Tails BY DEF Types
<1>3. src' \in Sources BY <1>1, <1>2 DEF Sources
<1> QED BY <1>1, <1>3, NoneAssumption DEF Sources

\* Claude's writing is a write of some content.
LEMMA ClaudeWritesSome ==
  ASSUME Types, ClaudeWrites
  PROVE  /\ \E c \in Bytes : WriteSource(c)
         /\ rewrites' = rewrites
<1> DEFINE c == IF src = None THEN NoContent ELSE Content(src)
<1>1. c \in Bytes
  <2>1. CASE src = None BY <2>1 DEF NoContent, Tails
  <2>2. CASE src # None
    <3>1. src \in Sources BY <2>2 DEF Types
    <3> QED BY <2>2, <3>1, ContentTypes
  <2> QED BY <2>1, <2>2
<1>2. PICK v \in IF c.tail = None THEN Vals ELSE {c.tail.val} :
       \/ WriteSource([lines |-> Append(c.lines, v), tail |-> None])
       \/ \E w \in BOOLEAN : WriteSource([c EXCEPT !.tail = [val |-> v, whole |-> w]])
  <2> HIDE DEF c
  <2> QED BY DEF ClaudeWrites, c
<1> HIDE DEF c
<1>3. v \in Vals
  <2>1. CASE c.tail = None BY <1>2, <2>1
  <2>2. CASE c.tail # None
    <3>1. c.tail \in [val : Vals, whole : BOOLEAN] BY <1>1, <2>2 DEF Tails
    <3> QED BY <1>2, <2>2, <3>1
  <2> QED BY <2>1, <2>2
<1>4. [lines |-> Append(c.lines, v), tail |-> None] \in Bytes
  BY <1>1, <1>3 DEF Tails
<1>5. ASSUME NEW w \in BOOLEAN
      PROVE  [c EXCEPT !.tail = [val |-> v, whole |-> w]] \in Bytes
  BY <1>1, <1>3 DEF Tails
<1> QED BY <1>2, <1>4, <1>5 DEF ClaudeWrites

\* A finished read keeps and answers what the file held.
LEMMA FinishIs ==
  ASSUME Types, KeptIsParsed, ReadFinishes
  PROVE  /\ read.pc = "opened" /\ read' = NoRead
         /\ kept' = [stamp |-> read.stamp, settled |-> read.settled,
                     consumed |-> read.content.lines, objs |-> Parse(read.content.lines),
                     tail |-> ParseTail(read.content.tail)]
         /\ right' = right /\ seen' = Parsed(read.content)
         /\ UNCHANGED <<now, src, mirror, file, stray, rewrites>>
<1> DEFINE c    == read.content
           from == IF StillBegins(c) THEN Len(kept.consumed) ELSE 0
           objs == (IF StillBegins(c) THEN kept.objs ELSE <<>>)
                   \o Parse(SubSeq(c.lines, from + 1, Len(c.lines)))
<1>1. /\ read.pc = "opened" /\ read' = NoRead
      /\ kept' = [stamp |-> read.stamp, settled |-> read.settled,
                  consumed |-> Consumed(c), objs |-> objs, tail |-> ParseTail(c.tail)]
      /\ Answer(objs \o ParseTail(c.tail), c)
      /\ UNCHANGED <<now, src, mirror, file, stray, rewrites>>
  BY DEF ReadFinishes
<1>2. objs = Parse(c.lines)
  <2>1. CASE StillBegins(c)
    <3>1. objs = kept.objs \o Parse(SubSeq(c.lines, Len(kept.consumed) + 1, Len(c.lines)))
      BY <2>1
    <3> QED BY <2>1, <3>1, FinishedOn
  <2>2. CASE ~StillBegins(c)
    <3>1. objs = <<>> \o Parse(SubSeq(c.lines, 0 + 1, Len(c.lines))) BY <2>2
    <3> QED BY <3>1, FinishedAll
  <2> QED BY <2>1, <2>2
<1> HIDE DEF objs, from
<1>3. objs \o ParseTail(c.tail) = Parsed(c) BY <1>2 DEF Parsed
<1>4. right' = (right /\ Parsed(c) = Parsed(c)) /\ seen' = Parsed(c) BY <1>1, <1>3 DEF Answer
<1>5. right' = right
  <2>1. right' = (right /\ TRUE) BY <1>4
  <2>2. right \in BOOLEAN BY DEF Types
  <2> QED BY <2>1, <2>2
<1> QED BY <1>1, <1>2, <1>4, <1>5 DEF Consumed

LEMMA TypesStep == ASSUME Types, KeptIsParsed, [Next]_vars PROVE Types'
<1>1. CASE ClaudeWrites
  <2>1. PICK c \in Bytes : WriteSource(c) BY <1>1, ClaudeWritesSome
  <2>2. src' \in Sources /\ src' # None BY <2>1, WriteSourceTypes
  <2>3. rewrites' = rewrites BY <1>1, ClaudeWritesSome
  <2> QED BY <2>1, <2>2, <2>3 DEF Types, WriteSource, cache
<1>2. CASE CopyRewritten
  <2>1. PICK c \in Whole :
         /\ file' = [file EXCEPT !.lines = c.lines, !.tail = c.tail, !.mtime = now]
         /\ read' = IF read.pc = "opened" /\ read.stamp[1] = file.ino
                      THEN [read EXCEPT !.content = c] ELSE read
    BY <1>2 DEF CopyRewritten
  <2>2. c \in Bytes BY DEF Whole, Contents
  <2>3. file \in Files BY <1>2 DEF CopyRewritten, Types
  <2>4. file' \in Files
    <3>1. now \in Nat /\ c.lines \in Seq(Vals) /\ c.tail \in Tails BY <2>2 DEF Types
    <3> QED BY <2>1, <2>3, <3>1 DEF Files
  <2>5. read' \in Reads BY <2>1, <2>2 DEF Types, Reads
  <2>6. rewrites' \in Nat BY <1>2 DEF CopyRewritten, Rewrites, Types
  <2> QED BY <1>2, <2>4, <2>5, <2>6 DEF CopyRewritten, Types
<1>3. CASE Tick BY <1>3 DEF Tick, Types, cache
<1>4. CASE MirrorStarts
  <2>1. src \in Sources BY <1>4 DEF MirrorStarts, Types
  <2>2. mirror' = [pc |-> "copy", lines |-> <<>>, tail |-> None, mtime |-> src.mtime]
    BY <1>4 DEF MirrorStarts, NoPass
  <2>3. mirror' \in Passes
    <3>1. src.mtime \in Nat BY <2>1 DEF Sources
    <3> QED BY <2>2, <3>1 DEF Passes, Tails
  <2> QED BY <1>4, <2>3 DEF MirrorStarts, Types, cache
<1>5. CASE MirrorCopies
  <2>1. src \in Sources /\ mirror \in Passes BY <1>5 DEF MirrorCopies, Types
  <2>2. mirror' \in Passes BY <1>5, <2>1 DEF MirrorCopies, Passes, Sources
  <2>3. src # None BY <1>5 DEF MirrorCopies, Types
  <2> QED BY <1>5, <2>2, <2>3 DEF MirrorCopies, Types, cache
<1>6. CASE MirrorMoves
  <2>1. FreeInode \in Nat BY FreeInodeIs
  <2>2. mirror \in Passes BY DEF Types
  <2>3. file' \in Files BY <1>6, <2>1, <2>2 DEF MirrorMoves, Passes, Files
  <2>4. mirror' \in Passes /\ mirror'.pc = "idle" BY <1>6 DEF MirrorMoves, NoPass, Passes, Tails
  <2> QED BY <1>6, <2>3, <2>4 DEF MirrorMoves, Types, cache
<1>7. CASE MirrorFails
  <2>1. mirror' \in Passes /\ mirror'.pc = "idle" BY <1>7 DEF MirrorFails, NoPass, Passes, Tails
  <2> QED BY <1>7, <2>1 DEF MirrorFails, Types, cache
<1>8. CASE ReadOpens
  <2>1. file \in Files BY <1>8 DEF ReadOpens, Types
  <2>2. read' \in Reads
    <3>1. CASE UNCHANGED read BY <3>1 DEF Types
    <3>2. CASE read' = [pc |-> "opened", stamp |-> StampOf(file), content |-> Content(file),
                        settled |-> Settled(file)]
      <4>1. StampOf(file) \in Stamps /\ Content(file) \in Bytes
        BY <2>1, StampTypes, ContentTypes
      <4>2. Settled(file) \in BOOLEAN BY DEF Settled
      <4> QED BY <3>2, <4>1, <4>2 DEF Reads
    <3> QED BY <1>8, <3>1, <3>2 DEF ReadOpens
  <2>3. right' \in BOOLEAN BY <1>8 DEF ReadOpens, Answer, Types
  <2> QED BY <1>8, <2>2, <2>3 DEF ReadOpens, Types
<1>9. CASE ReadFinishes
  <2>1. read.content \in Bytes /\ read.stamp \in Stamps
        /\ read.settled \in BOOLEAN
    BY DEF Types, Reads
  <2>2. Parse(read.content.lines) \in Seq(Vals) /\ ParseTail(read.content.tail) \in Seq(Vals)
    BY <2>1, ParsedTypes
  <2>3. kept' \in Kept
    <3>1. read.content.lines \in Seq(Vals) BY <2>1
    <3> QED BY <1>9, <2>1, <2>2, <3>1, FinishIs DEF Kept
  <2>4. read' \in Reads
    <3>1. read' = NoRead BY <1>9 DEF ReadFinishes
    <3>2. <<0, 0, 0>> \in Stamps BY DEF Stamps
    <3>3. NoContent \in Bytes BY DEF NoContent, Tails
    <3> QED BY <3>1, <3>2, <3>3 DEF NoRead, Reads
  <2> QED BY <1>9, <2>3, <2>4, FinishIs DEF Types
<1>10. CASE Forgotten BY <1>10 DEF Forgotten, Types
<1>11. CASE UNCHANGED vars BY <1>11 DEF vars, cache, Types
<1> QED BY <1>1, <1>2, <1>3, <1>4, <1>5, <1>6, <1>7, <1>8, <1>9, <1>10, <1>11 DEF Next, Mirror, Read

LEMMA KeptIsParsedStep == ASSUME Types, KeptIsParsed, [Next]_vars PROVE KeptIsParsed'
<1>1. CASE ReadFinishes
  <2>1. kept'.objs = Parse(read.content.lines) /\ kept'.consumed = read.content.lines
    BY <1>1, FinishIs
  <2> QED BY <2>1 DEF KeptIsParsed
<1>2. CASE Forgotten BY <1>2 DEF Forgotten, KeptIsParsed
<1>3. CASE UNCHANGED kept BY <1>3 DEF KeptIsParsed
<1>4. ReadFinishes \/ Forgotten \/ UNCHANGED kept
  <2>1. ClaudeWrites => UNCHANGED kept
    <3>1. ASSUME NEW c, WriteSource(c) PROVE UNCHANGED kept BY <3>1 DEF WriteSource, cache
    <3> QED BY <3>1, ClaudeWritesSome
  <2> QED BY <2>1 DEF Next, Mirror, Read, CopyRewritten, Tick, MirrorStarts, MirrorCopies,
    MirrorMoves, MirrorFails, ReadOpens, cache, vars
<1> QED BY <1>1, <1>2, <1>3, <1>4

\* What is calm was calm before, and the copy was written between passes.
LEMMA CalmBefore ==
  ASSUME Types, [Next]_vars, Calm'
  PROVE  Calm /\ (CopyRewritten => mirror.pc = "idle")
<1>1. CASE UNCHANGED rewrites
  <2>1. Calm BY <1>1 DEF Calm
  <2>2. rewrites \in Nat BY DEF Types
  <2>3. Rewrites => rewrites' = rewrites + 1 BY DEF Rewrites
  <2>4. CopyRewritten => Rewrites BY DEF CopyRewritten
  <2>5. ~CopyRewritten BY <1>1, <2>2, <2>3, <2>4
  <2> QED BY <2>1, <2>5
<1>2. CASE Rewrites
  <2>1. rewrites' # 0 BY <1>2 DEF Rewrites, Types
  <2>2. "midpass" \notin Faults BY <2>1 DEF Calm
  <2> QED BY <2>2 DEF Calm, CopyRewritten
<1>3. UNCHANGED rewrites \/ Rewrites
  BY DEF Next, Mirror, Read, ClaudeWrites, CopyRewritten, Tick, MirrorStarts, MirrorCopies,
    MirrorMoves, MirrorFails, ReadOpens, ReadFinishes, Forgotten, vars
<1> QED BY <1>1, <1>2, <1>3

\* Steps that leave the copy and the reader alone, while time does not go back.
LEMMA StillQuiet ==
  ASSUME Types, CacheInv, UNCHANGED <<file, read, kept>>, now' >= now, now' \in Nat
  PROVE  StillRead' /\ StillKept'
<1>1. ASSUME read.pc = "opened", read.settled PROVE read.stamp[3] < now'
  <2>1. read.stamp[3] < now BY <1>1 DEF CacheInv, StillRead
  <2>2. read.stamp[3] \in Nat /\ now \in Nat BY DEF Types, Reads, Stamps
  <2> QED BY <2>1, <2>2
<1>2. StillRead' BY <1>1 DEF CacheInv, StillRead
<1>3. ASSUME kept # None, kept.settled PROVE kept.stamp[3] < now'
  <2>1. kept.stamp[3] < now BY <1>3 DEF CacheInv, StillKept
  <2>2. kept.stamp[3] \in Nat /\ now \in Nat BY <1>3 DEF Types, Kept, Stamps
  <2> QED BY <2>1, <2>2
<1>4. StillKept' BY <1>3 DEF CacheInv, StillKept
<1> QED BY <1>2, <1>4

\* Steps that give the copy a newer time.
LEMMA StillNewer ==
  ASSUME Types, CacheInv, file' \in Files, UNCHANGED <<kept, now>>,
         read' = read \/ \E c : read' = [read EXCEPT !.content = c],
         \/ file'.mtime = now
         \/ file # None => file'.mtime > file.mtime
  PROVE  StillRead' /\ StillKept'
<1>0. file' # None BY NoneAssumption DEF Files
<1>1. ASSUME NEW m \in Nat, m < now, file # None, file.mtime >= m PROVE file'.mtime > m
  <2>1. file.mtime \in Nat /\ file'.mtime \in Nat /\ now \in Nat BY <1>1 DEF Types, Files
  <2> QED BY <1>1, <2>1
<1>2. ASSUME read'.pc = "opened", read'.settled
      PROVE  read'.stamp[3] < now' /\ file'.mtime > read'.stamp[3]
  <2>1. read.pc = "opened" /\ read.settled /\ read'.stamp = read.stamp BY <1>2 DEF Types, Reads
  <2>2. read.stamp[3] \in Nat BY DEF Types, Reads, Stamps
  <2>3. read.stamp[3] < now /\ file # None
        /\ (file.mtime > read.stamp[3] \/ file.mtime = read.stamp[3])
    BY <2>1 DEF CacheInv, StillRead
  <2>4. file.mtime \in Nat BY <2>3 DEF Types, Files
  <2>5. file.mtime >= read.stamp[3] BY <2>2, <2>3, <2>4
  <2>6. file'.mtime > read.stamp[3] BY <1>1, <2>2, <2>3, <2>5
  <2> QED BY <2>1, <2>3, <2>6
<1>3. StillRead' BY <1>0, <1>2 DEF StillRead
<1>4. ASSUME kept # None, kept.settled
      PROVE  kept.stamp[3] < now' /\ file'.mtime > kept.stamp[3]
  <2>2. kept.stamp[3] \in Nat BY <1>4 DEF Types, Kept, Stamps
  <2>3. kept.stamp[3] < now /\ file # None
        /\ (file.mtime > kept.stamp[3] \/ file.mtime = kept.stamp[3])
    BY <1>4 DEF CacheInv, StillKept
  <2>4. file.mtime \in Nat BY <2>3 DEF Types, Files
  <2>5. file.mtime >= kept.stamp[3] BY <2>2, <2>3, <2>4
  <2>6. file'.mtime > kept.stamp[3] BY <1>1, <2>2, <2>3, <2>5
  <2> QED BY <2>3, <2>6
<1>5. StillKept' BY <1>0, <1>4 DEF StillKept
<1> QED BY <1>3, <1>5

\* An answer from the cache is what the file holds.
LEMMA CachedIsFile ==
  ASSUME Types, CacheInv, file # None, kept # None, kept.stamp = StampOf(file), kept.settled
  PROVE  kept.objs \o kept.tail = Parsed(Content(file))
<1>1. file \in Files BY DEF Types
<1>2. kept.stamp[3] = file.mtime BY <1>1, StampTypes
<1>3. file.mtime \in Nat BY <1>1 DEF Files
<1>4. ~(file.mtime > kept.stamp[3]) BY <1>2, <1>3
<1> QED BY <1>4 DEF CacheInv, StillKept

LEMMA RewrittenIsFile ==
  ASSUME Types, file \in Files, NEW c \in Whole,
         file' = [file EXCEPT !.lines = c.lines, !.tail = c.tail, !.mtime = now]
  PROVE  file' \in Files
<1>1. c \in Bytes BY DEF Whole, Contents
<1>2. now \in Nat /\ c.lines \in Seq(Vals) /\ c.tail \in Tails BY <1>1 DEF Types
<1> QED BY <1>2 DEF Files

\* What is no append is counted.
LEMMA TamperCounts ==
  ASSUME Types, [Next]_vars, rewrites' = 0
  PROVE  rewrites = 0 /\ ~CopyRewritten
<1>1. rewrites \in Nat BY DEF Types
<1>2. Rewrites => rewrites' = rewrites + 1 BY DEF Rewrites
<1>3. ~Rewrites BY <1>1, <1>2
<1>4. UNCHANGED rewrites \/ Rewrites
  BY DEF Next, Mirror, Read, ClaudeWrites, CopyRewritten, Tick, MirrorStarts, MirrorCopies,
    MirrorMoves, MirrorFails, ReadOpens, ReadFinishes, Forgotten, vars
<1> QED BY <1>3, <1>4 DEF CopyRewritten

LEMMA CacheInvStep ==
  ASSUME Types, Types', KeptIsParsed, CacheInv, [Next]_vars,
         CopyRewritten => mirror.pc = "idle"
  PROVE  CacheInv'
<1>0. now \in Nat /\ now' \in Nat BY DEF Types
<1>1. CASE ClaudeWrites
  <2>1. PICK c \in Bytes : WriteSource(c) BY <1>1, ClaudeWritesSome
  <2>2. src'.mtime = now BY <2>1, WriteSourceTypes
  <2>3. UNCHANGED <<now, mirror, file, read, kept, right>> BY <2>1 DEF WriteSource, cache
  <2>4. Ordered' BY <1>0, <2>2, <2>3 DEF CacheInv, Ordered
  <2>5. StillRead' /\ StillKept' BY <1>0, <2>3, StillQuiet
  <2> QED BY <2>3, <2>4, <2>5 DEF CacheInv
<1>2. CASE CopyRewritten
  <2>1. PICK c \in Whole :
                 /\ file' = [file EXCEPT !.lines = c.lines, !.tail = c.tail, !.mtime = now]
                 /\ read' = IF read.pc = "opened" /\ read.stamp[1] = file.ino
                              THEN [read EXCEPT !.content = c] ELSE read
    BY <1>2 DEF CopyRewritten
  <2>2. UNCHANGED <<now, src, mirror, kept, right>> /\ file # None BY <1>2 DEF CopyRewritten
  <2>3. file \in Files BY <2>2 DEF Types
  <2>4. file' \in Files /\ file'.mtime = now
    <3>1. file'.mtime = now BY <2>1, <2>3 DEF Files
    <3>2. file' \in Files BY <2>1, <2>2, <2>3, RewrittenIsFile
    <3> QED BY <3>1, <3>2
  <2>5. Ordered' BY <1>0, <1>2, <2>2, <2>4 DEF CacheInv, Ordered
  <2>6. StillRead' /\ StillKept'
    <3>1. read' = read \/ \E d : read' = [read EXCEPT !.content = d] BY <2>1
    <3> QED BY <2>2, <2>4, <3>1, StillNewer
  <2> QED BY <2>2, <2>5, <2>6 DEF CacheInv
<1>3. CASE Tick
  <2>1. UNCHANGED <<src, mirror, file, read, kept, right>> /\ now' = now + 1
    BY <1>3 DEF Tick, cache
  <2>2. now' >= now BY <1>0, <2>1
  <2>3. Ordered'
    <3>1. ASSUME NEW m \in Nat, m <= now PROVE m <= now' BY <1>0, <2>1, <3>1
    <3>2. /\ src # None => src.mtime \in Nat
          /\ file # None => file.mtime \in Nat
          /\ mirror.mtime \in Nat
      BY DEF Types, Sources, Files, Passes
    <3> QED BY <2>1, <3>1, <3>2 DEF CacheInv, Ordered
  <2>4. StillRead' /\ StillKept' BY <1>0, <2>1, <2>2, StillQuiet
  <2> QED BY <2>1, <2>3, <2>4 DEF CacheInv
<1>4. CASE MirrorStarts
  <2>1. UNCHANGED <<now, src, file, read, kept, right>> BY <1>4 DEF MirrorStarts, cache
  <2>2. mirror'.mtime = src.mtime /\ src # None /\ (file # None => src.mtime > file.mtime)
    BY <1>4 DEF MirrorStarts, NoPass
  <2>3. Ordered' BY <2>1, <2>2 DEF CacheInv, Ordered
  <2>4. StillRead' /\ StillKept' BY <1>0, <2>1, StillQuiet
  <2> QED BY <2>1, <2>3, <2>4 DEF CacheInv
<1>5. CASE MirrorCopies
  <2>1. UNCHANGED <<now, src, file, read, kept, right>> BY <1>5 DEF MirrorCopies, cache
  <2>2. mirror'.mtime = mirror.mtime /\ mirror.pc # "idle"
    BY <1>5 DEF MirrorCopies, Types, Passes
  <2>3. Ordered' BY <2>1, <2>2 DEF CacheInv, Ordered
  <2>4. StillRead' /\ StillKept' BY <1>0, <2>1, StillQuiet
  <2> QED BY <2>1, <2>3, <2>4 DEF CacheInv
<1>6. CASE MirrorMoves
  <2>1. UNCHANGED <<now, src, read, kept, right>> BY <1>6 DEF MirrorMoves, cache
  <2>2. file'.mtime = mirror.mtime /\ mirror'.pc = "idle" /\ mirror.pc # "idle"
    BY <1>6 DEF MirrorMoves, NoPass
  <2>3. file' \in Files
    <3>1. file' # None
      <4>1. file' \in Files
        <5>1. FreeInode \in Nat BY FreeInodeIs
        <5>2. mirror \in Passes BY DEF Types
        <5> QED BY <1>6, <5>1, <5>2 DEF MirrorMoves, Passes, Files
      <4> QED BY <4>1, NoneAssumption DEF Files
    <3> QED BY <3>1 DEF Types
  <2>4. Ordered' BY <2>1, <2>2 DEF CacheInv, Ordered
  <2>5. file # None => file'.mtime > file.mtime BY <2>2 DEF CacheInv, Ordered
  <2>6. StillRead' /\ StillKept' BY <2>1, <2>3, <2>5, StillNewer
  <2> QED BY <2>1, <2>4, <2>6 DEF CacheInv
<1>7. CASE MirrorFails
  <2>1. UNCHANGED <<now, src, file, read, kept, right>> /\ mirror'.pc = "idle"
    BY <1>7 DEF MirrorFails, NoPass, cache
  <2>2. Ordered' BY <2>1 DEF CacheInv, Ordered
  <2>3. StillRead' /\ StillKept' BY <1>0, <2>1, StillQuiet
  <2> QED BY <2>1, <2>2, <2>3 DEF CacheInv
<1>8. CASE ReadOpens
  <2>1. UNCHANGED <<now, src, mirror, file, kept>> /\ file # None BY <1>8 DEF ReadOpens
  <2>2. Ordered' BY <2>1 DEF CacheInv, Ordered
  <2>3. StillKept' BY <2>1 DEF CacheInv, StillKept
  <2>4. CASE kept # None /\ kept.stamp = StampOf(file) /\ kept.settled
    <3>1. Answer(kept.objs \o kept.tail, Content(file)) /\ UNCHANGED read
      BY <1>8, <2>4 DEF ReadOpens
    <3>2. kept.objs \o kept.tail = Parsed(Content(file)) BY <2>1, <2>4, CachedIsFile
    <3>3. right' BY <3>1, <3>2 DEF Answer, CacheInv
    <3>4. StillRead' BY <2>1, <3>1 DEF CacheInv, StillRead
    <3> QED BY <2>2, <2>3, <3>3, <3>4 DEF CacheInv
  <2>5. CASE ~(kept # None /\ kept.stamp = StampOf(file) /\ kept.settled)
    <3>1. /\ read' = [pc |-> "opened", stamp |-> StampOf(file), content |-> Content(file),
                      settled |-> Settled(file)]
          /\ right' = right
      BY <1>8, <2>5 DEF ReadOpens
    <3>2. file \in Files BY <2>1 DEF Types
    <3>3. read'.stamp[3] = file.mtime /\ read'.content = Content(file)
          /\ read'.settled = Settled(file)
      BY <3>1, <3>2, StampTypes
    <3>4. Settled(file) => file.mtime < now
      <4>1. file.mtime \in Nat /\ Settle \in Nat BY <3>2, BoundsAssumption DEF Files
      <4> QED BY <1>0, <4>1 DEF Settled
    <3>5. StillRead' BY <2>1, <3>3, <3>4 DEF StillRead
    <3> QED BY <2>2, <2>3, <3>1, <3>5 DEF CacheInv
  <2> QED BY <2>4, <2>5
<1>9. CASE ReadFinishes
  <2>1. /\ read.pc = "opened" /\ read'.pc = "idle"
        /\ kept'.stamp = read.stamp /\ kept'.settled = read.settled
        /\ kept'.objs = Parse(read.content.lines) /\ kept'.tail = ParseTail(read.content.tail)
        /\ right' = right /\ UNCHANGED <<now, src, mirror, file>>
    BY <1>9, FinishIs DEF NoRead
  <2>2. Ordered' BY <2>1 DEF CacheInv, Ordered
  <2>3. StillRead' BY <2>1 DEF StillRead
  <2>4. kept'.objs \o kept'.tail = Parsed(read.content) BY <2>1 DEF Parsed
  <2>5. StillKept' BY <2>1, <2>4 DEF CacheInv, StillRead, StillKept
  <2> QED BY <2>1, <2>2, <2>3, <2>5 DEF CacheInv
<1>10. CASE Forgotten
  <2>1. UNCHANGED <<now, src, mirror, file, read, right>> /\ kept' = None
    BY <1>10 DEF Forgotten
  <2> QED BY <2>1 DEF CacheInv, Ordered, StillRead, StillKept
<1>11. CASE UNCHANGED vars
  BY <1>11 DEF vars, cache, CacheInv, Ordered, StillRead, StillKept
<1> QED BY <1>1, <1>2, <1>3, <1>4, <1>5, <1>6, <1>7, <1>8, <1>9, <1>10, <1>11 DEF Next, Mirror, Read

LEMMA ReadInvInit == Init => ReadInv
<1> SUFFICES ASSUME Init PROVE ReadInv OBVIOUS
<1>1. Types
  <2>1. mirror \in Passes /\ mirror.pc = "idle" BY DEF Init, NoPass, Passes, Tails
  <2>2. read \in Reads
    <3>1. <<0, 0, 0>> \in Stamps BY DEF Stamps
    <3>2. NoContent \in Bytes BY DEF NoContent, Tails
    <3> QED BY <3>1, <3>2 DEF Init, NoRead, Reads
  <2> QED BY <2>1, <2>2 DEF Init, Types
<1>2. KeptIsParsed /\ StillKept BY DEF Init, KeptIsParsed, StillKept
<1>3. StillRead BY DEF Init, NoRead, StillRead
<1>4. Ordered /\ right BY DEF Init, NoPass, Ordered
<1> QED BY <1>1, <1>2, <1>3, <1>4 DEF ReadInv, CacheInv

LEMMA ReadInvStep == ReadInv /\ [Next]_vars => ReadInv'
<1> SUFFICES ASSUME ReadInv, [Next]_vars PROVE ReadInv' OBVIOUS
<1>1. Types /\ KeptIsParsed BY DEF ReadInv
<1>2. Types' /\ KeptIsParsed' BY <1>1, TypesStep, KeptIsParsedStep
<1>3. ASSUME Calm' PROVE CacheInv'
  <2>1. Calm /\ (CopyRewritten => mirror.pc = "idle") BY <1>1, <1>3, CalmBefore
  <2>2. CacheInv BY <2>1 DEF ReadInv
  <2> QED BY <1>1, <1>2, <2>1, <2>2, CacheInvStep
<1> QED BY <1>2, <1>3 DEF ReadInv

LEMMA ReadInvHolds == Spec => []ReadInv
<1>1. Init => ReadInv BY ReadInvInit
<1>2. ReadInv /\ [Next]_vars => ReadInv' BY ReadInvStep
<1> QED BY <1>1, <1>2, PTL DEF Spec

\* read_transcript's promise: whatever is kept, whoever writes the copy and however often,
\* an answer is what parsing the whole file would give. The exception is the fault: a copy
\* written in place while the mirror is about to replace it.
THEOREM AnswersAreTheFile ==
  ASSUME "midpass" \notin Faults
  PROVE  Spec => []ReadIsFile
<1>1. ReadInv => ReadIsFile BY DEF ReadInv, Calm, CacheInv, ReadIsFile
<1> QED BY <1>1, ReadInvHolds, PTL

-----------------------------------------------------------------------------
(* What only grows.                                                        *)

\* d is c, or what was written after c.
Grows(c, d) ==
  /\ IsPrefix(c.lines, d.lines)
  /\ c.tail # None =>
       \/ Len(d.lines) > Len(c.lines) /\ d.lines[Len(c.lines) + 1] = c.tail.val
       \/ /\ Len(d.lines) = Len(c.lines)
          /\ d.tail # None /\ d.tail.val = c.tail.val /\ (c.tail.whole => d.tail.whole)

\* What was answered is behind all that is under way.
Behind(d) ==
  /\ src = None => d = NoContent
  /\ src # None => Grows(d, Content(src))
  /\ mirror.pc = "move" => Grows(d, Content(mirror))
  /\ file # None => Grows(d, Content(file))
  /\ read.pc = "opened" => Grows(d, read.content)

\* So is each of the places a line passes through, the one before it.
Chain ==
  /\ file # None => src # None /\ Grows(Content(file), Content(src))
  /\ mirror.pc = "move" =>
       /\ Grows(Content(mirror), Content(src))
       /\ file # None => Grows(Content(file), Content(mirror))
  /\ read.pc = "opened" => file # None /\ Grows(read.content, Content(file))

Answered == \E d \in Bytes : seen = Parsed(d) /\ Behind(d)

GrowInv == ReadInv /\ (rewrites = 0 => Chain /\ Answered)

LEMMA GrowsSelf == ASSUME NEW c \in Bytes PROVE Grows(c, c)
<1>1. c.lines \in Seq(Vals) OBVIOUS
<1>2. IsPrefix(c.lines, c.lines) BY <1>1, PrefixIs
<1> QED BY <1>2 DEF Grows

LEMMA NothingGrows == ASSUME NEW c \in Bytes PROVE Grows(NoContent, c)
<1>1. c.lines \in Seq(Vals) /\ <<>> \in Seq(Vals) OBVIOUS
<1>2. Len(<<>>) = 0 /\ Len(c.lines) \in Nat BY <1>1
<1>3. IsPrefix(<<>>, c.lines)
  <2>1. Len(<<>>) <= Len(c.lines) /\ \A i \in 1 .. Len(<<>>) : <<>>[i] = c.lines[i]
    BY <1>2
  <2> HIDE DEF NoContent
  <2> DEFINE l == c.lines
  <2>2. l \in Seq(Vals) BY <1>1
  <2> HIDE DEF l
  <2> QED BY <1>1, <2>1, <2>2, PrefixIs DEF l
<1> QED BY <1>3 DEF Grows, NoContent

LEMMA GrowsOn ==
  ASSUME NEW c \in Bytes, NEW d \in Bytes, NEW e \in Bytes, Grows(c, d), Grows(d, e)
  PROVE  Grows(c, e)
<1> DEFINE l == c.lines  m == d.lines  n == e.lines
<1>1. l \in Seq(Vals) /\ m \in Seq(Vals) /\ n \in Seq(Vals) OBVIOUS
<1>2. IsPrefix(l, m) /\ IsPrefix(m, n) BY DEF Grows
<1>3. Len(l) \in Nat /\ Len(m) \in Nat /\ Len(n) \in Nat BY <1>1
<1>4. Len(l) <= Len(m) /\ \A i \in 1 .. Len(l) : l[i] = m[i]
  <2> HIDE DEF l, m, n
  <2> QED BY <1>1, <1>2, PrefixIs
<1>5. Len(m) <= Len(n) /\ \A i \in 1 .. Len(m) : m[i] = n[i]
  <2> HIDE DEF l, m, n
  <2> QED BY <1>1, <1>2, PrefixIs
<1>6. IsPrefix(l, n)
  <2> HIDE DEF l, m, n
  <2>1. Len(l) <= Len(n) /\ \A i \in 1 .. Len(l) : l[i] = n[i] BY <1>3, <1>4, <1>5
  <2> QED BY <1>1, <2>1, PrefixIs
<1>7. ASSUME c.tail # None
      PROVE  \/ Len(n) > Len(l) /\ n[Len(l) + 1] = c.tail.val
             \/ /\ Len(n) = Len(l)
                /\ e.tail # None /\ e.tail.val = c.tail.val /\ (c.tail.whole => e.tail.whole)
  <2>1. CASE Len(m) > Len(l) /\ m[Len(l) + 1] = c.tail.val
    <3>1. Len(l) + 1 \in 1 .. Len(m) BY <1>3, <2>1
    <3> QED BY <1>3, <1>5, <2>1, <3>1
  <2>2. CASE /\ Len(m) = Len(l)
             /\ d.tail # None /\ d.tail.val = c.tail.val /\ (c.tail.whole => d.tail.whole)
    <3>1. \/ Len(n) > Len(m) /\ n[Len(m) + 1] = d.tail.val
          \/ /\ Len(n) = Len(m)
             /\ e.tail # None /\ e.tail.val = d.tail.val /\ (d.tail.whole => e.tail.whole)
      BY <2>2 DEF Grows
    <3> QED BY <2>2, <3>1
  <2> QED BY <1>7, <2>1, <2>2 DEF Grows
<1> QED BY <1>6, <1>7 DEF Grows

LEMMA PrefixOfCat ==
  ASSUME NEW S, NEW s \in Seq(S), NEW t \in Seq(S) PROVE IsPrefix(s, s \o t)
<1>1. s \o t \in Seq(S) /\ Len(s) <= Len(s \o t) /\ \A i \in 1 .. Len(s) : s[i] = (s \o t)[i]
  OBVIOUS
<1> QED BY <1>1, PrefixIs

LEMMA PrefixOn ==
  ASSUME NEW S, NEW s \in Seq(S), NEW t \in Seq(S), NEW u \in Seq(S),
         IsPrefix(s, t), IsPrefix(t, u)
  PROVE  IsPrefix(s, u)
<1>1. Len(s) \in Nat /\ Len(t) \in Nat /\ Len(u) \in Nat OBVIOUS
<1>2. Len(s) <= Len(t) /\ \A i \in 1 .. Len(s) : s[i] = t[i] BY PrefixIs
<1>3. Len(t) <= Len(u) /\ \A i \in 1 .. Len(t) : t[i] = u[i] BY PrefixIs
<1>4. Len(s) <= Len(u) /\ \A i \in 1 .. Len(s) : s[i] = u[i] BY <1>1, <1>2, <1>3
<1> QED BY <1>4, PrefixIs

\* More lines parse to more objects.
LEMMA ParsePrefix ==
  ASSUME NEW s \in Seq(Vals), NEW t \in Seq(Vals), IsPrefix(s, t)
  PROVE  IsPrefix(Parse(s), Parse(t))
<1> DEFINE r == SubSeq(t, Len(s) + 1, Len(t))
<1>1. Parse(s) \o Parse(r) = Parse(t) BY ParseOn
<1>2. r \in Seq(Vals)
  <2>1. Len(s) \in Nat OBVIOUS
  <2> QED BY <2>1
<1> HIDE DEF r
<1>3. Parse(s) \in Seq(Vals) /\ Parse(r) \in Seq(Vals) BY <1>2, ParseSeq
<1>4. IsPrefix(Parse(s), Parse(s) \o Parse(r)) BY <1>3, PrefixOfCat
<1> QED BY <1>1, <1>4

\* The newline that ends a whole line changes nothing of what it says.
LEMMA ParseAppend ==
  ASSUME NEW s \in Seq(Vals), NEW v \in Vals
  PROVE  Parse(Append(s, v)) = Parse(s) \o Parse(<<v>>)
<1> DEFINE t == Append(s, v)
<1>1. t \in Seq(Vals) /\ Len(s) \in Nat /\ Len(t) = Len(s) + 1
      /\ \A i \in 1 .. Len(s) : s[i] = t[i]
  OBVIOUS
<1>2. SubSeq(t, Len(s) + 1, Len(t)) = <<v>>
  <2>1. t[Len(s) + 1] = v OBVIOUS
  <2> DEFINE k == Len(s) + 1
  <2>2. k \in Nat /\ Len(t) = k /\ t[k] = v /\ k >= 1 BY <1>1, <2>1
  <2>3. t \in Seq(Vals) BY <1>1
  <2> HIDE DEF t, k
  <2> DEFINE r == SubSeq(t, k, k)
  <2>4. r \in Seq(Vals) /\ Len(r) = 1 /\ r[1] = v BY <2>2, <2>3
  <2> HIDE DEF r
  <2>5. r = <<v>> BY <2>4
  <2> QED BY <2>2, <2>5 DEF k, r
<1> HIDE DEF t
<1>3. IsPrefix(s, t) BY <1>1, PrefixIs
<1>4. Parse(s) \o Parse(SubSeq(t, Len(s) + 1, Len(t))) = Parse(t) BY <1>1, <1>3, ParseOn
<1> QED BY <1>2, <1>4 DEF t

LEMMA GrowsParsed ==
  ASSUME NEW c \in Bytes, NEW d \in Bytes, Grows(c, d)
  PROVE  IsPrefix(Parsed(c), Parsed(d))
<1> DEFINE l == c.lines  m == d.lines
<1>1. l \in Seq(Vals) /\ m \in Seq(Vals) /\ Len(l) \in Nat /\ Len(m) \in Nat OBVIOUS
<1>2. /\ Parse(l) \in Seq(Vals) /\ Parse(m) \in Seq(Vals)
      /\ ParseTail(c.tail) \in Seq(Vals) /\ ParseTail(d.tail) \in Seq(Vals)
      /\ Parsed(c) \in Seq(Vals) /\ Parsed(d) \in Seq(Vals)
  BY ParsedTypes
<1>3. Parsed(c) = Parse(l) \o ParseTail(c.tail) /\ Parsed(d) = Parse(m) \o ParseTail(d.tail)
  BY DEF Parsed
<1>4. IsPrefix(l, m) BY DEF Grows
<1>5. Len(l) <= Len(m) /\ \A i \in 1 .. Len(l) : l[i] = m[i]
  <2> HIDE DEF l, m
  <2> QED BY <1>1, <1>4, PrefixIs
<1>6. IsPrefix(Parse(m), Parsed(d))
  <2> HIDE DEF l, m
  <2> QED BY <1>2, <1>3, PrefixOfCat
<1>7. CASE ParseTail(c.tail) = <<>>
  <2> HIDE DEF l, m
  <2>1. Parsed(c) = Parse(l) BY <1>2, <1>3, <1>7, CatNothing
  <2>2. IsPrefix(Parse(l), Parse(m)) BY <1>1, <1>4, ParsePrefix
  <2> QED BY <1>2, <1>6, <2>1, <2>2, PrefixOn
<1>8. CASE ParseTail(c.tail) # <<>>
  <2>1. c.tail # None /\ c.tail.whole BY <1>8 DEF ParseTail
  <2> DEFINE v == c.tail.val
  <2>2. v \in Vals /\ ParseTail(c.tail) = Parse(<<v>>) BY <2>1 DEF ParseTail, Tails
  <2>3. CASE Len(m) > Len(l) /\ m[Len(l) + 1] = v
    <3> HIDE DEF l, m, v
    <3> DEFINE a == Append(l, v)
    <3>1. a \in Seq(Vals) /\ IsPrefix(a, m)
      <4>1. a \in Seq(Vals) /\ Len(a) = Len(l) + 1 /\ a[Len(l) + 1] = v
            /\ \A i \in 1 .. Len(l) : a[i] = l[i]
        BY <1>1, <2>2
      <4>2. Len(a) <= Len(m) /\ \A i \in 1 .. Len(a) : a[i] = m[i] BY <1>1, <1>5, <2>3, <4>1
      <4> HIDE DEF a
      <4> QED BY <1>1, <4>1, <4>2, PrefixIs
    <3>2. Parsed(c) = Parse(a) BY <1>1, <1>3, <2>2, ParseAppend
    <3> HIDE DEF a
    <3>3. IsPrefix(Parse(a), Parse(m)) BY <1>1, <3>1, ParsePrefix
    <3> QED BY <1>2, <1>6, <3>2, <3>3, PrefixOn
  <2>4. CASE /\ Len(m) = Len(l)
             /\ d.tail # None /\ d.tail.val = v /\ d.tail.whole
    <3>1. l = m
      <4> HIDE DEF l, m
      <4> QED BY <1>1, <1>5, <2>4
    <3>2. ParseTail(d.tail) = ParseTail(c.tail) BY <2>1, <2>2, <2>4 DEF ParseTail
    <3>3. Parsed(c) = Parsed(d) BY <1>3, <3>1, <3>2
    <3>4. Len(Parsed(d)) <= Len(Parsed(d)) BY <1>2
    <3> QED BY <1>2, <3>3, <3>4, PrefixIs
  <2>5. \/ Len(m) > Len(l) /\ m[Len(l) + 1] = v
        \/ /\ Len(m) = Len(l)
           /\ d.tail # None /\ d.tail.val = v /\ d.tail.whole
    BY <2>1 DEF Grows
  <2> QED BY <2>3, <2>4, <2>5
<1> QED BY <1>7, <1>8

\* Whatever Claude writes, the file goes on where it ended.
LEMMA ClaudeGrows ==
  ASSUME Types, ClaudeWrites
  PROVE  src # None => Grows(Content(src), Content(src'))
<1> SUFFICES ASSUME src # None PROVE Grows(Content(src), Content(src')) OBVIOUS
<1> DEFINE c == Content(src)
<1>1. c \in Bytes
  <2>1. src \in Sources BY DEF Types
  <2> QED BY <2>1, ContentTypes
<1>2. PICK v \in IF c.tail = None THEN Vals ELSE {c.tail.val} :
       \/ WriteSource([lines |-> Append(c.lines, v), tail |-> None])
       \/ \E w \in BOOLEAN :
            /\ c.tail # None => ~c.tail.whole /\ w
            /\ WriteSource([c EXCEPT !.tail = [val |-> v, whole |-> w]])
  BY DEF ClaudeWrites
<1> HIDE DEF c
<1>3. v \in Vals /\ (c.tail # None => v = c.tail.val)
  <2>1. CASE c.tail = None BY <1>2, <2>1
  <2>2. CASE c.tail # None
    <3>1. c.tail \in [val : Vals, whole : BOOLEAN] BY <1>1, <2>2 DEF Tails
    <3> QED BY <1>2, <2>2, <3>1
  <2> QED BY <2>1, <2>2
<1>4. c.lines \in Seq(Vals) BY <1>1
<1>5. CASE WriteSource([lines |-> Append(c.lines, v), tail |-> None])
  <2> DEFINE a == Append(c.lines, v)
  <2>1. Content(src') = [lines |-> a, tail |-> None] BY <1>5 DEF WriteSource, Content
  <2>2. a \in Seq(Vals) /\ Len(c.lines) \in Nat /\ Len(a) = Len(c.lines) + 1
        /\ a[Len(c.lines) + 1] = v /\ \A i \in 1 .. Len(c.lines) : c.lines[i] = a[i]
    BY <1>3, <1>4
  <2> HIDE DEF a
  <2>3. IsPrefix(c.lines, a) BY <1>4, <2>2, PrefixIs
  <2>4. Grows(c, [lines |-> a, tail |-> None]) BY <1>3, <2>2, <2>3 DEF Grows
  <2> QED BY <2>1, <2>4 DEF c
<1>6. CASE \E w \in BOOLEAN :
            /\ c.tail # None => ~c.tail.whole /\ w
            /\ WriteSource([c EXCEPT !.tail = [val |-> v, whole |-> w]])
  <2>1. PICK w \in BOOLEAN :
            /\ c.tail # None => ~c.tail.whole /\ w
            /\ WriteSource([c EXCEPT !.tail = [val |-> v, whole |-> w]])
    BY <1>6
  <2> DEFINE t == [val |-> v, whole |-> w]
  <2>2. Content(src') = [lines |-> c.lines, tail |-> t] BY <1>1, <2>1 DEF WriteSource, Content
  <2>3. t # None /\ t.val = v /\ t.whole = w
    <3>1. t \in [val : Vals, whole : BOOLEAN] BY <1>3
    <3> QED BY <3>1, NoneAssumption
  <2> HIDE DEF t
  <2>4. IsPrefix(c.lines, c.lines)
    <3>1. Len(c.lines) <= Len(c.lines) BY <1>4
    <3> QED BY <1>4, <3>1, PrefixIs
  <2>5. Grows(c, [lines |-> c.lines, tail |-> t]) BY <1>3, <2>1, <2>3, <2>4 DEF Grows
  <2> QED BY <2>2, <2>5 DEF c
<1>7. \/ WriteSource([lines |-> Append(c.lines, v), tail |-> None])
      \/ \E w \in BOOLEAN :
            /\ c.tail # None => ~c.tail.whole /\ w
            /\ WriteSource([c EXCEPT !.tail = [val |-> v, whole |-> w]])
  BY <1>2
<1> QED BY <1>5, <1>6, <1>7

\* The contents in a state, each of its type.
LEMMA PlacesTyped ==
  ASSUME Types
  PROVE  /\ src # None => Content(src) \in Bytes
         /\ file # None => Content(file) \in Bytes
         /\ Content(mirror) \in Bytes /\ read.content \in Bytes
<1>1. /\ src # None => src \in Sources
      /\ file # None => file \in Files
      /\ mirror \in Passes /\ read \in Reads
  BY DEF Types
<1>2. read.content \in Bytes BY <1>1 DEF Reads
<1> QED BY <1>1, <1>2, ContentTypes

LEMMA ChainStep ==
  ASSUME Types, Types', KeptIsParsed, Chain, [Next]_vars, rewrites' = 0
  PROVE  Chain'
<1>0. rewrites = 0 /\ ~CopyRewritten
  BY TamperCounts
<1>1. CASE ClaudeWrites
  <2>1. PICK c \in Bytes : WriteSource(c) BY <1>1, ClaudeWritesSome
  <2>2. src' # None BY <2>1, WriteSourceTypes
  <2>3. UNCHANGED <<mirror, file, read>> BY <2>1 DEF WriteSource, cache
  <2>4. src # None => Grows(Content(src), Content(src')) BY <1>1, ClaudeGrows
  <2>5. Content(src') \in Bytes
    <3>1. src' \in Sources BY <2>1, WriteSourceTypes
    <3> QED BY <3>1, ContentTypes
  <2>6. file # None => Grows(Content(file), Content(src'))
    <3> SUFFICES ASSUME file # None PROVE Grows(Content(file), Content(src')) OBVIOUS
    <3>1. src # None /\ Grows(Content(file), Content(src)) BY DEF Chain
    <3> QED BY <2>4, <2>5, <3>1, PlacesTyped, GrowsOn
  <2>7. mirror.pc = "move" => Grows(Content(mirror), Content(src'))
    <3> SUFFICES ASSUME mirror.pc = "move" PROVE Grows(Content(mirror), Content(src')) OBVIOUS
    <3>1. src # None /\ Grows(Content(mirror), Content(src)) BY DEF Chain, Types
    <3> QED BY <2>4, <2>5, <3>1, PlacesTyped, GrowsOn
  <2> QED BY <2>2, <2>3, <2>6, <2>7 DEF Chain
<1>2. CASE Tick \/ Forgotten
  <2>1. UNCHANGED <<src, mirror, file, read>> BY <1>2 DEF Tick, Forgotten, cache
  <2> QED BY <2>1 DEF Chain
<1>3. CASE MirrorStarts
  <2>1. UNCHANGED <<src, file, read>> /\ mirror'.pc = "copy"
    BY <1>3 DEF MirrorStarts, NoPass, cache
  <2> QED BY <2>1 DEF Chain
<1>4. CASE MirrorCopies
  <2>1. UNCHANGED <<src, file, read>> /\ src # None BY <1>4 DEF MirrorCopies, Types, cache
  <2>2. Content(mirror') = Content(src) BY <1>4 DEF MirrorCopies, Types, Passes, Content
  <2>3. Grows(Content(src), Content(src)) BY <2>1, PlacesTyped, GrowsSelf
  <2> QED BY <2>1, <2>2, <2>3 DEF Chain
<1>5. CASE MirrorMoves
  <2>1. UNCHANGED <<src, read>> /\ mirror'.pc = "idle" /\ mirror.pc = "move"
    BY <1>5 DEF MirrorMoves, NoPass, cache
  <2>2. Content(file') = Content(mirror) BY <1>5 DEF MirrorMoves, Content
  <2>3. file' # None
    <3>1. file' \in Files
      <4>1. FreeInode \in Nat BY FreeInodeIs
      <4>2. mirror \in Passes BY DEF Types
      <4> QED BY <1>5, <4>1, <4>2 DEF MirrorMoves, Passes, Files
    <3> QED BY <3>1, NoneAssumption DEF Files
  <2>4. src # None /\ Grows(Content(mirror), Content(src)) BY <2>1 DEF Chain, Types
  <2>5. read.pc = "opened" => Grows(read.content, Content(mirror))
    <3> SUFFICES ASSUME read.pc = "opened" PROVE Grows(read.content, Content(mirror)) OBVIOUS
    <3>1. file # None /\ Grows(read.content, Content(file)) BY DEF Chain
    <3>2. Grows(Content(file), Content(mirror)) BY <2>1, <3>1 DEF Chain
    <3> QED BY <3>1, <3>2, PlacesTyped, GrowsOn
  <2> QED BY <2>1, <2>2, <2>3, <2>4, <2>5 DEF Chain
<1>6. CASE ReadOpens
  <2>1. UNCHANGED <<src, mirror, file>> /\ file # None BY <1>6 DEF ReadOpens
  <2>2. UNCHANGED read \/ read'.content = Content(file) BY <1>6 DEF ReadOpens
  <2>3. Grows(Content(file), Content(file)) BY <2>1, PlacesTyped, GrowsSelf
  <2> QED BY <2>1, <2>2, <2>3 DEF Chain
<1>7. CASE ReadFinishes
  <2>1. UNCHANGED <<src, mirror, file>> /\ read'.pc = "idle" BY <1>7, FinishIs DEF NoRead
  <2> QED BY <2>1 DEF Chain
<1>8. CASE MirrorFails
  <2>1. UNCHANGED <<src, file, read>> /\ mirror'.pc = "idle"
    BY <1>8 DEF MirrorFails, NoPass, cache
  <2> QED BY <2>1 DEF Chain
<1>9. CASE UNCHANGED vars BY <1>9 DEF vars, cache, Chain
<1> QED
  BY <1>0, <1>1, <1>2, <1>3, <1>4, <1>5, <1>6, <1>7, <1>8, <1>9 DEF Next, Mirror, Read

\* What the last answer was made of, and what the next one is.
LEMMA AnsweredStep ==
  ASSUME GrowInv, Types', Chain', [Next]_vars, rewrites' = 0
  PROVE  Answered' /\ IsPrefix(seen, seen')
<1>0. /\ rewrites = 0 /\ ~CopyRewritten
      /\ Types /\ KeptIsParsed /\ CacheInv /\ Chain /\ Answered
  <2>1. Types BY DEF GrowInv, ReadInv
  <2>2. rewrites = 0 /\ ~CopyRewritten BY <2>1, TamperCounts
  <2> QED BY <2>1, <2>2 DEF GrowInv, ReadInv, Calm
<1>1. PICK d \in Bytes : seen = Parsed(d) /\ Behind(d) BY <1>0 DEF Answered
<1>2. IsPrefix(seen, seen)
  <2>1. seen \in Seq(Vals) BY <1>1, ParsedTypes
  <2>2. Len(seen) <= Len(seen) BY <2>1
  <2> QED BY <2>1, <2>2, PrefixIs
<1>3. ASSUME UNCHANGED seen, Behind(d)' PROVE Answered' /\ IsPrefix(seen, seen')
  <2>1. Answered' BY <1>1, <1>3 DEF Answered
  <2> QED BY <1>2, <1>3, <2>1
\* The answer is of a content that is behind all the rest.
<1>4. ASSUME NEW c \in Bytes, seen' = Parsed(c), Grows(d, c), Behind(c)'
      PROVE  Answered' /\ IsPrefix(seen, seen')
  <2>1. IsPrefix(Parsed(d), Parsed(c)) BY <1>4, GrowsParsed
  <2>2. Answered' BY <1>4 DEF Answered
  <2> QED BY <1>1, <1>4, <2>1, <2>2
<1>5. CASE ClaudeWrites
  <2>1. PICK c \in Bytes : WriteSource(c) BY <1>0, <1>5, ClaudeWritesSome
  <2>2. UNCHANGED <<mirror, file, read, seen>> BY <2>1 DEF WriteSource, cache
  <2>3. Content(src') \in Bytes
    <3>1. src' \in Sources BY <1>0, <2>1, WriteSourceTypes
    <3> QED BY <3>1, ContentTypes
  <2>4. Grows(d, Content(src'))
    <3>1. CASE src = None
      <4>1. d = NoContent BY <1>1, <3>1 DEF Behind
      <4> QED BY <2>3, <4>1, NothingGrows
    <3>2. CASE src # None
      <4>1. Grows(d, Content(src)) BY <1>1, <3>2 DEF Behind
      <4>2. Grows(Content(src), Content(src')) BY <1>0, <1>5, <3>2, ClaudeGrows
      <4>3. Content(src) \in Bytes BY <1>0, <3>2, PlacesTyped
      <4> QED BY <2>3, <4>1, <4>2, <4>3, GrowsOn
    <3> QED BY <3>1, <3>2
  <2>5. src' # None BY <1>0, <2>1, WriteSourceTypes
  <2>6. Behind(d)' BY <1>1, <2>2, <2>4, <2>5 DEF Behind
  <2> QED BY <1>3, <2>2, <2>6
<1>6. CASE Tick \/ Forgotten
  <2>1. UNCHANGED <<src, mirror, file, read, seen>> BY <1>6 DEF Tick, Forgotten, cache
  <2>2. Behind(d)' BY <1>1, <2>1 DEF Behind
  <2> QED BY <1>3, <2>1, <2>2
<1>7. CASE MirrorStarts
  <2>1. UNCHANGED <<src, file, read, seen>> /\ mirror'.pc = "copy"
    BY <1>7 DEF MirrorStarts, NoPass, cache
  <2>2. Behind(d)' BY <1>1, <2>1 DEF Behind
  <2> QED BY <1>3, <2>1, <2>2
<1>8. CASE MirrorCopies
  <2>1. UNCHANGED <<src, file, read, seen>> /\ src # None
    BY <1>0, <1>8 DEF MirrorCopies, Types, cache
  <2>2. Content(mirror') = Content(src) BY <1>0, <1>8 DEF MirrorCopies, Types, Passes, Content
  <2>3. Behind(d)' BY <1>1, <2>1, <2>2 DEF Behind
  <2> QED BY <1>3, <2>1, <2>3
<1>9. CASE MirrorMoves
  <2>1. UNCHANGED <<src, read, seen>> /\ mirror'.pc = "idle" /\ mirror.pc = "move"
    BY <1>9 DEF MirrorMoves, NoPass, cache
  <2>2. Content(file') = Content(mirror) BY <1>9 DEF MirrorMoves, Content
  <2>3. Behind(d)' BY <1>1, <2>1, <2>2 DEF Behind
  <2> QED BY <1>3, <2>1, <2>3
<1>10. CASE ReadOpens
  <2>1. UNCHANGED <<src, mirror, file, kept>> /\ file # None BY <1>10 DEF ReadOpens
  <2>2. PICK c \in Bytes : c = Content(file) BY <1>0, <2>1, PlacesTyped
  <2>3. Grows(d, c) BY <1>1, <2>1, <2>2 DEF Behind
  <2>4. CASE kept # None /\ kept.stamp = StampOf(file) /\ kept.settled
    <3>1. Answer(kept.objs \o kept.tail, Content(file)) /\ UNCHANGED read /\ read.pc = "idle"
      BY <1>10, <2>4 DEF ReadOpens
    <3>2. kept.objs \o kept.tail = Parsed(Content(file)) BY <1>0, <2>1, <2>4, CachedIsFile
    <3>3. seen' = Parsed(c) BY <2>2, <3>1, <3>2 DEF Answer
    <3>4. Grows(c, c) BY GrowsSelf
    <3>5. Behind(c)' BY <1>0, <2>1, <2>2, <3>1, <3>4 DEF Behind, Chain
    <3> QED BY <1>4, <2>3, <3>3, <3>5
  <2>5. CASE ~(kept # None /\ kept.stamp = StampOf(file) /\ kept.settled)
    <3>1. read'.content = Content(file) /\ UNCHANGED seen BY <1>10, <2>5 DEF ReadOpens
    <3>2. Behind(d)' BY <1>1, <2>1, <2>2, <2>3, <3>1 DEF Behind
    <3> QED BY <1>3, <3>1, <3>2
  <2> QED BY <2>4, <2>5
<1>11. CASE ReadFinishes
  <2>1. /\ UNCHANGED <<src, mirror, file>> /\ read.pc = "opened" /\ read'.pc = "idle"
        /\ seen' = Parsed(read.content)
    BY <1>0, <1>11, FinishIs DEF NoRead
  <2>2. PICK c \in Bytes : c = read.content BY <1>0, PlacesTyped
  <2>3. file # None /\ Grows(c, Content(file)) BY <1>0, <2>1, <2>2 DEF Chain
  <2>4. src # None /\ Grows(c, Content(src))
    <3>1. src # None /\ Grows(Content(file), Content(src)) BY <1>0, <2>3 DEF Chain
    <3> QED BY <1>0, <2>3, <3>1, PlacesTyped, GrowsOn
  <2>5. mirror.pc = "move" => Grows(c, Content(mirror))
    <3> SUFFICES ASSUME mirror.pc = "move" PROVE Grows(c, Content(mirror)) OBVIOUS
    <3>1. Grows(Content(file), Content(mirror)) BY <1>0, <2>3 DEF Chain
    <3> QED BY <1>0, <2>3, <3>1, PlacesTyped, GrowsOn
  <2>6. Grows(d, c) BY <1>1, <2>1, <2>2 DEF Behind
  <2>7. Behind(c)' BY <2>1, <2>3, <2>4, <2>5 DEF Behind
  <2>8. seen' = Parsed(c) BY <2>1, <2>2
  <2> QED BY <1>4, <2>6, <2>7, <2>8
<1>12. CASE MirrorFails
  <2>1. UNCHANGED <<src, file, read, seen>> /\ mirror'.pc = "idle"
    BY <1>12 DEF MirrorFails, NoPass, cache
  <2>2. Behind(d)' BY <1>1, <2>1 DEF Behind
  <2> QED BY <1>3, <2>1, <2>2
<1>13. CASE UNCHANGED vars
  <2>1. UNCHANGED <<src, mirror, file, read, seen>> BY <1>13 DEF vars, cache
  <2>2. Behind(d)' BY <1>1, <2>1 DEF Behind
  <2> QED BY <1>3, <2>1, <2>2
<1> QED
  BY <1>0, <1>5, <1>6, <1>7, <1>8, <1>9, <1>10, <1>11, <1>12, <1>13 DEF Next, Mirror, Read

LEMMA GrowInvStep == GrowInv /\ [Next]_vars => GrowInv'
<1> SUFFICES ASSUME GrowInv, [Next]_vars PROVE GrowInv' OBVIOUS
<1>1. ReadInv' BY ReadInvStep DEF GrowInv
<1>2. ASSUME rewrites' = 0 PROVE Chain' /\ Answered'
  <2>1. Types /\ Types' /\ KeptIsParsed BY <1>1 DEF GrowInv, ReadInv
  <2>2. rewrites = 0 BY <1>2, <2>1, TamperCounts
  <2>3. Chain' BY <1>2, <2>1, <2>2, ChainStep DEF GrowInv
  <2> QED BY <1>2, <2>1, <2>3, AnsweredStep
<1> QED BY <1>1, <1>2 DEF GrowInv

LEMMA GrowInvInit == Init => GrowInv
<1> SUFFICES ASSUME Init PROVE GrowInv OBVIOUS
<1>1. Chain BY DEF Init, NoPass, NoRead, Chain
<1>2. NoContent \in Bytes BY DEF NoContent, Tails
<1>3. Parsed(NoContent) = <<>>
  <2>1. Parse(<<>>) = Objs(<<>>)[Len(<<>>)] BY ParseIs
  <2>2. Objs(<<>>)[0] = <<>> BY ObjsStart
  <2>3. Parse(<<>>) = <<>> BY <2>1, <2>2
  <2>4. Parsed(NoContent) = <<>> \o <<>> BY <2>3 DEF Parsed, ParseTail, NoContent
  <2> QED BY <2>4
<1>4. Behind(NoContent) BY DEF Init, NoPass, NoRead, Behind
<1>5. seen = <<>> BY DEF Init
<1>6. Answered BY <1>2, <1>3, <1>4, <1>5 DEF Answered
<1> QED BY <1>1, <1>6, ReadInvInit DEF GrowInv

\* The rename's promise, seen from a reader: while the source only grows and nobody else
\* writes the copy, an answer goes on where the one before it ended, whatever is kept and
\* however the mirror's passes and the reads fall, also where passes fail. It holds with the fault let in, too.
THEOREM AnswersGoOn == Spec => NeverUnsays
<1>1. Init => GrowInv BY GrowInvInit
<1>2. GrowInv /\ [Next]_vars => GrowInv' BY GrowInvStep
<1>3. GrowInv /\ [Next]_vars => [rewrites = 0 => IsPrefix(seen, seen')]_vars
  <2> SUFFICES ASSUME GrowInv, [Next]_vars, rewrites = 0 PROVE IsPrefix(seen, seen') OBVIOUS
  <2>1. GrowInv' BY <1>2
  <2>2. CASE rewrites' = 0
    <3>1. Types' /\ Chain' BY <2>1, <2>2 DEF GrowInv, ReadInv
    <3> QED BY <2>2, <3>1, AnsweredStep
  <2>3. CASE rewrites' # 0
    <3>1. CopyRewritten \/ rewrites' = rewrites
      BY DEF Next, Mirror, Read, ClaudeWrites, Tick, MirrorStarts, MirrorCopies,
        MirrorMoves, MirrorFails, ReadOpens, ReadFinishes, Forgotten, vars
    <3>2. UNCHANGED seen BY <2>3, <3>1 DEF CopyRewritten, cache
    <3>3. PICK d \in Bytes : seen = Parsed(d) BY DEF GrowInv, Answered
    <3>4. seen \in Seq(Vals) BY <3>3, ParsedTypes
    <3>5. Len(seen) <= Len(seen) BY <3>4
    <3>6. IsPrefix(seen, seen) BY <3>4, <3>5, PrefixIs
    <3> QED BY <3>2, <3>6
  <2> QED BY <2>2, <2>3
<1> QED BY <1>1, <1>2, <1>3, PTL DEF Spec, NeverUnsays

=============================================================================
