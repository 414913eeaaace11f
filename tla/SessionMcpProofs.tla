-------------------------- MODULE SessionMcpProofs --------------------------
(***************************************************************************)
(* Proofs about SessionMcp, for every number of servers, URLs, calls and   *)
(* starts: with none of the rare orders of FaultKinds, no step takes away  *)
(* what .claude.json holds, and nobody takes a server for usable that the  *)
(* running Claude has not loaded.                                          *)
(***************************************************************************)
EXTENDS SessionMcp, TLAPS

USE DEF vars, container, script, history

\* No two of the seed's copy, the scripts and Claude come between each other.
Apart == Faults \cap {"overlap", "slowcopy", "ownwrite"} = {}

States == [own : SUBSET {"seed", "login"}, servers : Entries]
Jobs   == [server : Servers, url : Urls]
Places == {"idle", "check", "token", "compare", "edit", "move", "done", "failed", "over"}

Typed ==
  /\ state \in States \cup {None} /\ (state # None => state \in States)
  /\ pc \in [Calls -> Places]
  /\ job \in [Calls -> Jobs \cup {None}] /\ draft \in [Calls -> States \cup {None}]
  /\ \A k \in Calls : Running(k) => job[k] \in Jobs

\* One script at a time, for "overlap" is not let happen.
OneScript == \A j, k \in Calls : Running(j) /\ Running(k) => j = k

\* Behind its first question a script knows that no seed waits, and later that there is
\* a state; so none is there while the first start copies the seed.
PastSeed ==
  \A k \in Calls :
    /\ pc[k] \in {"token", "compare"} => state # None \/ ~seed
    /\ pc[k] \in {"edit", "move"} => state # None
CopyAlone ==
  up = "copy" => /\ seed /\ state = Blank /\ claude = None
                 /\ \A k \in Calls : pc[k] \notin {"token", "compare", "edit", "move"}
ClaudeInside == claude # None => up = "up"
Seeded       == up = "up" /\ seed => state # None

\* What a script is about to move holds all that is there.
DraftHolds ==
  \A k \in Calls : pc[k] = "move" =>
    /\ draft[k] \in States /\ state.own \subseteq draft[k].own
    /\ \A s \in Servers : state.servers[s] # None => draft[k].servers[s] # None

Safe == Typed /\ OneScript /\ PastSeed /\ CopyAlone /\ ClaudeInside /\ Seeded /\ DraftHolds

Kept == Own \subseteq Own' /\ Held \subseteq Held'

LEMMA BlankType ==
  /\ None \notin States
  /\ Blank \in States /\ Blank.own = {} /\ \A s \in Servers : Blank.servers[s] = None
  /\ [Blank EXCEPT !.own = {"seed"}] \in States /\ [Blank EXCEPT !.own = {"seed"}].own = {"seed"}
  /\ [Blank EXCEPT !.own = {"login"}] \in States
<1>1. None \notin States BY NoneAssumption DEF States, Entries
<1>2. Blank \in States /\ Blank.own = {} /\ \A s \in Servers : Blank.servers[s] = None
  BY DEF Blank, States, Entries, NoEntry
<1> QED BY <1>1, <1>2 DEF Blank, States, Entries, NoEntry

LEMMA SafeInit == Init => Safe
BY DEF Init, Safe, Typed, OneScript, PastSeed, CopyAlone, ClaudeInside, Seeded, DraftHolds, Running, Script, Places

\* A step that leaves the state and the seed alone, and does not end a copy, keeps all.
LEMMA SameState ==
  ASSUME state' = state, seed' = seed, up = "copy" => up' = "copy"
  PROVE  Kept
BY DEF Kept, Own, Held

-----------------------------------------------------------------------------
(* The session                                                             *)

LEMMA SeedInstallsSafe == ASSUME Safe, SeedInstalls PROVE Safe' /\ Kept
<1>1. CASE state = None /\ seed
  <2>1. up' = "copy" /\ state' = Blank /\ claude = None /\ claude' = None /\ seed' = seed /\ UNCHANGED script
    BY <1>1 DEF SeedInstalls, Safe, ClaudeInside
  <2>2. \A k \in Calls : pc[k] \notin {"token", "compare", "edit", "move"}
    BY <1>1 DEF Safe, PastSeed
  <2>3. Typed' BY <2>1, BlankType DEF Safe, Typed, Running
  <2>4. Safe'
    BY <1>1, <2>1, <2>2, <2>3
    DEF Safe, OneScript, PastSeed, CopyAlone, ClaudeInside, Seeded, DraftHolds, Running
  <2>5. Kept BY <1>1, <2>1 DEF Kept, Own, Held
  <2> QED BY <2>4, <2>5
<1>2. CASE ~(state = None /\ seed)
  <2>1. up = "boot" /\ up' = "up" /\ UNCHANGED <<state, seed, claude, script>>
    BY <1>2 DEF SeedInstalls
  <2>2. Safe'
    BY <1>2, <2>1 DEF Safe, Typed, OneScript, PastSeed, CopyAlone, ClaudeInside, Seeded, DraftHolds, Running
  <2> QED BY <2>1, <2>2, SameState
<1> QED BY <1>1, <1>2

LEMMA SeedCopiedSafe == ASSUME Safe, SeedCopied PROVE Safe' /\ Kept
<1>1. /\ up = "copy" /\ up' = "up" /\ state = Blank /\ claude = None /\ claude' = None
      /\ state' = [Blank EXCEPT !.own = {"seed"}] /\ seed' = seed /\ UNCHANGED script
      /\ \A k \in Calls : pc[k] \notin {"token", "compare", "edit", "move"}
  BY DEF SeedCopied, Safe, CopyAlone
<1>2. state' \in States /\ state'.own = {"seed"} /\ state # None /\ seed
  BY <1>1, BlankType DEF SeedCopied, Safe, CopyAlone
<1>3. Typed' BY <1>1, <1>2 DEF Safe, Typed, Running
<1>4. Safe'
  BY <1>1, <1>2, <1>3, BlankType DEF Safe, OneScript, PastSeed, CopyAlone, ClaudeInside, Seeded, DraftHolds, Running
<1>5. Kept BY <1>1, <1>2, BlankType DEF Kept, Own, Held
<1> QED BY <1>4, <1>5

LEMMA ContainerStopsSafe == ASSUME Apart, Safe, ContainerStops PROVE Safe' /\ Kept
<1>1. /\ up # "copy" /\ up' = "down" /\ claude' = None
      /\ UNCHANGED <<state, seed, job, draft>>
  BY DEF ContainerStops, NotCopying, Apart
<1>2. /\ pc' \in [Calls -> Places]
      /\ \A k \in Calls : pc'[k] = pc[k] \/ pc'[k] \in {"over", "failed"}
  BY DEF ContainerStops, Safe, Typed, Places
<1>3. Safe'
  BY <1>1, <1>2
  DEF Safe, Typed, OneScript, PastSeed, CopyAlone, ClaudeInside, Seeded, DraftHolds, Running, Script
<1> QED BY <1>1, <1>3, SameState

\* The steps of the container and of Claude that leave .claude.json alone.
LEMMA OutsideSafe ==
  ASSUME Safe, ContainerStarts \/ ClaudeStarts \/ ClaudeExits
  PROVE  Safe' /\ Kept
<1>1. UNCHANGED <<state, seed, script>> /\ (up = "copy" => up' = "copy")
      /\ (up' = "copy" => up = "copy")
  BY DEF ContainerStarts, ClaudeStarts, ClaudeExits
<1>2. ClaudeInside'
  BY DEF ContainerStarts, ClaudeStarts, ClaudeExits, Safe, ClaudeInside
<1>3. CopyAlone'
  BY <1>1 DEF ContainerStarts, ClaudeStarts, ClaudeExits, Safe, CopyAlone
<1>4. Seeded'
  BY <1>1 DEF ContainerStarts, ClaudeStarts, ClaudeExits, Safe, Seeded
<1>5. Safe' BY <1>1, <1>2, <1>3, <1>4 DEF Safe, Typed, OneScript, PastSeed, DraftHolds, Running
<1> QED BY <1>1, <1>5, SameState

LEMMA ClaudeWritesSafe == ASSUME Apart, Safe, ClaudeWrites PROVE Safe' /\ Kept
<1>1. /\ claude # None /\ up = "up" /\ UNCHANGED <<container, script>>
      /\ \A k \in Calls : pc[k] # "move"
  BY DEF ClaudeWrites, Safe, ClaudeInside, Apart
<1>2. /\ state' \in States
      /\ (state # None => state.own \subseteq state'.own /\ state'.servers = state.servers)
      /\ (state = None => state' = [Blank EXCEPT !.own = {"login"}])
  BY BlankType DEF ClaudeWrites, Safe, Typed, States
<1>3. state' # None BY <1>2, BlankType
<1>4. Safe'
  BY <1>1, <1>2, <1>3
  DEF Safe, Typed, OneScript, PastSeed, CopyAlone, ClaudeInside, Seeded, DraftHolds, Running
<1>5. seed => state # None BY <1>1 DEF Safe, Seeded
<1>6. Own \subseteq Own' BY <1>1, <1>2, <1>3, <1>5 DEF Own
<1>7. Held \subseteq Held' BY <1>2, <1>3 DEF Held
<1> QED BY <1>4, <1>6, <1>7 DEF Kept

-----------------------------------------------------------------------------
(* The script                                                              *)

\* A step of the script that leaves .claude.json alone, to a place after its first
\* question only when no seed waits.
LEMMA ScriptGoesOn ==
  ASSUME Safe, NEW k \in Calls, NEW to \in Places \ {"check", "move"},
         pc' = [pc EXCEPT ![k] = to], UNCHANGED <<state, job, draft, container>>,
         to \in Script => Running(k),
         to \in {"token", "compare"} => state # None \/ ~seed, to = "edit" => state # None,
         up = "copy" => to \notin Script
  PROVE  Safe' /\ Kept
<1>1. pc' \in [Calls -> Places] /\ pc'[k] = to /\ \A j \in Calls \ {k} : pc'[j] = pc[j]
  BY DEF Safe, Typed
<1>2. Typed' BY <1>1 DEF Safe, Typed, Running
<1>3. OneScript' BY <1>1 DEF Safe, OneScript, Running
<1>4. PastSeed' BY <1>1 DEF Safe, PastSeed
<1>5. CopyAlone' BY <1>1 DEF Safe, CopyAlone, Script
<1>6. DraftHolds' BY <1>1 DEF Safe, DraftHolds
<1>7. Safe' BY <1>2, <1>3, <1>4, <1>5, <1>6 DEF Safe, ClaudeInside, Seeded
<1> QED BY <1>7, SameState

LEMMA CallStartsSafe ==
  ASSUME Apart, Safe, NEW k \in Calls, CallStarts(k)
  PROVE  Safe' /\ Kept
<1>1. /\ \A j \in Calls : ~Running(j)
      /\ pc' = [pc EXCEPT ![k] = "check"] /\ UNCHANGED <<container, state, draft>>
  BY DEF CallStarts, Step, Apart
<1>2. PICK s \in Servers, u \in Urls : job' = [job EXCEPT ![k] = [server |-> s, url |-> u]]
  BY DEF CallStarts
<1>3. pc' \in [Calls -> Places] /\ pc'[k] = "check" /\ \A j \in Calls \ {k} : pc'[j] = pc[j]
  BY <1>1 DEF Safe, Typed, Places
<1>4. job' \in [Calls -> Jobs \cup {None}] /\ job'[k] \in Jobs
  BY <1>2 DEF Safe, Typed, Jobs
<1>5. Typed' BY <1>1, <1>3, <1>4 DEF Safe, Typed, Running
<1>6. OneScript' BY <1>1, <1>3 DEF OneScript, Running
<1>7. PastSeed' /\ CopyAlone' /\ DraftHolds'
  BY <1>1, <1>3 DEF Safe, PastSeed, CopyAlone, DraftHolds
<1>8. Safe' BY <1>1, <1>5, <1>6, <1>7 DEF Safe, ClaudeInside, Seeded
<1> QED BY <1>1, <1>8, SameState

LEMMA ScriptChecksSafe ==
  ASSUME Apart, Safe, NEW k \in Calls, ScriptChecks(k)
  PROVE  Safe' /\ Kept
<1>1. up # "copy" /\ Running(k) /\ UNCHANGED <<state, job, draft, container>>
  BY DEF ScriptChecks, NotCopying, Step, Running, Script, Apart
<1>2. CASE state = None /\ seed
  <2>1. pc' = [pc EXCEPT ![k] = "failed"] BY <1>2 DEF ScriptChecks, Step
  <2> QED BY <1>1, <2>1, ScriptGoesOn DEF Places, Script
<1>3. CASE ~(state = None /\ seed)
  <2>1. pc' = [pc EXCEPT ![k] = "token"] BY <1>3 DEF ScriptChecks, Step
  <2> QED BY <1>1, <1>3, <2>1, ScriptGoesOn DEF Places
<1> QED BY <1>2, <1>3

LEMMA ScriptKeepsTokenSafe ==
  ASSUME Safe, NEW k \in Calls, ScriptKeepsToken(k)
  PROVE  Safe' /\ Kept
<1>1. pc[k] = "token" /\ pc' = [pc EXCEPT ![k] = "compare"]
      /\ UNCHANGED <<state, job, draft, container>>
  BY DEF ScriptKeepsToken, Step
<1>2. up # "copy" /\ (state # None \/ ~seed) /\ Running(k)
  BY <1>1 DEF Safe, CopyAlone, PastSeed, Running, Script
<1> QED BY <1>1, <1>2, ScriptGoesOn DEF Places

\* An empty state takes the place of none only where no seed waits.
LEMMA ScriptComparesSafe ==
  ASSUME Safe, NEW k \in Calls, ScriptCompares(k)
  PROVE  Safe' /\ Kept
<1>1. /\ pc[k] = "compare" /\ UNCHANGED <<job, draft, container>> /\ Running(k)
      /\ up # "copy" /\ (state # None \/ ~seed)
      /\ state' = IF state = None THEN Blank ELSE state
  BY DEF ScriptCompares, Safe, CopyAlone, PastSeed, Running, Script
<1>2. PICK to \in {"done", "edit"} : pc' = [pc EXCEPT ![k] = to]
  BY DEF ScriptCompares, Step
<1>3. state' \in States /\ state' # None BY <1>1, BlankType DEF Safe, Typed
<1>4. \A j \in Calls : pc[j] # "move"
  BY <1>1 DEF Safe, OneScript, Running, Script
<1>5. pc' \in [Calls -> Places] /\ pc'[k] = to /\ \A j \in Calls \ {k} : pc'[j] = pc[j]
  BY <1>2 DEF Safe, Typed, Places
<1>6. Typed' BY <1>1, <1>3, <1>5 DEF Safe, Typed, Running
<1>7. OneScript' BY <1>1, <1>5 DEF Safe, OneScript, Running
<1>8. PastSeed' /\ CopyAlone' /\ DraftHolds'
  BY <1>1, <1>3, <1>4, <1>5 DEF PastSeed, CopyAlone, DraftHolds
<1>9. Safe' BY <1>1, <1>3, <1>6, <1>7, <1>8 DEF Safe, ClaudeInside, Seeded
<1>10. Kept BY <1>1, <1>3, BlankType DEF Kept, Own, Held
<1> QED BY <1>9, <1>10

LEMMA ScriptEditsSafe ==
  ASSUME Safe, NEW k \in Calls, ScriptEdits(k)
  PROVE  Safe' /\ Kept
<1>1. pc[k] = "edit" /\ pc' = [pc EXCEPT ![k] = "move"] /\ UNCHANGED <<state, job, container>>
  BY DEF ScriptEdits, Step
<1>2. Running(k) /\ up # "copy" /\ state \in States /\ state # None /\ job[k] \in Jobs
  BY <1>1 DEF Safe, CopyAlone, PastSeed, Typed, Running, Script
<1> DEFINE new == [state EXCEPT !.servers[job[k].server] = job[k].url]
<1>3. draft' = [draft EXCEPT ![k] = new] BY DEF ScriptEdits
<1>4. /\ new \in States /\ new.own = state.own
      /\ \A s \in Servers : state.servers[s] # None => new.servers[s] # None
  BY <1>2, NoneAssumption DEF States, Entries, Jobs
<1> HIDE DEF new
<1>5. pc' \in [Calls -> Places] /\ pc'[k] = "move" /\ \A j \in Calls \ {k} : pc'[j] = pc[j]
  BY <1>1 DEF Safe, Typed, Places
<1>6. draft' \in [Calls -> States \cup {None}] /\ draft'[k] = new
      /\ \A j \in Calls \ {k} : draft'[j] = draft[j]
  BY <1>3, <1>4 DEF Safe, Typed
<1>7. Typed' BY <1>1, <1>2, <1>5, <1>6 DEF Safe, Typed, Running
<1>8. OneScript' BY <1>2, <1>5 DEF Safe, OneScript, Running
<1>9. DraftHolds' BY <1>1, <1>4, <1>5, <1>6 DEF Safe, DraftHolds
<1>10. PastSeed' /\ CopyAlone' BY <1>1, <1>2, <1>5 DEF Safe, PastSeed, CopyAlone
<1>11. Safe' BY <1>1, <1>7, <1>8, <1>9, <1>10 DEF Safe, ClaudeInside, Seeded
<1> QED BY <1>1, <1>11, SameState

\* The draft still holds all that is there, for nobody has written since it was made.
LEMMA ScriptMovesSafe ==
  ASSUME Safe, NEW k \in Calls, ScriptMoves(k)
  PROVE  Safe' /\ Kept
<1>1. /\ pc[k] = "move" /\ pc' = [pc EXCEPT ![k] = "done"] /\ UNCHANGED <<job, container>>
      /\ state' = draft[k] /\ draft' = [draft EXCEPT ![k] = None]
  BY DEF ScriptMoves, Step
<1>2. /\ Running(k) /\ up # "copy" /\ state \in States /\ state # None
      /\ draft[k] \in States /\ state.own \subseteq draft[k].own
      /\ \A s \in Servers : state.servers[s] # None => draft[k].servers[s] # None
  BY <1>1 DEF Safe, CopyAlone, PastSeed, Typed, Running, Script, DraftHolds
<1>3. state' \in States /\ state' # None BY <1>1, <1>2, BlankType
<1>4. \A j \in Calls \ {k} : pc[j] # "move"
  BY <1>2 DEF Safe, OneScript, Running, Script
<1>5. pc' \in [Calls -> Places] /\ pc'[k] = "done" /\ \A j \in Calls \ {k} : pc'[j] = pc[j]
  BY <1>1 DEF Safe, Typed, Places
<1>6. draft' \in [Calls -> States \cup {None}] BY <1>1 DEF Safe, Typed
<1>7. Typed' BY <1>1, <1>3, <1>5, <1>6 DEF Safe, Typed, Running, Script
<1>8. OneScript' BY <1>5 DEF Safe, OneScript, Running, Script
<1>9. PastSeed' /\ CopyAlone' /\ DraftHolds'
  BY <1>1, <1>2, <1>3, <1>4, <1>5 DEF PastSeed, CopyAlone, DraftHolds
<1>10. Safe' BY <1>1, <1>3, <1>7, <1>8, <1>9 DEF Safe, ClaudeInside, Seeded
<1>11. Own \subseteq Own' BY <1>1, <1>2, <1>3 DEF Own
<1>12. Held \subseteq Held' BY <1>1, <1>2, <1>3 DEF Held
<1> QED BY <1>10, <1>11, <1>12 DEF Kept

LEMMA CallEndsSafe ==
  ASSUME Safe, NEW k \in Calls, CallAnswers(k) \/ CallGivenUp(k)
  PROVE  Safe' /\ Kept
<1>1. CASE CallAnswers(k)
  <2>1. pc' = [pc EXCEPT ![k] = "over"] /\ UNCHANGED <<state, job, draft, container>>
    BY <1>1 DEF CallAnswers, Step
  <2> QED BY <2>1, ScriptGoesOn DEF Places, Script
<1>2. CASE CallGivenUp(k)
  <2>1. UNCHANGED <<container, state, pc, job, draft>> BY <1>2 DEF CallGivenUp
  <2>2. Safe'
    BY <2>1 DEF Safe, Typed, OneScript, PastSeed, CopyAlone, ClaudeInside, Seeded, DraftHolds, Running
  <2> QED BY <2>1, <2>2, SameState
<1> QED BY <1>1, <1>2

LEMMA SafeStep == ASSUME Apart, Safe, [Next]_vars PROVE Safe' /\ Kept
<1>1. CASE UNCHANGED vars
  <2>1. Safe'
    BY <1>1 DEF Safe, Typed, OneScript, PastSeed, CopyAlone, ClaudeInside, Seeded, DraftHolds, Running
  <2> QED BY <1>1, <2>1, SameState
<1>2. CASE Session
  BY <1>2, SeedInstallsSafe, SeedCopiedSafe, ContainerStopsSafe, OutsideSafe, ClaudeWritesSafe
  DEF Session
<1>3. ASSUME NEW k \in Calls,
             \/ CallStarts(k) \/ ScriptChecks(k) \/ ScriptKeepsToken(k) \/ ScriptCompares(k)
             \/ ScriptEdits(k) \/ ScriptMoves(k) \/ CallAnswers(k) \/ CallGivenUp(k)
      PROVE  Safe' /\ Kept
  BY <1>3, CallStartsSafe, ScriptChecksSafe, ScriptKeepsTokenSafe, ScriptComparesSafe,
     ScriptEditsSafe, ScriptMovesSafe, CallEndsSafe
<1> QED BY <1>1, <1>2, <1>3 DEF Next

\* When no two of the seed, the script and Claude write .claude.json at once, no step
\* takes away the seed that waits, what Claude wrote, or an entry handed over (MCP-39).
THEOREM NothingIsLost == ASSUME Apart PROVE Spec => NothingLost
<1>1. Init => Safe BY SafeInit
<1>2. Safe /\ [Next]_vars => Safe' BY SafeStep
<1>3. Safe /\ [Next]_vars => [Own \subseteq Own' /\ Held \subseteq Held']_vars
  BY SafeStep DEF Kept
<1> QED BY <1>1, <1>2, <1>3, PTL DEF Spec, NothingLost

-----------------------------------------------------------------------------
(* What Claude can use                                                     *)

AnswersTyped ==
  /\ token \in [Servers -> Nat] /\ last \in [Servers -> Nat]
  /\ out \in [Calls -> {"added", "unchanged", None}] /\ gone \subseteq Calls
  /\ \A k \in gone : pc[k] # "idle"

\* Calls run in order of their numbers, and what a script said stays said.
InTurn ==
  \A j, k \in Calls : (Running(j) \/ pc[j] = "idle") /\ k > j => pc[k] = "idle"
LastEnded ==
  \A s \in Servers : last[s] # 0 =>
    /\ last[s] \in Calls /\ pc[last[s]] \in {"done", "over"}
    /\ job[last[s]] \in Jobs /\ job[last[s]].server = s

\* .claude.json has the entries that were handed over last and no others, the draft one
\* more, and a token is as new as its entry.
EntryIsLast ==
  \A s \in Servers :
    /\ last[s] = 0 /\ state # None => state.servers[s] = None
    /\ last[s] # 0 => state # None /\ state.servers[s] = job[last[s]].url
DraftIs ==
  \A k \in Calls : pc[k] = "move" =>
    draft[k].servers = [state.servers EXCEPT ![job[k].server] = job[k].url]
TokenNew ==
  /\ \A s \in Servers : token[s] >= last[s]
  /\ \A k \in Calls : pc[k] \in {"compare", "edit", "move"} => token[job[k].server] >= k

\* When a running Claude has not loaded a server's entry, a call that added one will say
\* so, unless it has been said; and the caller that gave up on a script knows.
Stale(s) == claude # None /\ last[s] # 0 /\ claude[s] # job[last[s]].url /\ s \notin told
WillTell(k, s) == k \notin gone /\ pc[k] = "done" /\ out[k] = "added" /\ job[k].server = s
StaleKnown == \A s \in Servers : Stale(s) => \E k \in Calls : WillTell(k, s)
GoneTold   == claude # None => \A k \in gone : Running(k) => job[k].server \in told

\* What a script finds in place, and says so, the running Claude has loaded: nobody hands
\* a server over again that waits for Claude's restart.
FindsInPlace(k) ==
  \/ Running(k)
  \/ pc[k] = "done" /\ out[k] = "unchanged" /\ last[job[k].server] = k
InPlaceLoaded ==
  \A k \in Calls :
    /\ claude # None /\ state # None /\ FindsInPlace(k)
    /\ state.servers[job[k].server] = job[k].url
    => claude[job[k].server] = job[k].url

\* The newest call for a server was the last to put it in place.
NewestIsLast ==
  \A k \in Calls : pc[k] = "done" =>
    /\ job[k] \in Jobs /\ out[k] \in {"added", "unchanged"}
    /\ Newest(k) => last[job[k].server] = k

\* The inductive invariant of UsableOrTold, beside Safe.
UsableInv ==
  /\ AnswersTyped /\ InTurn /\ LastEnded /\ EntryIsLast /\ DraftIs /\ TokenNew /\ StaleKnown
  /\ GoneTold /\ InPlaceLoaded /\ NewestIsLast

LEMMA UsableInit == Init => UsableInv
BY DEF Init, UsableInv, AnswersTyped, InTurn, LastEnded, EntryIsLast, DraftIs, TokenNew,
       StaleKnown, Stale, GoneTold, Running, Script, InPlaceLoaded, NewestIsLast

\* A later call stays a later call, so that none is the newest again.
LEMMA NewestAgain ==
  ASSUME NEW k \in Calls, Newest(k)', job'[k] = job[k],
         \A j \in Calls : pc[j] # "idle" => pc'[j] # "idle" /\ job'[j] = job[j]
  PROVE  Newest(k)
BY DEF Newest
\* The steps of the container and of Claude leave the calls alone, but that a container
\* that stops ends the scripts, and Claude with them.
LEMMA SessionUsable ==
  ASSUME Faults = {}, Safe, UsableInv, Session
  PROVE  UsableInv'
<1>1. CASE ContainerStarts \/ ClaudeExits
  <2>1. UNCHANGED <<state, token, script, history>> /\ (claude' = claude \/ claude' = None)
    BY <1>1 DEF ContainerStarts, ClaudeExits
  <2>2. InPlaceLoaded' /\ NewestIsLast'
    BY <2>1 DEF UsableInv, InPlaceLoaded, FindsInPlace, NewestIsLast, Newest, Running
  <2>3. AnswersTyped' /\ InTurn' /\ LastEnded'
    BY <2>1 DEF UsableInv, AnswersTyped, InTurn, LastEnded, Running
  <2>4. EntryIsLast' /\ DraftIs' /\ TokenNew' BY <2>1 DEF UsableInv, EntryIsLast, DraftIs, TokenNew
  <2>5. StaleKnown' /\ GoneTold'
    BY <2>1 DEF UsableInv, StaleKnown, Stale, WillTell, GoneTold, Running
  <2> QED BY <2>2, <2>3, <2>4, <2>5 DEF UsableInv
<1>2. CASE ContainerStops
  <2>1. /\ claude' = None /\ UNCHANGED <<state, token, job, draft, out, gone, history>>
        /\ \A k \in Calls : pc'[k] = pc[k] \/ (Running(k) /\ pc'[k] \in {"over", "failed"})
    BY <1>2 DEF ContainerStops, Safe, Typed
  <2>2. \A k \in Calls : (Running(k)' => Running(k)) /\ (pc'[k] = "idle" <=> pc[k] = "idle")
                          /\ (pc[k] \in {"done", "over"} => pc'[k] = pc[k])
                          /\ (pc'[k] \in {"compare", "edit", "move"} => pc'[k] = pc[k])
    BY <2>1 DEF Running, Script
  <2> HIDE DEF Running
  <2>3. InTurn' /\ LastEnded' BY <2>1, <2>2 DEF UsableInv, InTurn, LastEnded
  <2>4. EntryIsLast' /\ DraftIs' /\ TokenNew'
    BY <2>1, <2>2 DEF UsableInv, EntryIsLast, DraftIs, TokenNew
  <2>5. StaleKnown' /\ GoneTold' BY <2>1 DEF StaleKnown, Stale, GoneTold
  <2>6. AnswersTyped' BY <2>1, <2>2 DEF UsableInv, AnswersTyped
  <2>7. InPlaceLoaded' BY <2>1 DEF InPlaceLoaded
  <2>8. NewestIsLast'
    <3> SUFFICES ASSUME NEW k \in Calls, pc'[k] = "done"
                 PROVE  /\ job[k] \in Jobs /\ out[k] \in {"added", "unchanged"}
                        /\ Newest(k)' => last[job[k].server] = k
      BY <2>1 DEF NewestIsLast
    <3>1. pc[k] = "done" BY <2>1
    <3>2. Newest(k)' => Newest(k) BY <2>1, <2>2, NewestAgain
    <3> QED BY <3>1, <3>2 DEF UsableInv, NewestIsLast
  <2> QED BY <2>3, <2>4, <2>5, <2>6, <2>7, <2>8 DEF UsableInv
<1>3. CASE ClaudeStarts
  <2>1. /\ \A k \in gone : ~Running(k)
        /\ claude' = (IF state = None THEN NoEntry ELSE state.servers)
        /\ UNCHANGED <<state, token, script, last>>
    BY <1>3 DEF ClaudeStarts
  <2>2. \A s \in Servers : ~Stale(s)' BY <2>1 DEF UsableInv, EntryIsLast, Stale
  <2> HIDE DEF Stale
  <2>3. InPlaceLoaded' BY <2>1 DEF InPlaceLoaded
  <2>4. NewestIsLast' BY <2>1 DEF UsableInv, NewestIsLast, Newest
  <2> QED BY <2>1, <2>2, <2>3, <2>4 DEF UsableInv, AnswersTyped, InTurn, LastEnded, EntryIsLast,
             DraftIs, TokenNew, StaleKnown, GoneTold, Running
<1>4. CASE SeedInstalls \/ SeedCopied \/ ClaudeWrites
  <2>1. UNCHANGED <<claude, token, script, history>>
    BY <1>4 DEF SeedInstalls, SeedCopied, ClaudeWrites
  <2>2. /\ state' # None => \A s \in Servers :
             IF state = None THEN state'.servers[s] = None
             ELSE state'.servers[s] = state.servers[s]
        /\ state # None => state' # None
        /\ \A k \in Calls : pc[k] # "move" \/ state' = state
    <3>1. CASE SeedInstalls
      <4>1. \/ state = None /\ state' = Blank
            \/ state' = state
        BY <3>1 DEF SeedInstalls
      <4>2. state = None => \A k \in Calls : pc[k] # "move" BY DEF Safe, PastSeed
      <4> QED BY <4>1, <4>2, BlankType
    <3>2. CASE SeedCopied
      <4>1. state = Blank /\ \A k \in Calls : pc[k] # "move"
        BY <3>2 DEF SeedCopied, Safe, CopyAlone
      <4>2. state' = [Blank EXCEPT !.own = {"seed"}] BY <3>2 DEF SeedCopied
      <4>3. state'.servers = Blank.servers /\ state' # None
        BY <4>2, BlankType DEF Blank
      <4> QED BY <4>1, <4>3, BlankType
    <3>3. CASE ClaudeWrites
      <4>1. \A k \in Calls : pc[k] # "move" BY <3>3 DEF ClaudeWrites
      <4>2. CASE state = None
        <5>1. state' = [Blank EXCEPT !.own = {"login"}] BY <3>3, <4>2 DEF ClaudeWrites
        <5>2. state'.servers = Blank.servers BY <5>1 DEF Blank
        <5> QED BY <4>1, <4>2, <5>2, BlankType
      <4>3. CASE state # None
        <5>1. state' = [state EXCEPT !.own = @ \cup {"login"}] BY <3>3, <4>3 DEF ClaudeWrites
        <5>2. state \in States BY <4>3 DEF Safe, Typed
        <5>3. state' \in States /\ state'.servers = state.servers BY <5>1, <5>2 DEF States
        <5> QED BY <4>1, <4>3, <5>3, BlankType
      <4> QED BY <4>2, <4>3
    <3> QED BY <1>4, <3>1, <3>2, <3>3
  <2>3. EntryIsLast' BY <2>1, <2>2 DEF UsableInv, EntryIsLast
  <2>4. DraftIs' BY <2>1, <2>2 DEF UsableInv, DraftIs
  <2>5. NewestIsLast' BY <2>1 DEF UsableInv, NewestIsLast, Newest
  <2>6. InPlaceLoaded'
    <3> SUFFICES ASSUME NEW k \in Calls, claude # None, state' # None, FindsInPlace(k),
                        state'.servers[job[k].server] = job[k].url
                 PROVE  claude[job[k].server] = job[k].url
      BY <2>1 DEF InPlaceLoaded, FindsInPlace, Running
    <3>1. job[k] \in Jobs
      <4>1. CASE Running(k) BY <4>1 DEF Safe, Typed
      <4>2. CASE ~Running(k)
        BY <4>2 DEF FindsInPlace, UsableInv, NewestIsLast
      <4> QED BY <4>1, <4>2
    <3>2. job[k].server \in Servers /\ job[k].url # None BY <3>1, NoneAssumption DEF Jobs
    <3>3. state # None /\ state.servers[job[k].server] = job[k].url BY <2>2, <3>2
    <3> QED BY <3>3 DEF UsableInv, InPlaceLoaded
  <2> QED BY <2>1, <2>3, <2>4, <2>5, <2>6 DEF UsableInv, AnswersTyped, InTurn, LastEnded, TokenNew,
             StaleKnown, Stale, WillTell, GoneTold, Running
<1> QED BY <1>1, <1>2, <1>3, <1>4 DEF Session

\* A call that starts is the next one.
LEMMA StartsUsable ==
  ASSUME Faults = {}, Safe, UsableInv, NEW k \in Calls, CallStarts(k)
  PROVE  UsableInv'
<1>1. /\ pc[k] = "idle" /\ \A j \in Calls : ~Running(j)
      /\ \A j \in 1..(k - 1) : pc[j] # "idle"
      /\ pc' = [pc EXCEPT ![k] = "check"]
      /\ UNCHANGED <<state, token, claude, draft, out, gone, history>>
  BY DEF CallStarts, Step
<1>2. PICK server \in Servers, u \in Urls :
        ~Again(server, u) /\ job' = [job EXCEPT ![k] = [server |-> server, url |-> u]]
  BY DEF CallStarts
<1>3. /\ pc'[k] = "check" /\ \A j \in Calls \ {k} : pc'[j] = pc[j]
      /\ \A j \in Calls \ {k} : job'[j] = job[j]
  BY <1>1, <1>2 DEF Safe, Typed
<1>4. InTurn'
  <2> SUFFICES ASSUME NEW j \in Calls, NEW i \in Calls, Running(j)' \/ pc'[j] = "idle", i > j
               PROVE  pc'[i] = "idle"
    BY DEF InTurn
  <2>1. j = k \/ pc[j] = "idle" BY <1>1, <1>3 DEF Running
  <2>2. pc[i] = "idle" BY <1>1, <2>1 DEF UsableInv, InTurn
  <2>3. i # k
    <3>1. ASSUME i = k PROVE FALSE
      <4>1. j # k /\ pc[j] = "idle" BY <2>1, <3>1, BoundsAssumption DEF Calls
      <4>2. j \in 1..(k - 1) BY <3>1, BoundsAssumption DEF Calls
      <4> QED BY <1>1, <4>1, <4>2
    <3> QED BY <3>1
  <2> QED BY <1>3, <2>2, <2>3
<1>5. \A s \in Servers : last[s] # 0 => last[s] # k BY <1>1 DEF UsableInv, LastEnded
<1>6. LastEnded' /\ EntryIsLast' BY <1>1, <1>3, <1>5 DEF UsableInv, LastEnded, EntryIsLast
<1>7. DraftIs' /\ TokenNew' BY <1>1, <1>3 DEF UsableInv, DraftIs, TokenNew
<1>8. StaleKnown'
  <2>1. \A s \in Servers : Stale(s)' => Stale(s)
    BY <1>1, <1>3, <1>5 DEF Stale, UsableInv, LastEnded
  <2>2. \A s \in Servers, j \in Calls : WillTell(j, s) => WillTell(j, s)'
    BY <1>1, <1>3 DEF WillTell
  <2> QED BY <2>1, <2>2 DEF UsableInv, StaleKnown
<1>9. k \notin gone BY <1>1 DEF UsableInv, AnswersTyped
<1>10. GoneTold' BY <1>1, <1>3, <1>9 DEF UsableInv, AnswersTyped, GoneTold, Running
<1>11. AnswersTyped' BY <1>1, <1>3 DEF UsableInv, AnswersTyped
<1>12. InPlaceLoaded'
  <2> SUFFICES ASSUME NEW j \in Calls, claude # None, state # None, FindsInPlace(j)',
                      state.servers[job'[j].server] = job'[j].url
               PROVE  claude[job'[j].server] = job'[j].url
    BY <1>1 DEF InPlaceLoaded
  <2>1. CASE j = k
    <3>1. job'[k].server = server /\ job'[k].url = u BY <1>2 DEF Safe, Typed
    <3> QED BY <1>2, <2>1, <3>1 DEF Again
  <2>2. CASE j # k
    <3>1. pc'[j] = pc[j] /\ job'[j] = job[j] BY <1>3, <2>2
    <3>2. FindsInPlace(j) BY <1>1, <3>1 DEF FindsInPlace, Running
    <3> QED BY <3>1, <3>2 DEF UsableInv, InPlaceLoaded
  <2> QED BY <2>1, <2>2
<1>13. NewestIsLast'
  <2> SUFFICES ASSUME NEW j \in Calls, pc'[j] = "done"
               PROVE  /\ job'[j] \in Jobs /\ out'[j] \in {"added", "unchanged"}
                      /\ Newest(j)' => last[job'[j].server] = j
    BY <1>1 DEF NewestIsLast
  <2>1. j # k /\ pc[j] = "done" /\ job'[j] = job[j] BY <1>3
  <2>2. \A i \in Calls : pc[i] # "idle" => pc'[i] # "idle" /\ job'[i] = job[i] BY <1>1, <1>3
  <2>3. Newest(j)' => Newest(j) BY <2>1, <2>2, NewestAgain
  <2> QED BY <1>1, <2>1, <2>3 DEF UsableInv, NewestIsLast
<1> QED BY <1>4, <1>6, <1>7, <1>8, <1>10, <1>11, <1>12, <1>13 DEF UsableInv

\* The script is at its token, or on its way without having said anything.
LEMMA ScriptGoesOnUsable ==
  ASSUME Safe, UsableInv, NEW k \in Calls, NEW to \in {"token", "compare", "edit", "failed"},
         Running(k), pc[k] # "move", pc' = [pc EXCEPT ![k] = to],
         UNCHANGED <<claude, job, out, gone, history>>,
         \A s \in Servers : /\ state' # None /\ state # None => state'.servers[s] = state.servers[s]
                            /\ state' # None /\ state = None => state'.servers[s] = None
                            /\ state # None => state' # None,
         \A j \in Calls \ {k} : pc[j] # "move",
         token' \in [Servers -> Nat], \A s \in Servers : token'[s] >= last[s],
         to \in {"compare", "edit"} => token'[job[k].server] >= k
  PROVE  UsableInv'
<1>1. /\ pc'[k] = to /\ \A j \in Calls \ {k} : pc'[j] = pc[j]
      /\ pc[k] \in Script
  BY DEF Safe, Typed, Running
<1>2. \A j \in Calls : (Running(j)' => Running(j)) /\ (pc'[j] = "idle" <=> pc[j] = "idle")
                        /\ (pc[j] \in {"done", "over"} => pc'[j] = pc[j])
                        /\ (j # k => (pc'[j] \in {"compare", "edit", "move"} => pc'[j] = pc[j]))
                        /\ pc'[j] # "move"
  BY <1>1 DEF Running, Script
<1> HIDE DEF Running
<1>3. InTurn' /\ LastEnded' /\ AnswersTyped' BY <1>2 DEF UsableInv, InTurn, LastEnded, AnswersTyped
<1>4. EntryIsLast' BY DEF UsableInv, EntryIsLast
<1>5. DraftIs' BY <1>2 DEF DraftIs
<1>6. TokenNew'
  <2>1. \A s \in Servers : token'[s] >= last'[s]
    BY DEF UsableInv, TokenNew, AnswersTyped
  <2>2. ASSUME NEW j \in Calls, pc'[j] \in {"compare", "edit", "move"}
        PROVE  token'[job'[j].server] >= j
    <3>1. CASE j = k BY <1>1, <2>2, <3>1
    <3>2. CASE j # k
      <4>1. Running(j) /\ Running(k) BY <1>1, <1>2, <2>2, <3>2 DEF Running, Script
      <4> QED BY <3>2, <4>1 DEF Safe, OneScript
    <3> QED BY <3>1, <3>2
  <2> QED BY <2>1, <2>2 DEF TokenNew
<1>7. StaleKnown' BY <1>2 DEF UsableInv, StaleKnown, Stale, WillTell
<1>8. GoneTold' BY <1>2 DEF UsableInv, AnswersTyped, GoneTold
<1>9. InPlaceLoaded'
  <2> SUFFICES ASSUME NEW j \in Calls, claude # None, state' # None, FindsInPlace(j)',
                      state'.servers[job[j].server] = job[j].url
               PROVE  claude[job[j].server] = job[j].url
    BY DEF InPlaceLoaded
  <2>1. FindsInPlace(j) BY <1>1, <1>2 DEF FindsInPlace
  <2>2. job[j] \in Jobs
    BY <2>1 DEF FindsInPlace, UsableInv, NewestIsLast, Safe, Typed
  <2>3. job[j].server \in Servers /\ job[j].url # None BY <2>2, NoneAssumption DEF Jobs
  <2>4. state # None /\ state.servers[job[j].server] = job[j].url BY <2>3
  <2> QED BY <2>1, <2>4 DEF UsableInv, InPlaceLoaded
<1>10. NewestIsLast'
  <2> SUFFICES ASSUME NEW j \in Calls, pc'[j] = "done"
               PROVE  /\ job[j] \in Jobs /\ out'[j] \in {"added", "unchanged"}
                      /\ Newest(j)' => last[job[j].server] = j
    BY DEF NewestIsLast
  <2>1. pc[j] = "done" BY <1>1
  <2>2. Newest(j)' => Newest(j) BY <1>2, NewestAgain
  <2> QED BY <2>1, <2>2 DEF UsableInv, NewestIsLast
<1> QED BY <1>3, <1>4, <1>5, <1>6, <1>7, <1>8, <1>9, <1>10 DEF UsableInv

LEMMA ChecksUsable ==
  ASSUME Safe, UsableInv, NEW k \in Calls, ScriptChecks(k)
  PROVE  UsableInv'
<1>1. /\ pc[k] = "check" /\ UNCHANGED <<claude, state, token, job, out, gone, history>>
      /\ \E to \in {"failed", "token"} : pc' = [pc EXCEPT ![k] = to]
  BY DEF ScriptChecks, Step
<1>2. Running(k) /\ \A j \in Calls \ {k} : pc[j] # "move"
  BY <1>1 DEF Safe, OneScript, Running, Script
<1>3. token' \in [Servers -> Nat] /\ \A s \in Servers : token'[s] >= last[s]
  BY <1>1 DEF UsableInv, AnswersTyped, TokenNew
<1> QED BY <1>1, <1>2, <1>3, ScriptGoesOnUsable

\* The newest token is of the call that runs, for every entry is of an earlier one.
LEMMA KeepsTokenUsable ==
  ASSUME Safe, UsableInv, NEW k \in Calls, ScriptKeepsToken(k)
  PROVE  UsableInv'
<1>1. /\ pc[k] = "token" /\ UNCHANGED <<claude, state, job, out, gone, history>>
      /\ pc' = [pc EXCEPT ![k] = "compare"]
      /\ token' = [token EXCEPT ![job[k].server] = k]
  BY DEF ScriptKeepsToken, Step
<1>2. Running(k) /\ (\A j \in Calls \ {k} : pc[j] # "move") /\ job[k].server \in Servers
  BY <1>1 DEF Safe, OneScript, Typed, Jobs, Running, Script
<1>3. \A s \in Servers : last[s] <= k
  <2> SUFFICES ASSUME NEW s \in Servers, last[s] > k PROVE FALSE
    BY BoundsAssumption DEF UsableInv, AnswersTyped, Calls
  <2>1. last[s] # 0 BY BoundsAssumption DEF Calls
  <2>2. last[s] \in Calls /\ pc[last[s]] # "idle" BY <2>1 DEF UsableInv, LastEnded
  <2> QED BY <1>2, <2>2 DEF UsableInv, InTurn
<1>4. /\ token' \in [Servers -> Nat] /\ token'[job[k].server] = k
      /\ \A s \in Servers : token'[s] >= last[s]
  BY <1>1, <1>2, <1>3, BoundsAssumption DEF UsableInv, AnswersTyped, TokenNew, Calls
<1>5. k >= k BY BoundsAssumption DEF Calls
<1> QED BY <1>1, <1>2, <1>4, <1>5, ScriptGoesOnUsable

\* The script says that the entry is in place: it is the last of its server now.
LEMMA SaysUsable ==
  ASSUME Safe, UsableInv, NEW k \in Calls, NEW e \in {"added", "unchanged"},
         Running(k), job[k] \in Jobs, pc' = [pc EXCEPT ![k] = "done"],
         pc[k] \in {"compare", "move"}, Says(k, e),
         UNCHANGED <<claude, token, job, gone, told>>,
         state' # None, state'.servers[job[k].server] = job[k].url,
         \A s \in Servers \ {job[k].server} :
           /\ state # None => state'.servers[s] = state.servers[s]
           /\ state = None => state'.servers[s] = None,
         e = "unchanged" => state # None /\ state.servers[job[k].server] = job[k].url
  PROVE  UsableInv'
<1> DEFINE c == job[k].server
<1>1. c \in Servers /\ job[k].url \in Urls /\ job[k].url # None BY NoneAssumption DEF Jobs
<1>2. /\ pc'[k] = "done" /\ \A j \in Calls \ {k} : pc'[j] = pc[j]
      /\ pc[k] \in Script
  BY DEF Safe, Typed, Running
<1>3. /\ out' \in [Calls -> {"added", "unchanged", None}] /\ out'[k] = e
      /\ \A j \in Calls \ {k} : out'[j] = out[j]
  BY DEF Says, UsableInv, AnswersTyped
<1>4. /\ last' \in [Servers -> Nat] /\ last'[c] = k
      /\ \A s \in Servers \ {c} : last'[s] = last[s]
  BY <1>1, BoundsAssumption DEF Says, UsableInv, AnswersTyped, Calls
<1> HIDE DEF c
<1>5. \A j \in Calls : /\ (Running(j)' => Running(j)) /\ (pc'[j] = "idle" <=> pc[j] = "idle")
                       /\ (pc[j] \in {"done", "over"} => pc'[j] = pc[j] /\ out'[j] = out[j])
                       /\ pc'[j] \notin {"compare", "edit", "move"}
  BY <1>2, <1>3 DEF Running, Script, Safe, OneScript
<1> HIDE DEF Running
<1>6. InTurn' BY <1>5 DEF UsableInv, InTurn
<1>7. AnswersTyped' BY <1>3, <1>4, <1>5 DEF UsableInv, AnswersTyped
<1>8. LastEnded' BY <1>2, <1>4, <1>5 DEF UsableInv, LastEnded, c
<1>9. k # 0 BY BoundsAssumption DEF Calls
<1>10. EntryIsLast'
  <2> SUFFICES ASSUME NEW s \in Servers
               PROVE  /\ last'[s] = 0 => state'.servers[s] = None
                      /\ last'[s] # 0 => state'.servers[s] = job[last'[s]].url
    BY DEF EntryIsLast
  <2>1. CASE s = c BY <1>4, <1>9, <2>1 DEF c
  <2>2. CASE s # c BY <1>4, <2>2 DEF UsableInv, EntryIsLast, c
  <2> QED BY <2>1, <2>2
<1>11. DraftIs' BY <1>5 DEF DraftIs
<1>12. TokenNew'
  <2>1. token[c] >= k BY DEF UsableInv, TokenNew, c
  <2>2. \A s \in Servers : token'[s] >= last'[s] BY <1>4, <2>1 DEF UsableInv, TokenNew
  <2> QED BY <1>5, <2>2 DEF TokenNew
<1>13. StaleKnown'
  <2> SUFFICES ASSUME NEW s \in Servers, Stale(s)' PROVE \E j \in Calls : WillTell(j, s)'
    BY DEF StaleKnown
  <2>1. \A j \in Calls : WillTell(j, s) => WillTell(j, s)'
    BY <1>5 DEF WillTell
  <2>2. CASE s # c
    <3>1. Stale(s) BY <1>4, <2>2 DEF Stale
    <3> QED BY <2>1, <3>1 DEF UsableInv, StaleKnown
  <2>3. CASE s = c /\ e = "added"
    <3>1. k \notin gone BY <2>3 DEF UsableInv, GoneTold, Stale, c
    <3> QED BY <1>2, <1>3, <2>3, <3>1 DEF WillTell, c
  <2>4. CASE s = c /\ e = "unchanged"
    <3>1. last[s] # 0 /\ job[last[s]].url = job[k].url
      BY <1>1, <2>4 DEF UsableInv, EntryIsLast, c
    <3>2. Stale(s) BY <1>4, <2>4, <3>1 DEF Stale
    <3> QED BY <2>1, <3>2 DEF UsableInv, StaleKnown
  <2> QED BY <2>2, <2>3, <2>4
<1>14. GoneTold' BY <1>5 DEF UsableInv, AnswersTyped, GoneTold
<1>15. InPlaceLoaded'
  <2> SUFFICES ASSUME NEW j \in Calls, claude # None, FindsInPlace(j)',
                      state'.servers[job[j].server] = job[j].url
               PROVE  claude[job[j].server] = job[j].url
    BY DEF InPlaceLoaded
  <2>1. CASE j = k
    <3>1. e = "unchanged" BY <1>2, <1>3, <1>5, <2>1 DEF FindsInPlace, Running, Script
    <3>2. FindsInPlace(k) BY DEF FindsInPlace
    <3> QED BY <2>1, <3>1, <3>2 DEF UsableInv, InPlaceLoaded
  <2>2. CASE j # k
    <3>1. ~Running(j) BY <2>2 DEF Safe, OneScript
    <3>2. pc[j] = "done" /\ out[j] = "unchanged" /\ last'[job[j].server] = j
      BY <1>2, <1>3, <1>5, <2>2, <3>1 DEF FindsInPlace
    <3>3. job[j].server \in Servers BY <3>2 DEF UsableInv, NewestIsLast, Jobs
    <3>4. job[j].server # c BY <1>4, <2>2, <3>2
    <3>5. last[job[j].server] = j /\ j # 0 BY <1>4, <3>2, <3>3, <3>4, BoundsAssumption DEF Calls
    <3>6. state # None /\ state.servers[job[j].server] = job[j].url
      BY <3>3, <3>5 DEF UsableInv, EntryIsLast
    <3>7. FindsInPlace(j) BY <3>2, <3>5 DEF FindsInPlace
    <3> QED BY <3>6, <3>7 DEF UsableInv, InPlaceLoaded
  <2> QED BY <2>1, <2>2
<1>16. NewestIsLast'
  <2> SUFFICES ASSUME NEW j \in Calls, pc'[j] = "done"
               PROVE  /\ job[j] \in Jobs /\ out'[j] \in {"added", "unchanged"}
                      /\ Newest(j)' => last'[job[j].server] = j
    BY DEF NewestIsLast
  <2>1. CASE j = k BY <1>3, <1>4, <2>1 DEF c
  <2>2. CASE j # k
    <3>1. pc[j] = "done" /\ (Newest(j)' => Newest(j)) BY <1>2, <1>5, <2>2, NewestAgain
    <3>2. /\ job[j] \in Jobs /\ out'[j] \in {"added", "unchanged"}
          /\ Newest(j)' => last[job[j].server] = j
      BY <1>3, <2>2, <3>1 DEF UsableInv, NewestIsLast
    <3>3. Newest(j)' => job[j].server # c
      <4> SUFFICES ASSUME Newest(j)', job[j].server = c PROVE FALSE OBVIOUS
      <4>1. ~(k > j) BY <1>2 DEF Newest, c
      <4>2. j > k BY <2>2, <4>1, BoundsAssumption DEF Calls
      <4>3. pc[j] = "idle" BY <4>2 DEF UsableInv, InTurn
      <4> QED BY <3>1, <4>3
    <3>4. job[j].server \in Servers BY <3>2 DEF Jobs
    <3> QED BY <1>4, <3>2, <3>3, <3>4
  <2> QED BY <2>1, <2>2
<1> QED BY <1>6, <1>7, <1>8, <1>10, <1>11, <1>12, <1>13, <1>14, <1>15, <1>16 DEF UsableInv

\* A script that finds the entry in place, or has yet to write it.
LEMMA ComparesUsable ==
  ASSUME Safe, UsableInv, NEW k \in Calls, ScriptCompares(k)
  PROVE  UsableInv'
<1>1. /\ pc[k] = "compare" /\ UNCHANGED <<claude, token, job, gone, told>>
      /\ state' = IF state = None THEN Blank ELSE state
  BY DEF ScriptCompares
<1>2. Running(k) /\ (\A j \in Calls \ {k} : pc[j] # "move") /\ job[k] \in Jobs
  BY <1>1 DEF Safe, OneScript, Typed, Running, Script
<1>3. state' # None /\ \A s \in Servers : IF state = None THEN state'.servers[s] = None
                                          ELSE state'.servers[s] = state.servers[s]
  BY <1>1, BlankType
<1>4. job[k].server \in Servers BY <1>2 DEF Jobs
<1>5. CASE Same(k)
  <2>1. pc' = [pc EXCEPT ![k] = "done"] /\ Says(k, "unchanged")
    BY <1>5 DEF ScriptCompares, Step
  <2>2. state # None /\ state.servers[job[k].server] = job[k].url BY <1>5 DEF Same
  <2> QED BY <1>1, <1>2, <1>3, <1>4, <2>1, <2>2, SaysUsable
<1>6. CASE ~Same(k)
  <2>1. pc' = [pc EXCEPT ![k] = "edit"] /\ UNCHANGED <<out, last>>
    BY <1>6 DEF ScriptCompares, Step
  <2>2. /\ token' \in [Servers -> Nat] /\ \A s \in Servers : token'[s] >= last[s]
        /\ token'[job[k].server] >= k
    BY <1>1 DEF UsableInv, AnswersTyped, TokenNew
  <2> QED BY <1>1, <1>2, <1>3, <2>1, <2>2, ScriptGoesOnUsable
<1> QED BY <1>5, <1>6

LEMMA EditsUsable ==
  ASSUME Safe, UsableInv, NEW k \in Calls, ScriptEdits(k)
  PROVE  UsableInv'
<1>1. /\ pc[k] = "edit" /\ pc' = [pc EXCEPT ![k] = "move"]
      /\ UNCHANGED <<claude, state, token, job, out, gone, history>>
      /\ draft' = [draft EXCEPT ![k] = [state EXCEPT !.servers[job[k].server] = job[k].url]]
  BY DEF ScriptEdits, Step
<1>2. state \in States BY <1>1 DEF Safe, PastSeed, Typed
<1>3. draft'[k].servers = [state.servers EXCEPT ![job[k].server] = job[k].url]
  BY <1>1, <1>2 DEF Safe, Typed, States
<1>4. /\ pc'[k] = "move" /\ \A j \in Calls \ {k} : pc'[j] = pc[j]
      /\ \A j \in Calls \ {k} : pc[j] # "move"
  BY <1>1 DEF Safe, OneScript, Typed, Running, Script
<1>5. DraftIs' BY <1>1, <1>3, <1>4 DEF DraftIs
<1>6. \A j \in Calls : (Running(j)' <=> Running(j)) /\ (pc'[j] = "idle" <=> pc[j] = "idle")
                        /\ (pc[j] \in {"done", "over"} => pc'[j] = pc[j])
                        /\ (pc'[j] \in {"compare", "edit", "move"} => pc[j] \in {"compare", "edit", "move"})
  BY <1>1, <1>4 DEF Running, Script
<1> HIDE DEF Running
<1>7. InTurn' /\ LastEnded' BY <1>1, <1>6 DEF UsableInv, InTurn, LastEnded
<1>8. EntryIsLast' /\ TokenNew' BY <1>1, <1>6 DEF UsableInv, EntryIsLast, TokenNew
<1>9. StaleKnown' BY <1>1, <1>6 DEF UsableInv, StaleKnown, Stale, WillTell
<1>10. GoneTold' /\ AnswersTyped' BY <1>1, <1>6 DEF UsableInv, AnswersTyped, GoneTold
<1>11. \A j \in Calls : (FindsInPlace(j)' => FindsInPlace(j)) /\ (pc'[j] = "done" => pc[j] = "done")
  BY <1>1, <1>4, <1>6 DEF FindsInPlace
<1>12. InPlaceLoaded' BY <1>1, <1>11 DEF UsableInv, InPlaceLoaded
<1>13. \A j \in Calls : Newest(j)' => Newest(j) BY <1>1, <1>6, NewestAgain
<1>14. NewestIsLast' BY <1>1, <1>11, <1>13 DEF UsableInv, NewestIsLast
<1> QED BY <1>5, <1>7, <1>8, <1>9, <1>10, <1>12, <1>14 DEF UsableInv

LEMMA MovesUsable ==
  ASSUME Safe, UsableInv, NEW k \in Calls, ScriptMoves(k)
  PROVE  UsableInv'
<1>1. /\ pc[k] = "move" /\ pc' = [pc EXCEPT ![k] = "done"] /\ Says(k, "added")
      /\ state' = draft[k] /\ UNCHANGED <<claude, token, job, gone, told>>
  BY DEF ScriptMoves, Step
<1>2. Running(k) /\ job[k] \in Jobs /\ state \in States /\ state # None /\ draft[k] \in States
  BY <1>1 DEF Safe, Typed, PastSeed, DraftHolds, Running, Script
<1>3. state'.servers = [state.servers EXCEPT ![job[k].server] = job[k].url]
  BY <1>1 DEF UsableInv, DraftIs
<1>4. job[k].server \in Servers /\ state.servers \in Entries BY <1>2 DEF Jobs, States
<1>5. /\ state'.servers[job[k].server] = job[k].url
      /\ \A s \in Servers \ {job[k].server} : state'.servers[s] = state.servers[s]
  BY <1>3, <1>4 DEF Entries
<1>6. state' # None BY <1>1, <1>2, BlankType
<1> QED BY <1>1, <1>2, <1>5, <1>6, SaysUsable

\* A call that is answered tells what it knows; one that is given up on is known to fail.
LEMMA EndsUsable ==
  ASSUME Faults = {}, Safe, UsableInv, NEW k \in Calls, CallAnswers(k) \/ CallGivenUp(k)
  PROVE  UsableInv'
<1>1. CASE CallAnswers(k)
  <2>0. NeedsRestart(k, claude # None) <=> out[k] = "added" /\ claude # None BY DEF NeedsRestart
  <2>1. /\ k \notin gone /\ pc' = [pc EXCEPT ![k] = "over"]
        /\ UNCHANGED <<claude, state, token, job, draft, out, gone, last>>
        /\ pc[k] \in {"done", "failed"}
        /\ pc[k] = "done" => told' = IF out[k] = "added" /\ claude # None
                                       THEN told \cup {job[k].server}
                                     ELSE IF Newest(k) THEN told \ {job[k].server} ELSE told
        /\ pc[k] = "failed" => told' = told \cup {job[k].server}
    BY <1>1, <2>0 DEF CallAnswers, Step, ClaudeRunning
  <2>2. pc'[k] = "over" /\ \A j \in Calls \ {k} : pc'[j] = pc[j]
    BY <2>1 DEF Safe, Typed
  <2>3. \A j \in Calls : (Running(j)' <=> Running(j)) /\ (pc'[j] = "idle" <=> pc[j] = "idle")
                          /\ (pc[j] \in {"done", "over"} => pc'[j] \in {"done", "over"})
                          /\ (pc'[j] \in {"compare", "edit", "move"} => pc'[j] = pc[j])
    BY <2>1, <2>2 DEF Running, Script
  <2>4. StaleKnown'
    <3> SUFFICES ASSUME NEW s \in Servers, Stale(s)' PROVE \E j \in Calls : WillTell(j, s)'
      BY DEF StaleKnown
    <3>0. CASE s \in told
      <4>1. pc[k] = "done" /\ Newest(k) /\ job[k].server = s /\ out[k] # "added" /\ claude # None
        BY <2>1, <3>0 DEF Stale
      <4>2. last[s] = k BY <4>1 DEF UsableInv, NewestIsLast
      <4>3. out[k] = "unchanged" BY <4>1 DEF UsableInv, NewestIsLast
      <4>4. FindsInPlace(k) BY <4>1, <4>2, <4>3 DEF FindsInPlace
      <4>5. state # None /\ state.servers[s] = job[k].url
        BY <2>1, <4>2 DEF Stale, UsableInv, EntryIsLast
      <4>6. claude[s] = job[k].url BY <4>1, <4>4, <4>5 DEF UsableInv, InPlaceLoaded
      <4> QED BY <2>1, <4>2, <4>6 DEF Stale
    <3> SUFFICES ASSUME s \notin told PROVE \E j \in Calls : WillTell(j, s)' BY <3>0
    <3>1. Stale(s) BY <2>1 DEF Stale
    <3>2. PICK j \in Calls : WillTell(j, s) BY <3>1 DEF UsableInv, StaleKnown
    <3>3. j # k BY <2>1, <3>2 DEF WillTell, Stale
    <3> QED BY <2>1, <2>2, <3>2, <3>3 DEF WillTell
  <2> HIDE DEF Running
  <2>5. InTurn' /\ LastEnded' BY <2>1, <2>3 DEF UsableInv, InTurn, LastEnded
  <2>6. EntryIsLast' /\ DraftIs' /\ TokenNew'
    BY <2>1, <2>3 DEF UsableInv, EntryIsLast, DraftIs, TokenNew
  <2>7. AnswersTyped' BY <2>1, <2>3 DEF UsableInv, AnswersTyped
  <2>8. GoneTold'
    <3> SUFFICES ASSUME claude # None, NEW j \in gone, Running(j) PROVE job[j].server \in told'
      BY <2>1, <2>3 DEF GoneTold, UsableInv, AnswersTyped
    <3>1. j \in Calls /\ job[j].server \in told BY DEF UsableInv, AnswersTyped, GoneTold
    <3>2. CASE pc[k] = "done" /\ Newest(k) /\ job[k].server = job[j].server
      <4>1. j # k /\ pc[j] # "idle" BY <3>2 DEF Running, Script
      <4>2. ~(j > k) BY <3>1, <3>2, <4>1 DEF Newest
      <4>3. k > j BY <3>1, <4>1, <4>2, BoundsAssumption DEF Calls
      <4>4. pc[k] = "idle" BY <3>1, <4>3 DEF UsableInv, InTurn
      <4> QED BY <3>2, <4>4
    <3>3. CASE ~(pc[k] = "done" /\ Newest(k) /\ job[k].server = job[j].server)
      BY <2>1, <3>1, <3>3
    <3> QED BY <3>2, <3>3
  <2>9. \A j \in Calls : FindsInPlace(j)' => FindsInPlace(j)
    BY <2>1, <2>2, <2>3 DEF FindsInPlace
  <2>10. InPlaceLoaded' BY <2>1, <2>9 DEF UsableInv, InPlaceLoaded
  <2>11. \A j \in Calls : Newest(j)' => Newest(j) BY <2>1, <2>3, NewestAgain
  <2>12. \A j \in Calls : pc'[j] = "done" => pc[j] = "done" BY <2>2
  <2>13. NewestIsLast' BY <2>1, <2>11, <2>12 DEF UsableInv, NewestIsLast
  <2> QED BY <2>4, <2>5, <2>6, <2>7, <2>8, <2>10, <2>13 DEF UsableInv
<1>2. CASE CallGivenUp(k)
  <2>1. /\ Running(k) /\ gone' = gone \cup {k} /\ told' = told \cup {job[k].server}
        /\ UNCHANGED <<claude, state, token, pc, job, draft, out, last>>
    BY <1>2 DEF CallGivenUp
  <2>2. pc[k] \notin {"idle", "done"} BY <2>1 DEF Running, Script
  <2>3. StaleKnown' BY <2>1, <2>2 DEF UsableInv, StaleKnown, Stale, WillTell
  <2>4. GoneTold' BY <2>1 DEF UsableInv, GoneTold, Running
  <2>5. AnswersTyped' BY <2>1, <2>2 DEF UsableInv, AnswersTyped
  <2>6. InPlaceLoaded' /\ NewestIsLast'
    BY <2>1 DEF UsableInv, InPlaceLoaded, FindsInPlace, NewestIsLast, Newest, Running
  <2> QED BY <2>1, <2>3, <2>4, <2>5, <2>6
          DEF UsableInv, InTurn, LastEnded, EntryIsLast, DraftIs, TokenNew, Running
<1> QED BY <1>1, <1>2

LEMMA UsableStep == ASSUME Faults = {}, Safe, UsableInv, [Next]_vars PROVE UsableInv'
<1>1. CASE UNCHANGED vars
  <2>1. InTurn' /\ LastEnded' /\ AnswersTyped'
    BY <1>1 DEF UsableInv, AnswersTyped, InTurn, LastEnded, Running
  <2>2. EntryIsLast' /\ DraftIs' /\ TokenNew' BY <1>1 DEF UsableInv, EntryIsLast, DraftIs, TokenNew
  <2>3. StaleKnown' /\ GoneTold'
    BY <1>1 DEF UsableInv, StaleKnown, Stale, WillTell, GoneTold, Running
  <2>4. InPlaceLoaded' /\ NewestIsLast'
    BY <1>1 DEF UsableInv, InPlaceLoaded, FindsInPlace, NewestIsLast, Newest, Running
  <2> QED BY <2>1, <2>2, <2>3, <2>4 DEF UsableInv
<1>2. CASE Session BY <1>2, SessionUsable
<1>3. ASSUME NEW k \in Calls,
             \/ CallStarts(k) \/ ScriptChecks(k) \/ ScriptKeepsToken(k) \/ ScriptCompares(k)
             \/ ScriptEdits(k) \/ ScriptMoves(k) \/ CallAnswers(k) \/ CallGivenUp(k)
      PROVE  UsableInv'
  BY <1>3, StartsUsable, ChecksUsable, KeepsTokenUsable, ComparesUsable, EditsUsable,
     MovesUsable, EndsUsable
<1> QED BY <1>1, <1>2, <1>3 DEF Next

\* "The result says whether Claude can use the server now or must restart first": with none
\* of the rare orders, a running Claude has loaded what was handed over last for a server, or
\* the last answer about it since Claude started did not say that it need not restart, or a
\* call is about to say that it must (session_mcp_set, INSTALL_SCRIPT), for any number of
\* servers, calls, restarts and starts of Claude.
THEOREM ClaudeCanUseOrCallerKnows == ASSUME Faults = {} PROVE Spec => []UsableOrTold
<1>1. Init => Safe /\ UsableInv BY SafeInit, UsableInit
<1>2. Safe /\ UsableInv /\ [Next]_vars => Safe' /\ UsableInv' BY SafeStep, UsableStep DEF Apart
<1>3. UsableInv => UsableOrTold
  <2> SUFFICES ASSUME UsableInv, claude # None, NEW s \in Servers, last[s] # 0, ~CanUse(s),
                      s \notin told
               PROVE  \E k \in Calls : UnderWay(k) /\ job[k].server = s
    BY DEF UsableOrTold
  <2>1. Stale(s) BY DEF Stale, CanUse, UsableInv, TokenNew
  <2> QED BY <2>1 DEF UsableInv, StaleKnown, WillTell, UnderWay
<1> QED BY <1>1, <1>2, <1>3, PTL DEF Spec
=============================================================================
