----------------------------- MODULE SessionMcp -----------------------------
(***************************************************************************)
(* session_mcp_set (mcp/src/aidc_mcp/session_mcp.py and _hand_session_mcp  *)
(* in tools.py): an orchestrator hands a session's Claude one MCP server.  *)
(* A script in the container writes the token and the entry in             *)
(* .claude.json, a file that the first start installs from a seed, that    *)
(* Claude writes to, and whose servers Claude loads when it starts.        *)
(***************************************************************************)
EXTENDS Naturals, FiniteSets

CONSTANTS
  Servers, Urls,
  None,        \* no file, no entry, no Claude
  MaxCalls,    \* bound: calls
  MaxStarts,   \* bound: starts of Claude
  Faults       \* which rare orders the run lets happen, see FaultKinds

\* "overlap"  two scripts in the session at once
\* "slowcopy" something happens between the opening of .claude.json by the first
\*            start's cp and its writing
\* "ownwrite" Claude writes .claude.json between the script's reading and its mv
\* "orphan"   Claude starts while the script of a call that was given up on runs
\* "again"    a server is handed over again, its entry unchanged, before the running Claude
\*            has loaded it: for a new token, or for a call that was given up on
\* "noexec"   docker does not answer the question whether Claude runs
FaultKinds == {"overlap", "slowcopy", "ownwrite", "orphan", "again", "noexec"}

Calls == 1..MaxCalls

ASSUME NoneAssumption ==
  None \notin Urls /\ None \notin [own : SUBSET {"seed", "login"}, servers : [Servers -> Urls \cup {None}]]
ASSUME BoundsAssumption ==
  MaxCalls \in Nat /\ MaxStarts \in Nat /\ Faults \subseteq FaultKinds

VARIABLES
  seed,    \* the audit dir holds a seed
  up,      \* the container: "down", "boot", "copy" (the seed), "up"
  state,   \* .claude.json: what of Claude's own it holds, and mcpServers; or None
  token,   \* token[s]: <s>.bearer, named for the call that brought it; 0 for none
  claude,  \* the servers the running Claude loaded, or None
  pc,      \* pc[k]: where the script of call k is
  job,     \* job[k]: the server and the URL of call k
  draft,   \* draft[k]: what it is about to move to .claude.json
  out,     \* out[k]: what it printed
  gone,    \* calls given up on, whose scripts go on
  told,    \* history: servers whose last answer since Claude started did not say that the
           \* running Claude can use them: it must restart, or the call failed
  last,    \* history: the last call whose script said it put server s in place
  starts   \* bound

container == <<seed, up, claude, starts>>
script    == <<pc, job, draft, out, gone>>
history   == <<told, last>>
vars      == <<container, state, token, script, history>>

Entries == [Servers -> Urls \cup {None}]
NoEntry == [s \in Servers |-> None]
Blank   == [own |-> {}, servers |-> NoEntry]   \* an empty file, or {}

Script == {"check", "token", "compare", "edit", "move"}
Running(k) == pc[k] \in Script

-----------------------------------------------------------------------------
(* The session                                                             *)

ContainerStarts ==
  /\ up = "down" /\ up' = "boot"
  /\ UNCHANGED <<seed, claude, starts, state, token, script, history>>

\* A slip: the seed is installed on every start.
SeedInstallsAlways ==
  /\ up = "boot"
  /\ IF seed THEN up' = "copy" /\ state' = Blank ELSE up' = "up" /\ UNCHANGED state
  /\ UNCHANGED <<seed, claude, starts, token, script, history>>

\* aidc_install_claude_state_seed: cp opens the file.
SeedInstalls ==
  /\ up = "boot"
  /\ IF state = None /\ seed
     THEN up' = "copy" /\ state' = Blank
     ELSE up' = "up" /\ UNCHANGED state
  /\ UNCHANGED <<seed, claude, starts, token, script, history>>

\* cp writes, at the beginning of the file it has open.
SeedCopied ==
  /\ up = "copy" /\ up' = "up"
  /\ state' = [Blank EXCEPT !.own = {"seed"}]
  /\ UNCHANGED <<seed, claude, starts, token, script, history>>

\* Nothing comes between the two, unless the run lets it.
NotCopying == up = "copy" => "slowcopy" \in Faults

\* aidc restart, upgrade, a crash: what runs in the container ends.
ContainerStops ==
  /\ up \in {"boot", "copy", "up"} /\ NotCopying
  /\ up' = "down" /\ claude' = None
  /\ pc' = [k \in Calls |-> IF ~Running(k) THEN pc[k] ELSE IF k \in gone THEN "over"
                            ELSE "failed"]
  /\ UNCHANGED <<seed, starts, state, token, job, draft, out, gone, history>>

\* Claude starts, and loads its servers.
ClaudeStarts ==
  /\ up = "up" /\ claude = None /\ starts < MaxStarts
  /\ "orphan" \in Faults \/ \A k \in gone : ~Running(k)
  /\ claude' = IF state = None THEN NoEntry ELSE state.servers
  /\ starts' = starts + 1 /\ told' = {}
  /\ UNCHANGED <<seed, up, state, token, script, last>>

ClaudeExits ==
  /\ claude # None /\ claude' = None
  /\ UNCHANGED <<seed, up, starts, state, token, script, history>>

\* The account someone logged in with, a setting.
ClaudeWrites ==
  /\ claude # None
  /\ "ownwrite" \in Faults \/ \A k \in Calls : pc[k] # "move"
  /\ state' = IF state = None THEN [Blank EXCEPT !.own = {"login"}]
              ELSE [state EXCEPT !.own = @ \cup {"login"}]
  /\ UNCHANGED <<container, token, script, history>>

-----------------------------------------------------------------------------
(* INSTALL_SCRIPT                                                          *)

Step(k, from, to) == pc[k] = from /\ pc' = [pc EXCEPT ![k] = to]

\* The entry is in place, and the running Claude has not loaded it.
Again(s, u) ==
  claude # None /\ state # None /\ state.servers[s] = u /\ claude[s] # u

\* hand: the script is started with what check() let through.
CallStarts(k) ==
  /\ Step(k, "idle", "check") /\ up # "down" /\ \A j \in 1..(k - 1) : pc[j] # "idle"
  /\ "overlap" \in Faults \/ \A j \in Calls : ~Running(j)
  /\ \E s \in Servers, u \in Urls :
       /\ Again(s, u) => "again" \in Faults
       /\ job' = [job EXCEPT ![k] = [server |-> s, url |-> u]]
  /\ UNCHANGED <<container, state, token, draft, out, gone, history>>

\* A slip: the script does not ask whether the seed is installed.
ScriptChecksNothing(k) ==
  /\ Step(k, "check", "token")
  /\ UNCHANGED <<container, state, token, job, draft, out, gone, history>>

\* A seed that waits to be installed ends it with exit code 3.
ScriptChecks(k) ==
  /\ NotCopying
  /\ IF state = None /\ seed THEN Step(k, "check", "failed") ELSE Step(k, "check", "token")
  /\ UNCHANGED <<container, state, token, job, draft, out, gone, history>>

\* The helper, and the token by a rename.
ScriptKeepsToken(k) ==
  /\ Step(k, "token", "compare")
  /\ token' = [token EXCEPT ![job[k].server] = k]
  /\ UNCHANGED <<container, state, job, draft, out, gone, history>>

\* A slip: the entry is compared by its name only.
SameByName(k) == state # None /\ state.servers[job[k].server] # None

Same(k) == state # None /\ state.servers[job[k].server] = job[k].url

\* What the script prints; it is the last of its server to end.
Says(k, entry) ==
  /\ out' = [out EXCEPT ![k] = entry]
  /\ last' = [last EXCEPT ![job[k].server] = k]

ScriptCompares(k) ==
  /\ pc[k] = "compare" /\ NotCopying
  /\ state' = IF state = None THEN Blank ELSE state
  /\ IF Same(k)
     THEN Step(k, "compare", "done") /\ Says(k, "unchanged")
     ELSE Step(k, "compare", "edit") /\ UNCHANGED <<out, last>>
  /\ UNCHANGED <<container, token, job, draft, gone, told>>

ScriptEdits(k) ==
  /\ Step(k, "edit", "move")
  /\ draft' = [draft EXCEPT ![k] = [state EXCEPT !.servers[job[k].server] = job[k].url]]
  /\ UNCHANGED <<container, state, token, job, out, gone, history>>

ScriptMoves(k) ==
  /\ Step(k, "move", "done") /\ Says(k, "added")
  /\ state' = draft[k] /\ draft' = [draft EXCEPT ![k] = None]
  /\ UNCHANGED <<container, token, job, gone, told>>

-----------------------------------------------------------------------------
(* _hand_session_mcp                                                       *)

\* _is_claude_running, by the foreground process of its tmux window: what docker says of
\* it, or, when its exec fails, either.
ClaudeRunning == {claude # None} \cup (IF "noexec" \in Faults THEN BOOLEAN ELSE {})

\* A slip: a server whose URL changed counts as one Claude has.
NeedsRestartIfNew(k, running) ==
  out[k] = "added" /\ running /\ claude # None /\ claude[job[k].server] = None

NeedsRestart(k, running) == out[k] = "added" /\ running

\* No call for its server came after it.
Newest(k) ==
  \A j \in Calls : j > k /\ pc[j] # "idle" => job[j].server # job[k].server

\* The script has ended: is Claude running, and must it restart?
CallAnswers(k) ==
  /\ k \notin gone
  /\ \/ /\ Step(k, "done", "over")
        /\ \E running \in ClaudeRunning :
             told' = IF NeedsRestart(k, running) THEN told \cup {job[k].server}
                     ELSE IF Newest(k) THEN told \ {job[k].server} ELSE told
     \/ /\ Step(k, "failed", "over")
        /\ told' = told \cup {job[k].server}
  /\ UNCHANGED <<container, state, token, job, draft, out, gone, last>>

\* The time limit of hand, or the client's cancel. The script goes on.
CallGivenUp(k) ==
  /\ Running(k) /\ k \notin gone
  /\ gone' = gone \cup {k} /\ told' = told \cup {job[k].server}
  /\ UNCHANGED <<container, state, token, pc, job, draft, out, last>>

-----------------------------------------------------------------------------
Init ==
  /\ seed \in BOOLEAN /\ up = "down" /\ state = None
  /\ token = [s \in Servers |-> 0] /\ claude = None
  /\ pc = [k \in Calls |-> "idle"] /\ job = [k \in Calls |-> None]
  /\ draft = [k \in Calls |-> None] /\ out = [k \in Calls |-> None]
  /\ gone = {} /\ told = {} /\ last = [s \in Servers |-> 0] /\ starts = 0

Session == ContainerStarts \/ SeedInstalls \/ SeedCopied \/ ContainerStops
           \/ ClaudeStarts \/ ClaudeExits \/ ClaudeWrites

Next ==
  \/ Session
  \/ \E k \in Calls :
       \/ CallStarts(k) \/ ScriptChecks(k) \/ ScriptKeepsToken(k) \/ ScriptCompares(k)
       \/ ScriptEdits(k) \/ ScriptMoves(k) \/ CallAnswers(k) \/ CallGivenUp(k)

Spec == Init /\ [][Next]_vars

-----------------------------------------------------------------------------
(* Properties                                                              *)

\* What .claude.json holds, or will once the first start has installed the seed.
Own  == (IF state = None THEN {} ELSE state.own)
        \cup (IF seed /\ (state = None \/ up = "copy") THEN {"seed"} ELSE {})
Held == IF state = None THEN {} ELSE {s \in Servers : state.servers[s] # None}

\* MCP-39: the entry is written "after the first-start seed", "never into the seed, and
\* MUST survive `aidc restart`"; and the seed is never reapplied over what Claude wrote.
NothingLost == [][Own \subseteq Own' /\ Held \subseteq Held']_vars

\* Claude loaded what was handed over last, and finds a token as new as that.
CanUse(s) == claude[s] = job[last[s]].url /\ token[s] >= last[s]

\* The script is running, or its call is still to be answered.
UnderWay(k) == Running(k) \/ (pc[k] \in {"done", "failed"} /\ k \notin gone)

\* "The result says whether Claude can use the server now or must restart first": with
\* no call for a server under way, a running Claude can use it, or the last answer about it
\* since Claude started said that it must restart, or that the call failed. An answer
\* that it need not restart takes back every one before it.
UsableOrTold ==
  claude # None => \A s \in Servers :
    \/ last[s] = 0 \/ CanUse(s) \/ s \in told
    \/ \E k \in Calls : UnderWay(k) /\ job[k].server = s
=============================================================================
