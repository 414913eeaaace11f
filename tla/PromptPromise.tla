--------------------------- MODULE PromptPromise ---------------------------
(***************************************************************************)
(* What session_send promises of the prompts it accepts, with no server,   *)
(* queue file, drainer or lock in it: a prompt that is accepted waits, the *)
(* prompts that wait reach Claude in the order they arrived, and none is   *)
(* given twice, dropped silently, or overtaken. SendQueue implements it.   *)
(***************************************************************************)
EXTENDS Naturals, FiniteSets

CONSTANT Prompts

VARIABLES
  fate,   \* what became of each prompt
  times,  \* how often it was given to Claude
  rank    \* its place in the order of arrival, 0 for one that never waited

Fates == {"unsent", "failed", "waiting", "given", "cancelled", "killed"}

With(f)  == {p \in Prompts : fate[p] = f}
Arrivals == {p \in Prompts : rank[p] > 0}

Become(S, f) == fate' = [p \in Prompts |-> IF p \in S THEN f ELSE fate[p]]

Give(S) ==
  /\ Become(S, "given")
  /\ times' = [p \in Prompts |-> IF p \in S THEN times[p] + 1 ELSE times[p]]

-----------------------------------------------------------------------------
Init ==
  /\ fate = [p \in Prompts |-> "unsent"]
  /\ rank = [p \in Prompts |-> 0] /\ times = [p \in Prompts |-> 0]

\* "queued": the prompt waits behind every prompt that came before it.
Accept(p) ==
  /\ Become({p}, "waiting")
  /\ rank' = [rank EXCEPT ![p] = Cardinality(Arrivals) + 1] /\ UNCHANGED times

\* "ok": the prompt reaches Claude at once, and only when it overtakes none.
GiveAtOnce(p) ==
  /\ With("waiting") = {}
  /\ Give({p}) /\ UNCHANGED rank

\* A call dies with its server, or is cancelled, before it answers. Text it had
\* already left in the input box can still be submitted there.
Fail(S) == Become(S, "failed") /\ UNCHANGED <<times, rank>>

GiveFailed(S) == Give(S) /\ UNCHANGED rank

\* The prompts that waited longest reach Claude, as one message.
GiveNext(S) ==
  /\ \A p \in S, q \in With("waiting") \ S : rank[p] < rank[q]
  /\ Give(S) /\ UNCHANGED rank

\* Prompts are taken back by a caller, or reported with their removed session.
Report(S, why) == Become(S, why) /\ UNCHANGED <<times, rank>>

Next ==
  \/ \E p \in With("unsent") : Accept(p) \/ GiveAtOnce(p)
  \/ \E S \in SUBSET With("unsent")  : Fail(S)
  \/ \E S \in SUBSET With("failed")  : GiveFailed(S)
  \/ \E S \in SUBSET With("waiting") :
       GiveNext(S) \/ Report(S, "cancelled") \/ Report(S, "killed")

Spec == Init /\ [][Next]_<<fate, times, rank>>
=============================================================================
