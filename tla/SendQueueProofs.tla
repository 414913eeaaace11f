--------------------------- MODULE SendQueueProofs ---------------------------
(***************************************************************************)
(* Proofs about SendQueue, for every number of prompts, every queue depth  *)
(* and every bound. Three parts: the types, the locks and what each prompt *)
(* ends as; what is pasted and into which session; and that SendQueue      *)
(* implements PromptPromise.                                               *)
(***************************************************************************)
EXTENDS SendQueue, FiniteSetTheorems, TLAPS

\* The frame of a step: the groups of variables, spelt out.
USE DEF vars, server, disk, session, history

LEMMA ActorsFacts ==
  /\ Prompts \subseteq Actors /\ Injectors \subseteq Actors
  /\ "drainer" \in Actors /\ "canceller" \in Actors /\ "resumer" \in Actors
  /\ "drainer" \notin Prompts /\ "canceller" \notin Prompts /\ "resumer" \notin Prompts
  /\ Free \notin Actors
BY PromptsAssumption DEF Actors, Workers, Injectors, Free

LEMMA ArrivedType == Cardinality(Arrived) \in Nat
<1>1. Arrived \subseteq Prompts BY DEF Arrived
<1> QED BY <1>1, PromptsAssumption, FS_Subset, FS_CardinalityType

\* What _persist_queue writes is part of the queue it writes.
LEMMA SavedType ==
  ASSUME file \subseteq Prompts, fileBox \subseteq file, queue' \subseteq Prompts, SaveQueue
  PROVE  file' \subseteq Prompts /\ fileBox' \subseteq file'
BY DEF SaveQueue, InBox

LEMMA DisturbType ==
  ASSUME moves \in 0..MaxMoves, Disturb
  PROVE  moves' \in 0..MaxMoves
BY BoundsAssumption DEF Disturb

\* TypeOK is inductive.
LEMMA TypeInit == Init => TypeOK
<1> SUFFICES ASSUME Init PROVE TypeOK OBVIOUS
<1> USE BoundsAssumption DEF Init, Gone, Unknown
<1>1. pc \in [Actors -> Places] BY DEF Places
<1>2. batch \in [Actors -> SUBSET Prompts] /\ seen \in [Actors -> -1..MaxInst] OBVIOUS
<1>3. dead \in [Prompts -> {"none", "killed", "cancelled"}] OBVIOUS
<1>4. ticket \in [Prompts -> Nat] /\ given \in [Prompts -> Nat] OBVIOUS
<1>5. owner \in [Prompts -> 0..MaxInst] /\ home \in [Prompts -> 0..MaxInst] /\ into \in [Prompts -> 0..MaxInst] OBVIOUS
<1>6. crashes \in 0..MaxCrashes /\ moves \in 0..MaxMoves OBVIOUS
<1>7. made \in 0..MaxInst /\ inst \in {Gone, made} OBVIOUS
<1>8. lock \in Actors \cup {Free} /\ turn \in {"idle", "running", "away"} /\ tainted \in BOOLEAN /\ loaded \in BOOLEAN
  OBVIOUS
<1>9. queue \subseteq Prompts /\ unsub \subseteq Prompts /\ file \subseteq Prompts /\ fileBox \subseteq file /\ pasted \subseteq Prompts /\ box \subseteq Prompts \cup {Person} /\ held \subseteq Prompts
  OBVIOUS
<1> HIDE DEF Init, Gone, Unknown
<1> QED BY <1>1, <1>2, <1>3, <1>4, <1>5, <1>6, <1>7, <1>8, <1>9 DEF TypeOK

LEMMA TypeSend ==
  ASSUME TypeOK, NEW p \in Prompts, SendStep(p) \/ SendCancelled(p) \/ SendCutShort(p)
  PROVE  TypeOK'
<1>1. CASE SendStart(p)
  BY <1>1, ActorsFacts DEF SendStart, TypeOK, Places, GoTo, Answers, Gone
<1>2. CASE SendDecide(p)
  BY <1>2, ActorsFacts DEF SendDecide, TypeOK, Places, GoTo
<1>3. CASE SendInspect(p)
  BY <1>3, ActorsFacts, BoundsAssumption DEF SendInspect, TypeOK, Places, GoTo, Answers, Gone, Unknown
<1>4. CASE SendAppend(p)
  <2> USE <1>4 DEF SendAppend
  <2>1. pc' \in [Actors -> Places] /\ lock' \in Actors \cup {Free}
    BY ActorsFacts DEF TypeOK, Places, GoTo, Spawning, Release
  <2>2. queue' \subseteq Prompts /\ file' \subseteq Prompts /\ fileBox' \subseteq file'
    BY SavedType DEF TypeOK
  <2>3. ticket' \in [Prompts -> Nat]
    BY ArrivedType DEF TypeOK
  <2>4. owner' \in [Prompts -> 0..MaxInst] /\ home' \in [Prompts -> 0..MaxInst]
    BY ActorsFacts, BoundsAssumption DEF TypeOK, Gone
  <2>5. held' \subseteq Prompts
    BY DEF TypeOK, Hold
  <2> QED BY <2>1, <2>2, <2>3, <2>4, <2>5 DEF TypeOK
<1>5. CASE SendSpawn(p)
  BY <1>5, ActorsFacts DEF SendSpawn, TypeOK, Places, Spawning, Release
<1>6. CASE SendCancelled(p)
  BY <1>6, ActorsFacts DEF SendCancelled, TypeOK, Places, GoTo, Release
<1>7. CASE SendCutShort(p)
  <2> USE <1>7 DEF SendCutShort
  <2>1. /\ given' \in [Prompts -> Nat] /\ into' \in [Prompts -> 0..MaxInst]
        /\ box' \subseteq Prompts \cup {Person} /\ turn' \in {"idle", "running", "away"}
    BY BoundsAssumption DEF SubmitBox, TypeOK, Gone
  <2>2. pc' \in [Actors -> Places] /\ lock' \in Actors \cup {Free} /\ unsub' \subseteq Prompts
    BY ActorsFacts DEF TypeOK, Places, GoTo, Release
  <2> QED BY <2>1, <2>2 DEF TypeOK
<1> QED BY <1>1, <1>2, <1>3, <1>4, <1>5, <1>6, <1>7 DEF SendStep

\* The queue is saved and loaded by three kinds of actor.
LEMMA TypeLock ==
  ASSUME TypeOK, NEW a \in Actors, Acquire(a) \/ LoadQueue(a) \/ Unlock(a)
  PROVE  TypeOK'
<1>1. CASE Acquire(a)
  BY <1>1, ActorsFacts DEF Acquire, TypeOK, Places, GoTo, NextAfterLoad
<1>2. CASE LoadQueue(a)
  <2> USE <1>2 DEF LoadQueue
  <2>1. pc' \in [Actors -> Places]
    BY ActorsFacts DEF TypeOK, Places, GoTo, Spawning, NextAfterLoad
  <2>2. queue' \subseteq Prompts /\ unsub' \subseteq Prompts
    BY DEF TypeOK
  <2>3. file' \subseteq Prompts /\ fileBox' \subseteq file'
    BY <2>2, SavedType DEF TypeOK
  <2>4. dead' \in [Prompts -> {"none", "killed", "cancelled"}]
    BY DEF TypeOK, DeadLetter
  <2> QED BY <2>1, <2>2, <2>3, <2>4 DEF TypeOK
<1>3. CASE Unlock(a)
  BY <1>3, ActorsFacts DEF Unlock, TypeOK, Places, GoTo, Release
<1> QED BY <1>1, <1>2, <1>3

LEMMA TypeInject ==
  ASSUME TypeOK, NEW a \in Injectors, InjectStep(a)
  PROVE  TypeOK'
<1> a \in Actors BY ActorsFacts
<1>0. ASSUME PasteFailed(a)
      PROVE  /\ pc' \in [Actors -> Places] /\ lock' \in Actors \cup {Free}
             /\ file' \subseteq Prompts /\ fileBox' \subseteq file'
             /\ UNCHANGED <<queue, ticket>> /\ held' \subseteq Prompts
  <2> USE <1>0 DEF PasteFailed
  <2>1. pc' \in [Actors -> Places] /\ lock' \in Actors \cup {Free}
    BY DEF TypeOK, Places, GoTo, Release
  <2>2. file' \subseteq Prompts /\ fileBox' \subseteq file'
    BY SavedType DEF TypeOK
  <2>3. held' \subseteq Prompts
    BY DEF TypeOK, Hold
  <2> QED BY <2>1, <2>2, <2>3
<1>1. CASE PasteLands(a)
  BY <1>1, ActorsFacts DEF PasteLands, Typed, TypeOK, Places, GoTo
<1>2. CASE PasteRefused(a)
  BY <1>2, <1>0, DisturbType DEF PasteRefused, TypeOK
<1>3. CASE PasteUnconfirmed(a)
  BY <1>3, <1>0, DisturbType DEF PasteUnconfirmed, Typed, TypeOK
<1>4. CASE PressEnter(a)
  <2>1. given' \in [Prompts -> Nat] /\ into' \in [Prompts -> 0..MaxInst]
        /\ box' \subseteq Prompts \cup {Person} /\ turn' \in {"idle", "running", "away"}
    BY <1>4, BoundsAssumption DEF PressEnter, SubmitBox, TypeOK, Gone
  <2> QED BY <1>4, <2>1 DEF PressEnter, TypeOK, Places, GoTo
<1>5. CASE RecordSent(a)
  BY <1>5 DEF RecordSent, TypeOK, Places, GoTo, Release
<1> QED BY <1>1, <1>2, <1>3, <1>4, <1>5 DEF InjectStep

LEMMA TypeDrain ==
  ASSUME TypeOK, DrainStep \/ DrainFails
  PROVE  TypeOK'
<1>0. ASSUME NEW next \in Places, Drop(next)
      PROVE  /\ pc' \in [Actors -> Places] /\ lock' \in Actors \cup {Free}
             /\ queue' \subseteq Prompts /\ unsub' \subseteq Prompts
             /\ file' \subseteq Prompts /\ fileBox' \subseteq file'
             /\ dead' \in [Prompts -> {"none", "killed", "cancelled"}]
  <2> USE <1>0 DEF Drop
  <2>1. pc' \in [Actors -> Places] /\ lock' \in Actors \cup {Free}
    BY DEF TypeOK, Places, GoTo, Release
  <2>2. queue' \subseteq Prompts /\ unsub' \subseteq Prompts
    BY DEF TypeOK
  <2>3. file' \subseteq Prompts /\ fileBox' \subseteq file'
    BY <2>2, SavedType DEF TypeOK
  <2>4. dead' \in [Prompts -> {"none", "killed", "cancelled"}]
    BY DEF TypeOK, DeadLetter
  <2> QED BY <2>1, <2>2, <2>3, <2>4
<1>1. CASE DrainLoop
  BY <1>1, ActorsFacts, BoundsAssumption
     DEF DrainLoop, TypeOK, Places, GoTo, Answers, Gone, Unknown
<1>2. CASE DrainDrop
  BY <1>2, <1>0 DEF DrainDrop, TypeOK, Places
<1>3. CASE DrainWait
  BY <1>3 DEF DrainWait, TypeOK, Places, GoTo
<1>4. CASE DrainLock
  BY <1>4, ActorsFacts, BoundsAssumption
     DEF DrainLock, TypeOK, Places, GoTo, Answers, Gone, Unknown
<1>5. CASE DrainDropLocked
  <2>1. NextBatch(queue', unsub') \subseteq queue'
    BY DEF NextBatch, InBox
  <2>2. Drop("taint") /\ "taint" \in Places
    BY <1>5 DEF DrainDropLocked, Places
  <2>3. queue' \subseteq Prompts
    BY <2>2, <1>0
  <2>4. batch' \in [Actors -> SUBSET Prompts]
    BY <1>5, <2>1, <2>3, ActorsFacts DEF DrainDropLocked, TypeOK
  <2> QED BY <1>5, <2>2, <2>4, <1>0 DEF DrainDropLocked, TypeOK
<1>6. CASE DrainTaint
  BY <1>6, ActorsFacts DEF DrainTaint, TypeOK, Places, GoTo, Release
<1>7. CASE DrainSave
  <2>1. file' \subseteq Prompts /\ fileBox' \subseteq file'
    BY <1>7, SavedType DEF DrainSave, TypeOK
  <2> QED BY <1>7, <2>1 DEF DrainSave, TypeOK, Places, GoTo, Release
<1>8. CASE DrainFails
  <2>1. held' \subseteq Prompts BY <1>8, ActorsFacts DEF DrainFails, TypeOK, Hold
  <2> QED BY <1>8, <2>1, DisturbType DEF DrainFails, TypeOK, Places, GoTo, Release
<1> QED BY <1>1, <1>2, <1>3, <1>4, <1>5, <1>6, <1>7, <1>8 DEF DrainStep

LEMMA TypeCancel ==
  ASSUME TypeOK, CancelStart \/ CancelStep \/ CancelCancelled
  PROVE  TypeOK'
<1>0. ASSUME NEW S \in SUBSET Prompts, queue' \subseteq Prompts, Cancelled(S)
      PROVE  /\ pc' \in [Actors -> Places] /\ UNCHANGED <<unsub, ticket>>
             /\ file' \subseteq Prompts /\ fileBox' \subseteq file'
             /\ dead' \in [Prompts -> {"none", "killed", "cancelled"}]
  BY <1>0, SavedType DEF Cancelled, GoTo, Places, DeadLetter, TypeOK
<1>1. CASE CancelStart
  BY <1>1, DisturbType DEF CancelStart, TypeOK, Places, GoTo
<1>2. CASE CancelTake
  <2>1. PICK S \in SUBSET Prompts :
          /\ queue' = queue \ S
          /\ IF S # {} /\ S = queue
             THEN /\ batch' = [batch EXCEPT !["canceller"] = S]
                  /\ GoTo("canceller", "save")
                  /\ UNCHANGED <<unsub, ticket, file, fileBox, dead>>
             ELSE Cancelled(S) /\ UNCHANGED batch
    BY <1>2 DEF CancelTake, Open, TypeOK
  <2>2. CASE S # {} /\ S = queue
    BY <1>2, <2>1, <2>2 DEF CancelTake, TypeOK, GoTo, Places
  <2>3. CASE ~(S # {} /\ S = queue)
    BY <1>2, <2>1, <2>3, <1>0 DEF CancelTake, TypeOK
  <2> QED BY <2>2, <2>3
<1>3. CASE CancelSave
  <2>1. batch["canceller"] \in SUBSET Prompts
    BY ActorsFacts DEF TypeOK
  <2> QED BY <1>3, <2>1, <1>0, ActorsFacts DEF CancelSave, TypeOK
<1>4. CASE CancelCancelled
  BY <1>4, ActorsFacts DEF CancelCancelled, TypeOK, Places, GoTo, Release
<1> QED BY <1>1, <1>2, <1>3, <1>4 DEF CancelStep

LEMMA TypeSession ==
  ASSUME TypeOK, SessionStep \/ Restart
  PROVE  TypeOK'
<1>1. CASE Restart
  <2>1. pc' \in [Actors -> Places]
    BY <1>1 DEF Restart, AfterRestart, TypeOK, Places
  <2>2. batch' \in [Actors -> SUBSET Prompts] /\ seen' \in [Actors -> -1..MaxInst]
    BY <1>1, BoundsAssumption DEF Restart, Unknown
  <2>3. crashes' \in 0..MaxCrashes
    BY <1>1, BoundsAssumption DEF Restart, TypeOK
  <2> QED BY <1>1, <2>1, <2>2, <2>3 DEF Restart, TypeOK, Hold
<1>2. CASE Kill
  BY <1>2 DEF Kill, TypeOK, Gone
<1>3. CASE Create
  BY <1>3, BoundsAssumption DEF Create, TypeOK, Gone
<1>4. CASE PersonSubmits
  <2>1. given' \in [Prompts -> Nat] /\ into' \in [Prompts -> 0..MaxInst]
    BY <1>4, BoundsAssumption DEF PersonSubmits, SubmitBox, TypeOK, Gone
  <2> QED BY <1>4, <2>1, DisturbType DEF PersonSubmits, SubmitBox, TypeOK
<1>5. CASE Taint
  BY <1>5 DEF Taint, TypeOK
<1>6. CASE TurnEnds \/ ClaudeStarts
  BY <1>6 DEF TurnEnds, ClaudeStarts, TypeOK
<1>7. CASE TurnStarts
  BY <1>7, DisturbType DEF TurnStarts, TypeOK
<1>8. CASE ClaudeStops
  BY <1>8, DisturbType DEF ClaudeStops, TypeOK
<1>9. CASE PersonTypes
  BY <1>9, DisturbType DEF PersonTypes, TypeOK
<1>10. CASE PersonClears
  BY <1>10 DEF PersonClears, TypeOK
<1> QED BY <1>1, <1>2, <1>3, <1>4, <1>5, <1>6, <1>7, <1>8, <1>9, <1>10 DEF SessionStep

LEMMA TypeStep == TypeOK /\ [Next]_vars => TypeOK'
<1> SUFFICES ASSUME TypeOK, [Next]_vars PROVE TypeOK' OBVIOUS
<1>1. CASE UNCHANGED vars
  BY <1>1 DEF TypeOK
<1>2. CASE Next
  BY <1>2, TypeSend, TypeLock, TypeInject, TypeDrain, TypeCancel, TypeSession DEF Next
<1> QED BY <1>1, <1>2

\* Every variable keeps its type: no queue or file ever holds what was not
\* sent, and the in_box marks are of prompts in the file.
THEOREM TypeCorrect == Spec => []TypeOK
BY TypeInit, TypeStep, PTL DEF Spec

-----------------------------------------------------------------------------
\* The send lock is held by whoever is at a place that needs it: at most one
\* actor pastes, queues, loads or takes back at a time.
LEMMA LockStep == TypeOK /\ LockHeld /\ [Next]_vars => LockHeld'
<1> SUFFICES ASSUME TypeOK, LockHeld, [Next]_vars, NEW b \in Actors, pc'[b] \in Critical
             PROVE  lock' = b
  BY DEF LockHeld
<1>0. pc \in [Actors -> Places] /\ (pc[b] \in Critical => lock = b)
  BY DEF TypeOK, LockHeld
<1> USE <1>0, ActorsFacts DEF Critical, At, GoTo, Release, Spawning
<1>1. CASE UNCHANGED vars
  BY <1>1
<1>2. ASSUME NEW p \in Prompts, SendStep(p) \/ SendCancelled(p) \/ SendCutShort(p) PROVE lock' = b
  <2>1. CASE SendStart(p)      BY <2>1 DEF SendStart
  <2>2. CASE SendDecide(p)     BY <2>2 DEF SendDecide
  <2>3. CASE SendInspect(p)    BY <2>3 DEF SendInspect
  <2>4. CASE SendAppend(p)     BY <2>4 DEF SendAppend
  <2>5. CASE SendSpawn(p)      BY <2>5 DEF SendSpawn
  <2>6. CASE SendCancelled(p)  BY <2>6 DEF SendCancelled
  <2>7. CASE SendCutShort(p)   BY <2>7 DEF SendCutShort, SubmitBox
  <2> QED BY <1>2, <2>1, <2>2, <2>3, <2>4, <2>5, <2>6, <2>7 DEF SendStep
<1>3. ASSUME NEW a \in Actors \ {"drainer"}, Acquire(a) \/ LoadQueue(a) \/ Unlock(a)
      PROVE  lock' = b
  <2>1. CASE Acquire(a)    BY <1>3, <2>1 DEF Acquire, Free, LockHeld
  <2>2. CASE LoadQueue(a)  BY <2>2 DEF LoadQueue, NextAfterLoad
  <2>3. CASE Unlock(a)     BY <2>3 DEF Unlock
  <2> QED BY <1>3, <2>1, <2>2, <2>3
<1>4. ASSUME NEW a \in Injectors, InjectStep(a) PROVE lock' = b
  <2>0. a \in Actors OBVIOUS
  <2>1. CASE PasteLands(a)        BY <2>1 DEF PasteLands
  <2>2. CASE PasteRefused(a)      BY <2>0, <2>2 DEF PasteRefused, PasteFailed
  <2>3. CASE PasteUnconfirmed(a)  BY <2>0, <2>3 DEF PasteUnconfirmed, PasteFailed
  <2>4. CASE PressEnter(a)        BY <2>4 DEF PressEnter
  <2>5. CASE RecordSent(a)        BY <2>5 DEF RecordSent
  <2> QED BY <1>4, <2>1, <2>2, <2>3, <2>4, <2>5 DEF InjectStep
<1>5. CASE DrainStep \/ DrainFails
  <2>1. CASE DrainLoop        BY <2>1 DEF DrainLoop
  <2>2. CASE DrainDrop        BY <2>2 DEF DrainDrop, Drop
  <2>3. CASE DrainWait        BY <2>3 DEF DrainWait
  <2>4. CASE DrainLock        BY <2>4 DEF DrainLock
  <2>5. CASE DrainDropLocked  BY <2>5 DEF DrainDropLocked, Drop
  <2>6. CASE DrainTaint       BY <2>6 DEF DrainTaint
  <2>7. CASE DrainSave        BY <2>7 DEF DrainSave
  <2>8. CASE DrainFails       BY <2>8 DEF DrainFails
  <2> QED BY <1>5, <2>1, <2>2, <2>3, <2>4, <2>5, <2>6, <2>7, <2>8 DEF DrainStep
<1>6. CASE CancelStart \/ CancelStep \/ CancelCancelled
  <2>1. CASE CancelStart  BY <2>1 DEF CancelStart
  <2>2. CASE CancelTake   BY <2>2 DEF CancelTake, Cancelled
  <2>3. CASE CancelSave   BY <2>3 DEF CancelSave, Cancelled
  <2>4. CASE CancelCancelled  BY <2>4 DEF CancelCancelled
  <2> QED BY <1>6, <2>1, <2>2, <2>3, <2>4 DEF CancelStep
<1>7. CASE Restart
  BY <1>7 DEF Restart, AfterRestart
<1>8. CASE SessionStep
  BY <1>8 DEF SessionStep, Kill, Create, Taint, TurnStarts, TurnEnds, ClaudeStops,
              ClaudeStarts, PersonTypes, PersonClears, PersonSubmits
<1> QED BY <1>1, <1>2, <1>3, <1>4, <1>5, <1>6, <1>7, <1>8 DEF Next

-----------------------------------------------------------------------------
\* Nothing is queued, pasted or taken back before the saved queue is read.
LEMMA LoadedStep ==
  TypeOK /\ LockHeld /\ LoadedFirst /\ [Next]_vars => LoadedFirst'
<1> SUFFICES ASSUME TypeOK, LockHeld, LoadedFirst, [Next]_vars
             PROVE  LoadedFirst'
  OBVIOUS
<1>0. pc \in [Actors -> Places]
  BY DEF TypeOK
<1> USE <1>0, ActorsFacts DEF LoadedFirst, Serving, At, GoTo, Spawning
<1>1. CASE UNCHANGED vars
  BY <1>1
<1>2. ASSUME NEW p \in Prompts, SendStep(p) \/ SendCancelled(p) \/ SendCutShort(p) PROVE LoadedFirst'
  <2>1. CASE SendStart(p)      BY <2>1 DEF SendStart
  <2>2. CASE SendDecide(p)     BY <2>2 DEF SendDecide
  <2>3. CASE SendInspect(p)    BY <2>3 DEF SendInspect
  <2>4. CASE SendAppend(p)     BY <2>4 DEF SendAppend
  <2>5. CASE SendSpawn(p)      BY <2>5 DEF SendSpawn
  <2>6. CASE SendCancelled(p)  BY <2>6 DEF SendCancelled
  <2>7. CASE SendCutShort(p)   BY <2>7 DEF SendCutShort, SubmitBox
  <2> QED BY <1>2, <2>1, <2>2, <2>3, <2>4, <2>5, <2>6, <2>7 DEF SendStep
<1>3. ASSUME NEW a \in Actors \ {"drainer"}, Acquire(a) \/ LoadQueue(a) \/ Unlock(a)
      PROVE  LoadedFirst'
  <2>1. CASE Acquire(a)
    BY <2>1 DEF Acquire, NextAfterLoad
  <2>2. CASE LoadQueue(a)
    \* No other actor is loading: the lock is a's.
    <3>1. \A b \in Actors : pc[b] = "load" => b = a
      BY <2>2 DEF LoadQueue, LockHeld, Critical
    <3> QED BY <2>2, <3>1 DEF LoadQueue, NextAfterLoad
  <2>3. CASE Unlock(a)
    BY <2>3 DEF Unlock
  <2> QED BY <1>3, <2>1, <2>2, <2>3
<1>4. ASSUME NEW a \in Injectors, InjectStep(a) PROVE LoadedFirst'
  <2>0. a \in Actors OBVIOUS
  <2>1. CASE PasteLands(a)        BY <2>1 DEF PasteLands
  <2>2. CASE PasteRefused(a)      BY <2>0, <2>2 DEF PasteRefused, PasteFailed
  <2>3. CASE PasteUnconfirmed(a)  BY <2>0, <2>3 DEF PasteUnconfirmed, PasteFailed
  <2>4. CASE PressEnter(a)        BY <2>4 DEF PressEnter
  <2>5. CASE RecordSent(a)        BY <2>5 DEF RecordSent
  <2> QED BY <1>4, <2>1, <2>2, <2>3, <2>4, <2>5 DEF InjectStep
<1>5. CASE DrainStep \/ DrainFails
  <2>1. CASE DrainLoop        BY <2>1 DEF DrainLoop
  <2>2. CASE DrainDrop        BY <2>2 DEF DrainDrop, Drop
  <2>3. CASE DrainWait        BY <2>3 DEF DrainWait
  <2>4. CASE DrainLock        BY <2>4 DEF DrainLock
  <2>5. CASE DrainDropLocked  BY <2>5 DEF DrainDropLocked, Drop
  <2>6. CASE DrainTaint       BY <2>6 DEF DrainTaint
  <2>7. CASE DrainSave        BY <2>7 DEF DrainSave
  <2>8. CASE DrainFails       BY <2>8 DEF DrainFails
  <2> QED BY <1>5, <2>1, <2>2, <2>3, <2>4, <2>5, <2>6, <2>7, <2>8 DEF DrainStep
<1>6. CASE CancelStart \/ CancelStep \/ CancelCancelled
  <2>1. CASE CancelStart  BY <2>1 DEF CancelStart
  <2>2. CASE CancelTake   BY <2>2 DEF CancelTake, Cancelled
  <2>3. CASE CancelSave   BY <2>3 DEF CancelSave, Cancelled
  <2>4. CASE CancelCancelled  BY <2>4 DEF CancelCancelled
  <2> QED BY <1>6, <2>1, <2>2, <2>3, <2>4 DEF CancelStep
<1>7. CASE Restart
  BY <1>7 DEF Restart, AfterRestart
<1>8. CASE SessionStep
  BY <1>8 DEF SessionStep, Kill, Create, Taint, TurnStarts, TurnEnds, ClaudeStops,
              ClaudeStarts, PersonTypes, PersonClears, PersonSubmits
<1> QED BY <1>1, <1>2, <1>3, <1>4, <1>5, <1>6, <1>7, <1>8 DEF Next

-----------------------------------------------------------------------------
\* Nobody and nothing takes a pasted batch out of the box before Enter, when
\* Enter always arrives.
LEMMA GoesInStep ==
  ASSUME "enter" \notin Faults
  PROVE  TypeOK /\ LockHeld /\ BatchGoesIn /\ [Next]_vars => BatchGoesIn'
<1> SUFFICES ASSUME TypeOK, LockHeld, BatchGoesIn, [Next]_vars, NEW b \in Injectors
             PROVE  /\ pc'[b] = "enter" => batch'[b] \subseteq box'
                    /\ pc'[b] = "sent"  => \A p \in batch'[b] : given'[p] > 0
  BY DEF BatchGoesIn
<1> DEFINE Goal == /\ pc'[b] = "enter" => batch'[b] \subseteq box'
                   /\ pc'[b] = "sent"  => \A p \in batch'[b] : given'[p] > 0
<1>0. /\ pc \in [Actors -> Places] /\ batch \in [Actors -> SUBSET Prompts]
      /\ given \in [Prompts -> Nat] /\ b \in Actors /\ batch[b] \subseteq Prompts
      /\ pc[b] = "enter" => batch[b] \subseteq box
      /\ pc[b] = "sent"  => \A p \in batch[b] : given[p] > 0
  BY ActorsFacts DEF TypeOK, BatchGoesIn
<1> USE <1>0, ActorsFacts DEF At, GoTo, Spawning
<1>1. CASE UNCHANGED vars
  BY <1>1
<1>2. ASSUME NEW p \in Prompts, SendStep(p) \/ SendCancelled(p) \/ SendCutShort(p) PROVE Goal
  <2>1. CASE SendStart(p)      BY <2>1 DEF SendStart
  <2>2. CASE SendDecide(p)     BY <2>2 DEF SendDecide
  <2>3. CASE SendInspect(p)    BY <2>3 DEF SendInspect
  <2>4. CASE SendAppend(p)     BY <2>4 DEF SendAppend
  <2>5. CASE SendSpawn(p)      BY <2>5 DEF SendSpawn
  <2>6. CASE SendCancelled(p)  BY <2>6 DEF SendCancelled
  <2>7. CASE SendCutShort(p)
    <3>1. pc'[b] # "enter" /\ (pc'[b] = "sent" => pc[b] = "sent")
      BY <2>7 DEF SendCutShort, LockHeld, Critical
    <3> QED BY <2>7, <3>1 DEF SendCutShort, SubmitBox
  <2> QED BY <1>2, <2>1, <2>2, <2>3, <2>4, <2>5, <2>6, <2>7 DEF SendStep
<1>3. ASSUME NEW a \in Actors \ {"drainer"}, Acquire(a) \/ LoadQueue(a) \/ Unlock(a)
      PROVE  Goal
  <2>1. CASE Acquire(a)    BY <2>1 DEF Acquire, NextAfterLoad
  <2>2. CASE LoadQueue(a)  BY <2>2 DEF LoadQueue, NextAfterLoad
  <2>3. CASE Unlock(a)     BY <2>3 DEF Unlock
  <2> QED BY <1>3, <2>1, <2>2, <2>3
<1>4. ASSUME NEW a \in Injectors, InjectStep(a) PROVE Goal
  <2>0. a \in Actors /\ (b # a /\ pc[a] \in Critical => pc[b] \notin Critical)
    BY DEF LockHeld
  <2> USE <2>0 DEF Critical
  <2>1. CASE PasteLands(a)
    <3>1. batch[a] \subseteq box'
      BY <2>1 DEF PasteLands, Typed, OwnText
    <3> QED BY <2>1, <3>1 DEF PasteLands
  <2>2. CASE PasteRefused(a)
    BY <2>2 DEF PasteRefused, PasteFailed
  <2>3. CASE PasteUnconfirmed(a)
    BY <2>3 DEF PasteUnconfirmed, PasteFailed, Typed
  <2>4. CASE PressEnter(a)
    <3>1. SubmitBox
      BY <2>4 DEF PressEnter
    <3>2. \A p \in batch[b] : pc[b] = "sent" \/ b = a => given'[p] > 0
      BY <2>4, <3>1 DEF SubmitBox, PressEnter
    <3> QED BY <2>4, <3>2 DEF PressEnter
  <2>5. CASE RecordSent(a)
    BY <2>5 DEF RecordSent
  <2> QED BY <1>4, <2>1, <2>2, <2>3, <2>4, <2>5 DEF InjectStep
<1>5. CASE DrainStep \/ DrainFails
  <2>1. CASE DrainLoop        BY <2>1 DEF DrainLoop
  <2>2. CASE DrainDrop        BY <2>2 DEF DrainDrop, Drop
  <2>3. CASE DrainWait        BY <2>3 DEF DrainWait
  <2>4. CASE DrainLock        BY <2>4 DEF DrainLock
  <2>5. CASE DrainDropLocked  BY <2>5 DEF DrainDropLocked, Drop
  <2>6. CASE DrainTaint       BY <2>6 DEF DrainTaint
  <2>7. CASE DrainSave        BY <2>7 DEF DrainSave
  <2>8. CASE DrainFails       BY <2>8 DEF DrainFails
  <2> QED BY <1>5, <2>1, <2>2, <2>3, <2>4, <2>5, <2>6, <2>7, <2>8 DEF DrainStep
<1>6. CASE CancelStart \/ CancelStep \/ CancelCancelled
  <2>0. b # "canceller" BY DEF Injectors
  <2>1. CASE CancelStart  BY <2>1 DEF CancelStart
  <2>2. CASE CancelTake   BY <2>0, <2>2 DEF CancelTake, Cancelled
  <2>3. CASE CancelSave   BY <2>0, <2>3 DEF CancelSave, Cancelled
  <2>4. CASE CancelCancelled  BY <2>0, <2>4 DEF CancelCancelled
  <2> QED BY <1>6, <2>1, <2>2, <2>3, <2>4 DEF CancelStep
<1>7. CASE Restart
  BY <1>7 DEF Restart, AfterRestart
<1>8. CASE SessionStep
  <2>0. pc[b] = "enter" => Pasting /\ BoxPasted
    BY DEF Pasting, BoxPasted, Somewhere
  <2>1. CASE Kill           BY <2>0, <2>1 DEF Kill
  <2>2. CASE ClaudeStops    BY <2>0, <2>2 DEF ClaudeStops
  <2>3. CASE PersonTypes    BY <2>0, <2>3 DEF PersonTypes, HandsOff
  <2>4. CASE PersonClears   BY <2>0, <2>4 DEF PersonClears, HandsOff
  <2>5. CASE PersonSubmits  BY <2>0, <2>5 DEF PersonSubmits, HandsOff, SubmitBox
  <2>6. CASE Create \/ Taint \/ TurnStarts \/ TurnEnds \/ ClaudeStarts
    BY <2>6 DEF Create, Taint, TurnStarts, TurnEnds, ClaudeStarts
  <2> QED BY <1>8, <2>1, <2>2, <2>3, <2>4, <2>5, <2>6 DEF SessionStep
<1> QED BY <1>1, <1>2, <1>3, <1>4, <1>5, <1>6, <1>7, <1>8 DEF Next

-----------------------------------------------------------------------------
\* A session_send pastes its own prompt and nothing else, and one about to
\* answer "queued" has queued it.
LEMMA OwnBatchStep == TypeOK /\ OwnBatch /\ [Next]_vars => OwnBatch'
<1> SUFFICES ASSUME TypeOK, OwnBatch, [Next]_vars, NEW q \in Prompts
             PROVE  /\ pc'[q] \in {"paste", "enter", "sent"} => batch'[q] = {q}
                    /\ pc'[q] = "spawn" => ticket'[q] > 0
  BY DEF OwnBatch
<1> DEFINE Own == /\ pc'[q] \in {"paste", "enter", "sent"} => batch'[q] = {q}
                  /\ pc'[q] = "spawn" => ticket'[q] > 0
<1>0. /\ pc \in [Actors -> Places] /\ batch \in [Actors -> SUBSET Prompts]
      /\ ticket \in [Prompts -> Nat]
      /\ pc[q] \in {"paste", "enter", "sent"} => batch[q] = {q}
      /\ pc[q] = "spawn" => ticket[q] > 0
  BY DEF TypeOK, OwnBatch
<1> USE <1>0, ActorsFacts DEF At, GoTo, Spawning
<1>1. CASE UNCHANGED vars
  BY <1>1
<1>2. ASSUME NEW p \in Prompts, SendStep(p) \/ SendCancelled(p) \/ SendCutShort(p) PROVE Own
  BY <1>2, ArrivedType DEF SendStep, SendStart, SendDecide, SendInspect, SendAppend,
                           SendSpawn, SendCancelled, SendCutShort
<1>3. ASSUME NEW a \in Actors \ {"drainer"}, Acquire(a) \/ LoadQueue(a) \/ Unlock(a)
      PROVE  Own
  BY <1>3 DEF Acquire, LoadQueue, Unlock, NextAfterLoad
<1>4. ASSUME NEW a \in Injectors, InjectStep(a) PROVE Own
  BY <1>4 DEF InjectStep, PasteLands, PasteRefused, PasteUnconfirmed, PasteFailed,
              PressEnter, RecordSent
<1>5. CASE DrainStep \/ DrainFails
  BY <1>5 DEF DrainStep, DrainFails, DrainLoop, DrainDrop, DrainWait, DrainLock,
              DrainDropLocked, DrainTaint, DrainSave, Drop
<1>6. CASE CancelStart \/ CancelStep \/ CancelCancelled
  BY <1>6 DEF CancelStep, CancelCancelled, CancelStart, CancelTake, CancelSave, Cancelled
<1>7. CASE Restart
  BY <1>7 DEF Restart, AfterRestart
<1>8. CASE SessionStep
  BY <1>8 DEF SessionStep, Kill, Create, Taint, TurnStarts, TurnEnds, ClaudeStops,
              ClaudeStarts, PersonTypes, PersonClears, PersonSubmits
<1> QED BY <1>1, <1>2, <1>3, <1>4, <1>5, <1>6, <1>7, <1>8 DEF Next

-----------------------------------------------------------------------------
\* Until they are reported, prompts taken back leave an empty queue, and what
\* waits is in the file, when the file can be written.
Kept == TakenBack /\ OnDisk

LEMMA KeptStep ==
  ASSUME "nosave" \notin Faults
  PROVE  TypeOK /\ LockHeld /\ LoadedFirst /\ Kept /\ [Next]_vars => Kept'
<1> SUFFICES ASSUME TypeOK, LockHeld, LoadedFirst, Kept, [Next]_vars PROVE Kept'
  OBVIOUS
<1>0. /\ pc \in [Actors -> Places] /\ batch \in [Actors -> SUBSET Prompts]
      /\ queue \subseteq Prompts /\ file \subseteq Prompts
  BY DEF TypeOK
<1> USE <1>0, ActorsFacts DEF Kept, TakenBack, OnDisk, At, GoTo, Spawning
\* Whoever else holds the lock, nothing is being taken back.
<1>a. ASSUME NEW a \in Actors \ {"canceller"}, pc[a] \in Critical
      PROVE  batch["canceller"] = {} /\ a # "canceller"
  BY <1>a DEF LockHeld, Critical
<1>b. ASSUME SaveQueue
      PROVE  file' = queue'
  BY <1>b DEF SaveQueue
<1>1. CASE UNCHANGED vars
  BY <1>1
<1>2. ASSUME NEW p \in Prompts, SendStep(p) \/ SendCancelled(p) \/ SendCutShort(p) PROVE Kept'
  <2>1. CASE SendStart(p)      BY <2>1 DEF SendStart
  <2>2. CASE SendDecide(p)     BY <2>2 DEF SendDecide
  <2>3. CASE SendInspect(p)    BY <2>3 DEF SendInspect
  <2>4. CASE SendAppend(p)
    <3>1. batch["canceller"] = {} /\ p # "canceller" /\ batch' = batch
      BY <1>a, <2>4 DEF SendAppend, Critical
    <3>2. CASE UNCHANGED <<queue, file>>
      BY <2>4, <3>1, <3>2 DEF SendAppend
    <3>3. CASE file' = queue'
      BY <3>1, <3>3
    <3> QED BY <2>4, <3>2, <3>3, <1>b DEF SendAppend
  <2>5. CASE SendSpawn(p)      BY <2>5 DEF SendSpawn
  <2>6. CASE SendCancelled(p)  BY <2>6 DEF SendCancelled
  <2>7. CASE SendCutShort(p)   BY <2>7 DEF SendCutShort, SubmitBox
  <2> QED BY <1>2, <2>1, <2>2, <2>3, <2>4, <2>5, <2>6, <2>7 DEF SendStep
<1>3. ASSUME NEW a \in Actors \ {"drainer"}, Acquire(a) \/ LoadQueue(a) \/ Unlock(a)
      PROVE  Kept'
  <2>1. CASE Acquire(a)    BY <2>1 DEF Acquire
  <2>2. CASE LoadQueue(a)
    <3>1. batch["canceller"] = {} /\ batch' = batch
      BY <1>a, <2>2 DEF LoadQueue, Critical
    <3>2. queue = {}
      BY <2>2 DEF LoadQueue, LoadedFirst
    <3>3. CASE UNCHANGED queue
      BY <3>1, <3>2, <3>3
    <3>4. CASE file' = queue'
      BY <3>1, <3>4
    <3> QED BY <2>2, <3>3, <3>4, <1>b DEF LoadQueue
  <2>3. CASE Unlock(a)     BY <2>3 DEF Unlock
  <2> QED BY <1>3, <2>1, <2>2, <2>3
<1>4. ASSUME NEW a \in Injectors, InjectStep(a) PROVE Kept'
  <2>0. a \in Actors \ {"canceller"} BY DEF Injectors
  <2>1. CASE PasteLands(a)        BY <2>0, <2>1 DEF PasteLands
  <2>2. ASSUME At(a, "paste"), PasteFailed(a), UNCHANGED <<loaded, batch>> PROVE Kept'
    <3>1. batch["canceller"] = {}
      BY <1>a, <2>0, <2>2 DEF Critical
    <3>2. UNCHANGED queue /\ (UNCHANGED file \/ file' = queue')
      BY <1>b, <2>2 DEF PasteFailed
    <3> QED BY <2>2, <3>1, <3>2
  <2>3. CASE PasteRefused(a)      BY <2>2, <2>3 DEF PasteRefused
  <2>4. CASE PasteUnconfirmed(a)  BY <2>2, <2>4 DEF PasteUnconfirmed
  <2>5. CASE PressEnter(a)        BY <2>0, <2>5 DEF PressEnter
  <2>6. CASE RecordSent(a)        BY <2>0, <2>6 DEF RecordSent
  <2> QED BY <1>4, <2>1, <2>3, <2>4, <2>5, <2>6 DEF InjectStep
<1>5. CASE DrainStep \/ DrainFails
  <2>1. CASE DrainLoop        BY <2>1 DEF DrainLoop
  <2>2. ASSUME NEW next \in Places, Drop(next), UNCHANGED loaded,
               batch'["canceller"] = batch["canceller"]
        PROVE  Kept'
    <3>1. CASE Removed(seen["drainer"]) = {}
      BY <2>2, <3>1 DEF Drop
    <3>2. CASE Removed(seen["drainer"]) # {}
      <4>1. queue # {}
        BY <3>2 DEF Removed
      <4> QED BY <2>2, <3>2, <4>1, <1>b DEF Drop
    <3> QED BY <3>1, <3>2
  <2>3. CASE DrainDrop
    BY <2>2, <2>3 DEF DrainDrop, Places
  <2>4. CASE DrainWait        BY <2>4 DEF DrainWait
  <2>5. CASE DrainLock        BY <2>5 DEF DrainLock
  <2>6. CASE DrainDropLocked
    BY <2>2, <2>6 DEF DrainDropLocked, Places
  <2>7. CASE DrainTaint       BY <2>7 DEF DrainTaint
  <2>8. CASE DrainSave
    <3>1. batch["canceller"] = {}
      BY <1>a, <2>8 DEF DrainSave, Critical
    <3> QED BY <2>8, <3>1, <1>b DEF DrainSave
  <2>9. CASE DrainFails       BY <2>9 DEF DrainFails
  <2> QED BY <1>5, <2>1, <2>3, <2>4, <2>5, <2>6, <2>7, <2>8, <2>9 DEF DrainStep
<1>6. CASE CancelStart \/ CancelStep \/ CancelCancelled
  <2>1. CASE CancelStart  BY <2>1 DEF CancelStart
  <2>2. CASE CancelTake
    <3>1. batch["canceller"] = {}
      BY <2>2 DEF CancelTake
    <3>2. loaded /\ queue \subseteq file
      BY <2>2 DEF CancelTake, LoadedFirst, Serving
    <3>3. PICK S \in SUBSET queue :
            /\ queue' = queue \ S
            /\ IF S # {} /\ S = queue
               THEN /\ batch' = [batch EXCEPT !["canceller"] = S]
                    /\ GoTo("canceller", "save") /\ UNCHANGED file
               ELSE SaveQueue /\ UNCHANGED batch
      BY <2>2 DEF CancelTake, Open, Cancelled
    <3> QED BY <3>1, <3>2, <3>3, <1>b
  <2>3. CASE CancelSave
    BY <2>3, <1>b DEF CancelSave, Cancelled
  <2>4. CASE CancelCancelled  BY <2>4 DEF CancelCancelled
  <2> QED BY <1>6, <2>1, <2>2, <2>3, <2>4 DEF CancelStep
<1>7. CASE Restart
  BY <1>7 DEF Restart
<1>8. CASE SessionStep
  BY <1>8 DEF SessionStep, Kill, Create, Taint, TurnStarts, TurnEnds, ClaudeStops,
              ClaudeStarts, PersonTypes, PersonClears, PersonSubmits
<1> QED BY <1>1, <1>2, <1>3, <1>4, <1>5, <1>6, <1>7, <1>8 DEF Next

-----------------------------------------------------------------------------
\* No step takes an accepted prompt from every place that keeps it: what waits,
\* what is being taken back, what Claude was given and what is reported.
LEMMA NoneLostStep ==
  ASSUME "enter" \notin Faults, "nosave" \notin Faults, "canceltake" \notin Faults
  PROVE  Inv /\ [Next]_vars => NoPromptLost'
<1> SUFFICES ASSUME Inv, [Next]_vars, NEW q \in Accepted'
             PROVE  q \in Settled' \cup Waiting' \cup batch'["canceller"]
  BY DEF NoPromptLost
<1> DEFINE Safe == q \in Settled' \cup Waiting' \cup batch'["canceller"]
<1>0. /\ pc \in [Actors -> Places] /\ batch \in [Actors -> SUBSET Prompts]
      /\ queue \subseteq Prompts /\ file \subseteq Prompts /\ q \in Prompts
      /\ ticket \in [Prompts -> Nat] /\ given \in [Prompts -> Nat]
      /\ dead \in [Prompts -> {"none", "killed", "cancelled"}]
      /\ q \in Accepted => q \in Settled \cup Waiting \cup batch["canceller"]
  BY DEF Inv, TypeOK, Accepted, Arrived, NoPromptLost
<1> USE <1>0, ActorsFacts DEF At, GoTo, Spawning
\* A step that moves no prompt and lets no call return.
<1>a. ASSUME UNCHANGED <<ticket, dead, given, loaded, queue, file>>,
             batch'["canceller"] = batch["canceller"],
             pc'[q] = "done" => pc[q] = "done"
      PROVE  Safe
  BY <1>a DEF Accepted, Arrived, Settled, Waiting
\* What is submitted stays settled.
<1>b. ASSUME SubmitBox, UNCHANGED <<ticket, dead, loaded, queue, file>>,
             batch'["canceller"] = batch["canceller"],
             pc'[q] = "done" => pc[q] = "done"
      PROVE  Safe
  <2>1. q \in Accepted
    BY <1>b DEF Accepted, Arrived
  <2>2. given'[q] \in {given[q], given[q] + 1}
    BY <1>b DEF SubmitBox
  <2> QED BY <1>b, <2>1, <2>2 DEF Settled, Waiting
<1>1. CASE UNCHANGED vars
  BY <1>1, <1>a
<1>2. ASSUME NEW p \in Prompts, SendStep(p) \/ SendCancelled(p) \/ SendCutShort(p) PROVE Safe
  <2>1. CASE SendStart(p)      BY <1>a, <2>1 DEF SendStart
  <2>2. CASE SendDecide(p)     BY <1>a, <2>2 DEF SendDecide
  <2>3. CASE SendInspect(p)    BY <1>a, <2>3 DEF SendInspect
  <2>4. CASE SendAppend(p)
    <3>1. CASE Cardinality(queue) >= Depth
      BY <1>a, <2>4, <3>1 DEF SendAppend
    <3>2. CASE ~(Cardinality(queue) >= Depth)
      <4>1. loaded /\ loaded' /\ queue' = queue \cup {p}
        BY <2>4, <3>2 DEF SendAppend, Inv, LoadedFirst, Serving
      <4>2. q = p \/ q \in Accepted
        BY <2>4, <3>2 DEF SendAppend, Accepted, Arrived
      <4> QED BY <2>4, <3>2, <4>1, <4>2 DEF SendAppend, Settled, Waiting
    <3> QED BY <3>1, <3>2
  <2>5. CASE SendSpawn(p)
    \* The prompt of a call that is about to return has its ticket already.
    <3>1. q \in Accepted
      BY <2>5 DEF SendSpawn, Accepted, Arrived, Inv, OwnBatch
    <3> QED BY <2>5, <3>1 DEF SendSpawn, Settled, Waiting
  <2>6. CASE SendCancelled(p)  BY <1>a, <2>6 DEF SendCancelled
  <2>7. CASE SendCutShort(p)
    <3>1. CASE SubmitBox BY <1>b, <2>7, <3>1 DEF SendCutShort
    <3>2. CASE UNCHANGED given BY <1>a, <2>7, <3>2 DEF SendCutShort
    <3> QED BY <2>7, <3>1, <3>2 DEF SendCutShort
  <2> QED BY <1>2, <2>1, <2>2, <2>3, <2>4, <2>5, <2>6, <2>7 DEF SendStep
<1>3. ASSUME NEW a \in Actors \ {"drainer"}, Acquire(a) \/ LoadQueue(a) \/ Unlock(a)
      PROVE  Safe
  <2>1. CASE Acquire(a)    BY <1>a, <2>1 DEF Acquire, NextAfterLoad
  <2>2. CASE LoadQueue(a)
    <3>1. q \in Accepted
      BY <2>2 DEF LoadQueue, NextAfterLoad, Accepted, Arrived
    <3>2. ~loaded /\ loaded' /\ UNCHANGED <<given, batch>>
      BY <2>2 DEF LoadQueue, Inv, LoadedFirst
    <3>3. q \in Settled \cup file \cup batch["canceller"]
      BY <3>1, <3>2 DEF Waiting
    <3>4. CASE dead' = [p \in Prompts |-> IF p \in file THEN "killed" ELSE dead[p]]
      BY <3>2, <3>3, <3>4 DEF Settled
    <3>5. CASE queue' = file \cup queue /\ UNCHANGED dead
      BY <3>2, <3>3, <3>5 DEF Settled, Waiting
    <3> QED BY <2>2, <3>4, <3>5 DEF LoadQueue, DeadLetter
  <2>3. CASE Unlock(a)     BY <1>a, <2>3 DEF Unlock
  <2> QED BY <1>3, <2>1, <2>2, <2>3
<1>4. ASSUME NEW a \in Injectors, InjectStep(a) PROVE Safe
  <2>0. a \in Actors BY ActorsFacts
  <2>1. CASE PasteLands(a)
    BY <1>a, <2>1 DEF PasteLands
  <2>2. ASSUME At(a, "paste"), PasteFailed(a),
               UNCHANGED <<dead, given, loaded>>, batch' = batch
        PROVE  Safe
    <3>1. q \in Accepted /\ UNCHANGED queue
      BY <2>0, <2>2 DEF PasteFailed, Accepted, Arrived
    <3>2. loaded
      BY <2>0, <2>2 DEF Inv, LoadedFirst, Serving
    <3> QED BY <2>2, <3>1, <3>2 DEF Settled, Waiting
  <2>3. CASE PasteRefused(a)      BY <2>2, <2>3 DEF PasteRefused
  <2>4. CASE PasteUnconfirmed(a)  BY <2>2, <2>4 DEF PasteUnconfirmed
  <2>5. CASE PressEnter(a)
    BY <1>b, <2>0, <2>5 DEF PressEnter
  <2>6. CASE RecordSent(a)
    <3>1. \A p \in batch[a] : given[p] > 0
      BY <2>6 DEF RecordSent, Inv, BatchGoesIn
    <3>2. a \in Prompts => batch[a] = {a}
      BY <2>6 DEF RecordSent, Inv, OwnBatch
    <3>3. q \in Accepted \/ q \in batch[a]
      BY <2>0, <2>6, <3>2 DEF RecordSent, Accepted, Arrived, Injectors
    <3>4. Settled \subseteq Settled' /\ batch[a] \cap Prompts \subseteq Settled'
      BY <2>6, <3>1 DEF RecordSent, Settled
    <3>5. Waiting \subseteq Waiting' \cup batch[a]
      BY <2>6 DEF RecordSent, Waiting
    <3> QED BY <2>6, <3>3, <3>4, <3>5 DEF RecordSent
  <2> QED BY <1>4, <2>1, <2>3, <2>4, <2>5, <2>6 DEF InjectStep
<1>5. CASE DrainStep \/ DrainFails
  <2>1. CASE DrainLoop        BY <1>a, <2>1 DEF DrainLoop
  <2>2. ASSUME NEW next \in Places \ {"done"}, Drop(next), loaded,
               UNCHANGED <<loaded, given, ticket>>,
               batch'["canceller"] = batch["canceller"]
        PROVE  Safe
    <3>1. q \in Accepted
      BY <2>2 DEF Drop, Accepted, Arrived
    <3>2. queue' = queue \ Removed(seen["drainer"])
          /\ DeadLetter(Removed(seen["drainer"]), "killed")
      BY <2>2 DEF Drop
    <3>3. q \in Settled => q \in Settled'
      BY <2>2, <3>2 DEF Settled, DeadLetter
    <3>4. q \in queue => q \in queue' \/ q \in Settled'
      BY <3>2 DEF Settled, DeadLetter
    <3> QED BY <2>2, <3>1, <3>3, <3>4 DEF Waiting
  <2>a. pc["drainer"] \in Serving => loaded
    BY DEF Inv, LoadedFirst
  <2>3. CASE DrainDrop
    BY <2>2, <2>3, <2>a DEF DrainDrop, Places, Serving
  <2>4. CASE DrainWait        BY <1>a, <2>4 DEF DrainWait
  <2>5. CASE DrainLock        BY <1>a, <2>5 DEF DrainLock
  <2>6. CASE DrainDropLocked
    BY <2>2, <2>6, <2>a DEF DrainDropLocked, Places, Serving
  <2>7. CASE DrainTaint       BY <1>a, <2>7 DEF DrainTaint
  <2>8. CASE DrainSave
    <3>1. q \in Accepted /\ loaded
      BY <2>8, <2>a DEF DrainSave, Accepted, Arrived, Serving
    <3> QED BY <2>8, <3>1 DEF DrainSave, Settled, Waiting
  <2>9. CASE DrainFails       BY <1>a, <2>9 DEF DrainFails
  <2> QED BY <1>5, <2>1, <2>3, <2>4, <2>5, <2>6, <2>7, <2>8, <2>9 DEF DrainStep
<1>6. CASE CancelStart \/ CancelStep \/ CancelCancelled
  <2>0. pc["canceller"] \in Serving => loaded
    BY DEF Inv, LoadedFirst
  <2>1. CASE CancelStart  BY <1>a, <2>1 DEF CancelStart
  <2>2. CASE CancelTake
    <3>0. q \in Accepted /\ loaded /\ loaded' /\ UNCHANGED given
      BY <2>0, <2>2 DEF CancelTake, Cancelled, Accepted, Arrived, Serving
    <3>1. PICK S \in SUBSET queue :
            /\ queue' = queue \ S
            /\ IF S # {} /\ S = queue
               THEN batch' = [batch EXCEPT !["canceller"] = S] /\ UNCHANGED dead
               ELSE DeadLetter(S, "cancelled") /\ UNCHANGED batch
      BY <2>2 DEF CancelTake, Open, Cancelled
    <3>2. batch["canceller"] = {}
      BY <2>2 DEF CancelTake, Inv, TakenBack
    <3> QED BY <3>0, <3>1, <3>2 DEF Settled, Waiting, DeadLetter
  <2>3. CASE CancelSave
    <3>1. q \in Accepted /\ loaded /\ UNCHANGED <<loaded, queue, given>>
      BY <2>0, <2>3 DEF CancelSave, Cancelled, Accepted, Arrived, Serving
    <3>2. DeadLetter(batch["canceller"], "cancelled")
      BY <2>3 DEF CancelSave, Cancelled
    <3> QED BY <3>1, <3>2 DEF Settled, Waiting, DeadLetter
  <2> QED BY <1>6, <2>1, <2>2, <2>3 DEF CancelStep, CancelCancelled
<1>7. CASE Restart
  <2>1. q \in Accepted
    BY <1>7 DEF Restart, AfterRestart, Accepted, Arrived
  <2>2. Waiting \cup batch["canceller"] \subseteq file
    BY DEF Inv, OnDisk, Waiting
  <2> QED BY <1>7, <2>1, <2>2 DEF Restart, Settled, Waiting
<1>8. CASE SessionStep
  <2>1. CASE PersonSubmits
    BY <1>b, <2>1 DEF PersonSubmits
  <2>2. CASE Kill \/ Create \/ Taint \/ TurnStarts \/ TurnEnds \/ ClaudeStops
             \/ ClaudeStarts \/ PersonTypes \/ PersonClears
    BY <1>a, <2>2 DEF Kill, Create, Taint, TurnStarts, TurnEnds, ClaudeStops,
                      ClaudeStarts, PersonTypes, PersonClears
  <2> QED BY <1>8, <2>1, <2>2 DEF SessionStep
<1> QED BY <1>1, <1>2, <1>3, <1>4, <1>5, <1>6, <1>7, <1>8 DEF Next

-----------------------------------------------------------------------------
LEMMA InvInit == Init => Inv
<1> SUFFICES ASSUME Init PROVE Inv OBVIOUS
<1>1. TypeOK
  BY TypeInit
<1>2. LockHeld /\ LoadedFirst
  BY DEF Init, LockHeld, Critical, LoadedFirst, Serving
<1>3. BatchGoesIn /\ OwnBatch
  BY ActorsFacts DEF Init, BatchGoesIn, OwnBatch
<1>4. TakenBack /\ OnDisk
  BY ActorsFacts DEF Init, TakenBack, OnDisk
<1>5. NoPromptLost
  BY ActorsFacts DEF Init, NoPromptLost, Accepted, Arrived
<1> QED BY <1>1, <1>2, <1>3, <1>4, <1>5 DEF Inv

\* An accepted prompt is never dropped (MCP-30), whatever the session, the
\* person, docker, the caller and restarts at any point do, provided that Enter
\* always arrives after a paste, the queue file can be written, and no
\* session_queue_cancel is itself cancelled: without any of the three the model
\* loses a prompt.
THEOREM AcceptedNeverLost ==
  ASSUME "enter" \notin Faults, "nosave" \notin Faults, "canceltake" \notin Faults
  PROVE  Spec => []NoPromptLost
<1>1. Inv /\ [Next]_vars => Inv'
  BY TypeStep, LockStep, LoadedStep, GoesInStep, OwnBatchStep, KeptStep, NoneLostStep
     DEF Inv, Kept
<1>2. Inv => NoPromptLost
  BY DEF Inv
<1> QED BY InvInit, <1>1, <1>2, PTL DEF Spec

\* At most one actor is between taking the send lock and giving it back: no
\* paste, no load, no append and no cancel of two actors ever interleave.
THEOREM OneAtATime ==
  Spec => [](\A a, b \in Actors : pc[a] \in Critical /\ pc[b] \in Critical => a = b)
<1>1. Init => LockHeld
  BY DEF Init, LockHeld, Critical
<1>2. LockHeld => \A a, b \in Actors : pc[a] \in Critical /\ pc[b] \in Critical => a = b
  BY DEF LockHeld
<1> QED BY TypeInit, TypeStep, LockStep, <1>1, <1>2, PTL DEF Spec

-----------------------------------------------------------------------------
\* The drainer stops only on an empty queue, and a call that fills a queue
\* without one is about to start it.
Served ==
  queue # {} /\ pc["drainer"] = "off" => \E p \in Prompts : pc[p] = "spawn"

LEMMA ServedStep ==
  ASSUME "cancelcall" \notin Faults
  PROVE  TypeOK /\ Served /\ [Next]_vars => Served'
<1> SUFFICES ASSUME TypeOK, Served, [Next]_vars PROVE Served'
  OBVIOUS
<1>0. pc \in [Actors -> Places]
  BY DEF TypeOK
<1> USE <1>0, ActorsFacts DEF Served, At, GoTo, Spawning
<1>1. CASE UNCHANGED vars
  BY <1>1
<1>2. ASSUME NEW p \in Prompts, SendStep(p) \/ SendCancelled(p) \/ SendCutShort(p) PROVE Served'
  <2>1. CASE SendStart(p)      BY <2>1 DEF SendStart
  <2>2. CASE SendDecide(p)     BY <2>2 DEF SendDecide
  <2>3. CASE SendInspect(p)    BY <2>3 DEF SendInspect
  <2>4. CASE SendAppend(p)     BY <2>4 DEF SendAppend
  <2>5. CASE SendSpawn(p)      BY <2>5 DEF SendSpawn
  <2> QED BY <1>2, <2>1, <2>2, <2>3, <2>4, <2>5 DEF SendStep, SendCancelled, SendCutShort
<1>3. ASSUME NEW a \in Actors \ {"drainer"}, Acquire(a) \/ LoadQueue(a) \/ Unlock(a)
      PROVE  Served'
  BY <1>3 DEF Acquire, LoadQueue, Unlock, NextAfterLoad
<1>4. ASSUME NEW a \in Injectors, InjectStep(a) PROVE Served'
  <2>0. a \in Actors OBVIOUS
  <2>1. CASE PasteLands(a)        BY <2>0, <2>1 DEF PasteLands
  <2>2. CASE PasteRefused(a)      BY <2>0, <2>2 DEF PasteRefused, PasteFailed
  <2>3. CASE PasteUnconfirmed(a)  BY <2>0, <2>3 DEF PasteUnconfirmed, PasteFailed
  <2>4. CASE PressEnter(a)        BY <2>0, <2>4 DEF PressEnter
  <2>5. CASE RecordSent(a)        BY <2>0, <2>5 DEF RecordSent
  <2> QED BY <1>4, <2>1, <2>2, <2>3, <2>4, <2>5 DEF InjectStep
<1>5. CASE DrainStep \/ DrainFails
  BY <1>5 DEF DrainStep, DrainFails, DrainLoop, DrainDrop, DrainWait, DrainLock,
              DrainDropLocked, DrainTaint, DrainSave, Drop
<1>6. CASE CancelStart \/ CancelStep \/ CancelCancelled
  <2>1. CASE CancelStart  BY <2>1 DEF CancelStart
  <2>2. CASE CancelTake   BY <2>2 DEF CancelTake, Cancelled
  <2>3. CASE CancelSave   BY <2>3 DEF CancelSave, Cancelled
  <2>4. CASE CancelCancelled  BY <2>4 DEF CancelCancelled
  <2> QED BY <1>6, <2>1, <2>2, <2>3, <2>4 DEF CancelStep
<1>7. CASE Restart
  BY <1>7 DEF Restart
<1>8. CASE SessionStep
  BY <1>8 DEF SessionStep, Kill, Create, Taint, TurnStarts, TurnEnds, ClaudeStops,
              ClaudeStarts, PersonTypes, PersonClears, PersonSubmits
<1> QED BY <1>1, <1>2, <1>3, <1>4, <1>5, <1>6, <1>7, <1>8 DEF Next

\* A queue nobody is changing has a drainer, whatever fails, as long as no
\* session_send is cancelled by its client between queueing and starting it.
THEOREM QueueAlwaysServed ==
  ASSUME "cancelcall" \notin Faults
  PROVE  Spec => []QueueHasDrainer
<1>1. Init => LockHeld /\ Served
  BY DEF Init, LockHeld, Critical, Served
<1>2. TypeOK /\ LockHeld /\ Served => QueueHasDrainer
  BY ActorsFacts DEF LockHeld, Critical, Served, QueueHasDrainer
<1> QED BY TypeInit, TypeStep, LockStep, ServedStep, <1>1, <1>2, PTL DEF Spec

-----------------------------------------------------------------------------
(* What SendQueue pastes and into which session.                           *)

\* Docker answers and nothing happens between its answer and the use of it, Enter
\* arrives, the queue file can be written, and no session_queue_cancel is cancelled.
Calm == Faults \cap {"unknown", "stale", "enter", "nosave", "canceltake", "failpaste"} = {}

-----------------------------------------------------------------------------
(* The parts of the invariant. EnterSubmitsTheBatch speaks of the moment    *)
(* of Enter alone; what the box holds then was settled by the last free     *)
(* check, and by what the queue and its file were at the paste before it.   *)

\* The prompts accepted for an instance that no longer exists.
Stale(S) == {p \in S : owner[p] # 0 /\ owner[p] # inst}

BoxNeedsSession == inst = Gone => box = {}

\* A session_send pastes into an empty box, with nothing waiting.
CallPastesAlone == \A p \in Prompts : pc[p] = "paste" => box = {} /\ queue = {}

\* From its last free check to the paste the drainer knows what the box holds,
\* and after reading the instance again that its queue is of this one.
DrainerKnowsBox ==
  /\ pc["drainer"] = "drop2" => box = {} \/ OwnText
  /\ pc["drainer"] \in {"taint", "paste"} =>
       /\ box = {} \/ (OwnText /\ batch["drainer"] = unsub)
       /\ batch["drainer"] \subseteq queue
       /\ inst # Gone => Stale(queue) = {}

\* While a prompt is in the box no prompt of an earlier instance waits: a batch
\* in the box is never cut short by the removal of part of the queue.
BoxFresh == box \cap Prompts # {} => Stale(queue \cup file) = {}

\* The file is the queue, but for the moments before a shorter queue is saved.
FileFollows ==
  loaded => file = queue \/ pc["canceller"] = "save" \/ pc["drainer"] = "save"

\* Docker's answer is still true when it is used.
AnswersHold ==
  inst # Gone =>
    /\ \A p \in Prompts : pc[p] = "append" => seen[p] = inst
    /\ pc["drainer"] = "drop2" => seen["drainer"] = inst

Base == TypeOK /\ LockHeld /\ LoadedFirst /\ OwnBatch
PasteInv ==
  /\ BoxNeedsSession /\ CallPastesAlone /\ DrainerKnowsBox /\ BoxFresh
  /\ FileFollows /\ AnswersHold /\ EnterSubmitsTheBatch

-----------------------------------------------------------------------------
LEMMA PasteSend ==
  ASSUME Calm, Base, PasteInv, NEW p \in Prompts, SendStep(p) \/ SendCancelled(p) \/ SendCutShort(p)
  PROVE  PasteInv'
<1> USE ActorsFacts DEF Calm, Base, At, GoTo, Spawning
<1>0. pc \in [Actors -> Places] /\ LockHeld /\ PasteInv
  BY DEF TypeOK
<1> USE <1>0 DEF PasteInv, BoxNeedsSession, CallPastesAlone, DrainerKnowsBox, BoxFresh,
                 FileFollows, AnswersHold, EnterSubmitsTheBatch, Stale, OwnText, InBox
<1>1. CASE SendStart(p)
  BY <1>1 DEF SendStart, Answers, Injectors
<1>2. CASE SendDecide(p)
  BY <1>2 DEF SendDecide, IsFree, MayJoin, Injectors, TypeOK
<1>3. CASE SendInspect(p)
  BY <1>3 DEF SendInspect, Answers, Injectors, TypeOK
<1>5. CASE SendSpawn(p)
  BY <1>5 DEF SendSpawn, Injectors
<1>6. CASE SendCancelled(p)
  BY <1>6 DEF SendCancelled, Injectors
<1>7. CASE SendCutShort(p)
  <2>1. \A b \in Actors : b # p => pc[b] \notin Critical
    BY <1>7 DEF SendCutShort, LockHeld, Critical
  <2> QED BY <1>7, <2>1 DEF SendCutShort, SubmitBox, Injectors, Critical
<1>4. CASE SendAppend(p)
  <2> USE <1>4 DEF SendAppend
  <2>1. \A b \in Actors : b # p => pc[b] \notin Critical
    BY DEF LockHeld, Critical
  <2> QED BY <2>1 DEF Critical, SaveQueue, Injectors, TypeOK
<1> QED BY <1>1, <1>2, <1>3, <1>4, <1>5, <1>6, <1>7 DEF SendStep

LEMMA PasteLock ==
  ASSUME Calm, Base, PasteInv, NEW a \in Actors \ {"drainer"},
         Acquire(a) \/ LoadQueue(a) \/ Unlock(a)
  PROVE  PasteInv'
<1> USE ActorsFacts DEF Calm, Base, At, GoTo, Spawning
<1>0. pc \in [Actors -> Places] /\ LockHeld /\ PasteInv
  BY DEF TypeOK
<1> USE <1>0 DEF PasteInv, BoxNeedsSession, CallPastesAlone, DrainerKnowsBox, BoxFresh,
                 FileFollows, AnswersHold, EnterSubmitsTheBatch, Stale, OwnText, InBox
<1>1. CASE Acquire(a)
  BY <1>1 DEF Acquire, NextAfterLoad, Injectors
<1>2. CASE LoadQueue(a)
  <2> USE <1>2 DEF LoadQueue
  <2>1. \A b \in Actors : b # a => pc[b] \notin Critical
    BY DEF LockHeld, Critical
  <2>2. queue = {} /\ pc["drainer"] \notin Serving
    BY DEF LoadedFirst, Serving
  <2>3. /\ queue' \subseteq file /\ file' \subseteq file /\ (file' = queue' \/ UNCHANGED <<queue, file>>)
        /\ UNCHANGED <<box, batch, inst, owner, seen>>
    BY <2>2 DEF SaveQueue
  <2>4. FileFollows' BY <2>2, <2>3 DEF SaveQueue
  <2>5. BoxFresh' BY <2>3
  <2>6. \A b \in Actors : pc'[b] \notin {"drop2", "taint", "paste", "enter", "append"}
    BY <2>1, <2>2 DEF Critical, Serving, NextAfterLoad
  <2> QED BY <2>3, <2>4, <2>5, <2>6 DEF Injectors
<1>3. CASE Unlock(a)
  BY <1>3 DEF Unlock, Injectors
<1> QED BY <1>1, <1>2, <1>3

LEMMA PasteInject ==
  ASSUME Calm, Base, PasteInv, NEW a \in Injectors, InjectStep(a)
  PROVE  PasteInv'
<1> USE ActorsFacts DEF Calm, Base, At, GoTo, Spawning
<1>0. pc \in [Actors -> Places] /\ LockHeld /\ PasteInv
  BY DEF TypeOK
<1> USE <1>0 DEF PasteInv, BoxNeedsSession, CallPastesAlone, DrainerKnowsBox, BoxFresh,
                 FileFollows, AnswersHold, EnterSubmitsTheBatch, Stale, OwnText, InBox
<1>a. a \in Actors /\ (\A b \in Actors : b # a /\ pc[a] \in Critical => pc[b] \notin Critical)
  BY DEF LockHeld
<1> USE <1>a DEF Critical
\* At the paste nothing that waits was accepted for an earlier instance, and the
\* box holds nothing, or this very batch.
<1>b. ASSUME pc[a] = "paste", inst # Gone
      PROVE  /\ file = queue /\ Stale(queue) = {} /\ batch[a] \subseteq Prompts
             /\ box = {} \/ (OwnText /\ unsub = batch[a])
             /\ a \in Prompts => queue = {}
  <2>1. loaded
    BY <1>b DEF LoadedFirst, Serving
  <2>2. pc["canceller"] # "save" /\ (pc["drainer"] # "save")
    BY <1>b DEF Injectors
  <2>3. batch[a] \subseteq Prompts
    BY DEF TypeOK
  <2> QED BY <1>b, <2>1, <2>2, <2>3 DEF Injectors
<1>1. CASE PasteLands(a)
  <2> USE <1>1 DEF PasteLands
  <2>1. box' = batch[a] BY <1>b DEF Typed
  <2>2. BoxFresh' BY <1>b
  <2> QED BY <1>b, <2>1, <2>2 DEF Injectors
<1>2. CASE PasteRefused(a)
  BY <1>2 DEF PasteRefused, PasteFailed, SaveQueue, Injectors
<1>3. CASE PasteUnconfirmed(a)
  <2> USE <1>3 DEF PasteUnconfirmed, PasteFailed
  <2>1. box = {} /\ box' \subseteq batch[a] BY <1>b DEF Typed
  <2>2. file' = queue /\ queue' = queue BY <1>b DEF SaveQueue
  <2>3. BoxFresh' BY <1>b, <2>2
  <2> QED BY <1>b, <2>1, <2>2, <2>3 DEF Injectors
<1>4. CASE PressEnter(a)
  BY <1>4 DEF PressEnter, SubmitBox, Injectors
<1>5. CASE RecordSent(a)
  BY <1>5 DEF RecordSent, Injectors
<1> QED BY <1>1, <1>2, <1>3, <1>4, <1>5 DEF InjectStep

LEMMA PasteDrain ==
  ASSUME Calm, Base, PasteInv, DrainStep \/ DrainFails
  PROVE  PasteInv'
<1> USE ActorsFacts DEF Calm, Base, At, GoTo, Spawning
<1>0. pc \in [Actors -> Places] /\ LockHeld /\ PasteInv
  BY DEF TypeOK
<1> USE <1>0 DEF PasteInv, BoxNeedsSession, CallPastesAlone, DrainerKnowsBox, BoxFresh,
                 FileFollows, AnswersHold, EnterSubmitsTheBatch, Stale, OwnText, InBox
<1>1. CASE DrainLoop  BY <1>1 DEF DrainLoop, Injectors, TypeOK
<1>2. CASE DrainDrop  BY <1>2 DEF DrainDrop, Drop, SaveQueue, Injectors
<1>3. CASE DrainWait  BY <1>3 DEF DrainWait, Injectors
<1>4. CASE DrainLock  BY <1>4 DEF DrainLock, IsFree, Answers, Injectors, TypeOK
<1>5. CASE DrainDropLocked
  <2> USE <1>5 DEF DrainDropLocked, Drop
  <2>a. \A b \in Actors : b # "drainer" => pc[b] \notin Critical
    BY DEF LockHeld, Critical
  <2>b. /\ queue \subseteq Prompts /\ batch \in [Actors -> SUBSET Prompts]
        /\ owner \in [Prompts -> 0..MaxInst] /\ inst \in Nat
    BY BoundsAssumption DEF TypeOK, Gone
  <2>1. inst # Gone => Stale(queue') = {}
    BY <2>b DEF Removed, Gone, Unknown
  <2>2. OwnText => box \cap Prompts # {}
    BY <2>b
  \* A batch in the box is this instance's, and the whole queue is kept with it.
  <2>3. ASSUME OwnText PROVE queue' = queue /\ unsub' = unsub /\ batch'["drainer"] = unsub
    <3>1. inst # Gone /\ Stale(queue) = {} BY <2>2, <2>3, <2>b
    <3>2. Removed(seen["drainer"]) = {} BY <3>1, <2>b DEF Removed, Gone, Unknown
    <3> QED BY <3>2, <2>3, <2>b DEF NextBatch
  <2>4. batch'["drainer"] \subseteq queue'
    BY <2>b DEF NextBatch
  <2>5. FileFollows' BY <2>a, <2>b DEF SaveQueue, Critical
  <2>6. DrainerKnowsBox' BY <2>1, <2>2, <2>3, <2>4, <2>b
  <2> QED BY <2>a, <2>5, <2>6, <2>b DEF SaveQueue, Injectors, Critical
<1>6. CASE DrainTaint  BY <1>6 DEF DrainTaint, Injectors
<1>7. CASE DrainSave   BY <1>7 DEF DrainSave, SaveQueue, Injectors
<1>8. CASE DrainFails  BY <1>8 DEF DrainFails, Injectors
<1> QED BY <1>1, <1>2, <1>3, <1>4, <1>5, <1>6, <1>7, <1>8 DEF DrainStep

LEMMA PasteCancel ==
  ASSUME Calm, Base, PasteInv, CancelStart \/ CancelStep \/ CancelCancelled
  PROVE  PasteInv'
<1> USE ActorsFacts DEF Calm, Base, At, GoTo, Spawning
<1>0. pc \in [Actors -> Places] /\ LockHeld /\ PasteInv
  BY DEF TypeOK
<1> USE <1>0 DEF PasteInv, BoxNeedsSession, CallPastesAlone, DrainerKnowsBox, BoxFresh,
                 FileFollows, AnswersHold, EnterSubmitsTheBatch, Stale, OwnText, InBox
<1>a. pc["canceller"] \in Critical => \A b \in Actors : b # "canceller" => pc[b] \notin Critical
  BY DEF LockHeld
<1> USE <1>a DEF Critical
<1>1. CASE CancelStart  BY <1>1 DEF CancelStart, Injectors
<1>2. CASE CancelTake   BY <1>2 DEF CancelTake, Cancelled, SaveQueue, Injectors
<1>3. CASE CancelSave   BY <1>3 DEF CancelSave, Cancelled, SaveQueue, Injectors
<1>4. CASE CancelCancelled  BY <1>4 DEF CancelCancelled
<1> QED BY <1>1, <1>2, <1>3, <1>4 DEF CancelStep

LEMMA PasteAround ==
  ASSUME Calm, Base, PasteInv, Restart \/ SessionStep
  PROVE  PasteInv'
<1> USE ActorsFacts DEF Calm, Base, At, GoTo, Spawning
<1>0. pc \in [Actors -> Places] /\ LockHeld /\ PasteInv
  BY DEF TypeOK
<1> USE <1>0 DEF PasteInv, BoxNeedsSession, CallPastesAlone, DrainerKnowsBox, BoxFresh,
                 FileFollows, AnswersHold, EnterSubmitsTheBatch, Stale, OwnText, InBox
<1>a. /\ Pasting <=> \E a \in Actors : pc[a] \in {"drop2", "taint", "paste", "enter"}
      /\ BoxPasted <=> \E a \in Actors : pc[a] = "enter"
      /\ HandsOff <=> ~Pasting
      /\ Inspecting <=> Pasting \/ \E a \in Actors : pc[a] \in {"drop", "append"}
  BY DEF Pasting, BoxPasted, HandsOff, Inspecting, Somewhere
<1> USE <1>a
<1>1. CASE Restart      BY <1>1 DEF Restart, AfterRestart, Injectors
<1>2. CASE Kill         BY <1>2 DEF Kill, Injectors
<1>3. CASE Create       BY <1>3, BoundsAssumption DEF Create, Injectors
<1>4. CASE Taint \/ TurnStarts \/ TurnEnds \/ ClaudeStarts
  BY <1>4 DEF Taint, TurnStarts, TurnEnds, ClaudeStarts, Injectors
<1>5. CASE ClaudeStops    BY <1>5 DEF ClaudeStops, Injectors
<1>6. CASE PersonTypes    BY <1>6, PromptsAssumption DEF PersonTypes, Injectors
<1>7. CASE PersonClears   BY <1>7 DEF PersonClears, Injectors
<1>8. CASE PersonSubmits  BY <1>8 DEF PersonSubmits, SubmitBox, Injectors
<1> QED BY <1>1, <1>2, <1>3, <1>4, <1>5, <1>6, <1>7, <1>8 DEF SessionStep

LEMMA PasteStep == Calm /\ Base /\ PasteInv /\ [Next]_vars => PasteInv'
<1>1. CASE UNCHANGED vars
  BY <1>1 DEF PasteInv, BoxNeedsSession, CallPastesAlone, DrainerKnowsBox, BoxFresh,
              FileFollows, AnswersHold, EnterSubmitsTheBatch, Stale, OwnText, InBox
<1> QED BY <1>1, PasteSend, PasteLock, PasteInject, PasteDrain, PasteCancel, PasteAround DEF Next

LEMMA BaseStep == Base /\ [Next]_vars => Base'
BY TypeStep, LockStep, LoadedStep, OwnBatchStep DEF Base

LEMMA PasteInit == Init => Base /\ PasteInv
<1> SUFFICES ASSUME Init PROVE Base /\ PasteInv OBVIOUS
<1>1. TypeOK BY TypeInit
<1>2. LockHeld /\ LoadedFirst /\ OwnBatch
  BY ActorsFacts DEF Init, LockHeld, Critical, LoadedFirst, Serving, OwnBatch
<1>3. PasteInv
  BY ActorsFacts DEF Init, PasteInv, BoxNeedsSession, CallPastesAlone, DrainerKnowsBox, BoxFresh,
                     FileFollows, AnswersHold, EnterSubmitsTheBatch, Injectors
<1> QED BY <1>1, <1>2, <1>3 DEF Base

\* Enter submits exactly the batch that was recorded for it, nothing a person
\* typed and no second copy, across restarts, cancelled calls, pastes that were
\* not confirmed and sessions killed and created again, as long as docker answers
\* and is still right when its answer is used.
THEOREM EnterSubmitsOnlyTheBatch ==
  ASSUME Calm
  PROVE  Spec => []EnterSubmitsTheBatch
<1>1. Base /\ PasteInv /\ [Next]_vars => (Base /\ PasteInv)'
  BY BaseStep, PasteStep
<1>2. PasteInv => EnterSubmitsTheBatch
  BY DEF PasteInv
<1> QED BY PasteInit, <1>1, <1>2, PTL DEF Spec

-----------------------------------------------------------------------------
(* NotGivenToReplacement: the owner a prompt is queued with is the instance *)
(* it was accepted in, and what is in the box is of the instance that is.   *)

HomeIsOwner == \A p \in Prompts : home[p] # 0 => home[p] = owner[p]

\* The places of a session_send that has not yet done anything with its prompt.
Early == {"idle", "seek", "load", "decide"}

\* A prompt enters the queue before it is ever submitted, and its call never
\* starts over.
HomeLater ==
  \A p \in Prompts :
    /\ pc[p] \in Early \cup {"paste", "queue", "append"} => into[p] = 0
    /\ pc[p] \in Early \cup {"paste", "enter", "queue", "append"} => home[p] = 0
    /\ pc[p] \in Early => p \notin box \cup queue \cup file
    /\ pc[p] # "unlock"

HomeInBox == \A p \in box \cap Prompts : home[p] # 0 => home[p] = inst

HomeInv == HomeIsOwner /\ HomeLater /\ HomeInBox /\ NotGivenToReplacement

LEMMA HomeSend ==
  ASSUME Calm, Base, PasteInv, HomeInv, NEW p \in Prompts, SendStep(p) \/ SendCancelled(p) \/ SendCutShort(p)
  PROVE  HomeInv'
<1> USE ActorsFacts DEF Calm, Base, At, GoTo, Spawning
<1>0. /\ pc \in [Actors -> Places] /\ home \in [Prompts -> 0..MaxInst]
      /\ into \in [Prompts -> 0..MaxInst] /\ owner \in [Prompts -> 0..MaxInst]
      /\ LockHeld /\ PasteInv /\ HomeInv
  BY DEF TypeOK
<1> USE <1>0 DEF HomeInv, HomeIsOwner, HomeLater, HomeInBox, NotGivenToReplacement, Early
<1>1. CASE SendStart(p)      BY <1>1 DEF SendStart
<1>2. CASE SendDecide(p)     BY <1>2 DEF SendDecide
<1>3. CASE SendInspect(p)    BY <1>3 DEF SendInspect
<1>4. CASE SendAppend(p)
  <2> USE <1>4 DEF SendAppend
  <2>1. inst # Gone => seen[p] = inst BY DEF PasteInv, AnswersHold
  <2>2. inst = Gone => box = {} BY DEF PasteInv, BoxNeedsSession
  <2>3. inst \in Nat BY BoundsAssumption DEF TypeOK, Gone
  <2> QED BY <2>1, <2>2, <2>3 DEF SaveQueue, Gone
<1>5. CASE SendSpawn(p)      BY <1>5 DEF SendSpawn
<1>6. CASE SendCancelled(p)  BY <1>6 DEF SendCancelled
<1>7. CASE SendCutShort(p)
  <2>1. \A b \in Actors : b # p => pc[b] \notin Critical
    BY <1>7 DEF SendCutShort, LockHeld, Critical
  <2> QED BY <1>7, <2>1 DEF SendCutShort, SubmitBox, Critical
<1> QED BY <1>1, <1>2, <1>3, <1>4, <1>5, <1>6, <1>7 DEF SendStep

LEMMA HomeInject ==
  ASSUME Calm, Base, PasteInv, HomeInv, NEW a \in Injectors, InjectStep(a)
  PROVE  HomeInv'
<1> USE ActorsFacts DEF Calm, Base, At, GoTo, Spawning
<1>0. /\ pc \in [Actors -> Places] /\ home \in [Prompts -> 0..MaxInst]
      /\ into \in [Prompts -> 0..MaxInst] /\ owner \in [Prompts -> 0..MaxInst]
      /\ LockHeld /\ PasteInv /\ HomeInv
  BY DEF TypeOK
<1> USE <1>0 DEF HomeInv, HomeIsOwner, HomeLater, HomeInBox, NotGivenToReplacement, Early
<1>a. a \in Actors /\ (\A b \in Actors : b # a /\ pc[a] \in Critical => pc[b] \notin Critical)
  BY DEF LockHeld
<1> USE <1>a DEF Critical
\* What a paste puts into the box is of this instance, or was never queued.
<1>b. ASSUME pc[a] = "paste", inst # Gone, NEW p \in batch[a]
      PROVE  /\ p \in Prompts /\ (home[p] # 0 => home[p] = inst)
             /\ pc[p] \notin Early
  <2>1. p \in Prompts BY DEF TypeOK
  <2>2. CASE a = "drainer"
    <3>1. p \in queue /\ Stale(queue) = {}
      BY <1>b, <2>2 DEF PasteInv, DrainerKnowsBox
    <3> QED BY <1>b, <2>1, <2>2, <3>1 DEF Stale
  <2>3. CASE a \in Prompts
    BY <1>b, <2>3 DEF OwnBatch
  <2> QED BY <2>2, <2>3 DEF Injectors
<1>1. CASE PasteLands(a)
  <2> USE <1>1 DEF PasteLands
  <2>1. box' \cap Prompts \subseteq box \cup batch[a]
    BY PromptsAssumption DEF Typed
  <2> QED BY <2>1, <1>b
<1>2. CASE PasteRefused(a)
  BY <1>2 DEF PasteRefused, PasteFailed, SaveQueue
<1>3. CASE PasteUnconfirmed(a)
  <2> USE <1>3 DEF PasteUnconfirmed, PasteFailed
  <2>1. box' \cap Prompts \subseteq box \cup batch[a]
    BY PromptsAssumption DEF Typed
  <2> QED BY <2>1, <1>b DEF SaveQueue
<1>4. CASE PressEnter(a)
  BY <1>4 DEF PressEnter, SubmitBox
<1>5. CASE RecordSent(a)
  BY <1>5 DEF RecordSent
<1> QED BY <1>1, <1>2, <1>3, <1>4, <1>5 DEF InjectStep

LEMMA HomeStep == Calm /\ Base /\ PasteInv /\ HomeInv /\ [Next]_vars => HomeInv'
<1> SUFFICES ASSUME Calm, Base, PasteInv, HomeInv, [Next]_vars PROVE HomeInv'
  OBVIOUS
<1> USE ActorsFacts DEF Calm, Base, At, GoTo, Spawning
<1>0. /\ pc \in [Actors -> Places] /\ home \in [Prompts -> 0..MaxInst]
      /\ into \in [Prompts -> 0..MaxInst] /\ owner \in [Prompts -> 0..MaxInst]
      /\ LockHeld /\ PasteInv /\ HomeInv
  BY DEF TypeOK
<1> USE <1>0 DEF HomeInv, HomeIsOwner, HomeLater, HomeInBox, NotGivenToReplacement, Early
<1>1. CASE UNCHANGED vars
  BY <1>1
<1>2. ASSUME NEW p \in Prompts, SendStep(p) \/ SendCancelled(p) \/ SendCutShort(p) PROVE HomeInv'
  BY <1>2, HomeSend
<1>3. ASSUME NEW a \in Actors \ {"drainer"}, Acquire(a) \/ LoadQueue(a) \/ Unlock(a)
      PROVE  HomeInv'
  <2>1. CASE Acquire(a)    BY <2>1 DEF Acquire, NextAfterLoad
  <2>2. CASE LoadQueue(a)  BY <2>2 DEF LoadQueue, NextAfterLoad, SaveQueue
  <2>3. CASE Unlock(a)     BY <2>3 DEF Unlock
  <2> QED BY <1>3, <2>1, <2>2, <2>3
<1>4. ASSUME NEW a \in Injectors, InjectStep(a) PROVE HomeInv'
  BY <1>4, HomeInject
<1>5. CASE DrainStep \/ DrainFails
  BY <1>5 DEF DrainStep, DrainFails, DrainLoop, DrainDrop, DrainWait, DrainLock,
              DrainDropLocked, DrainTaint, DrainSave, Drop, SaveQueue
<1>6. CASE CancelStart \/ CancelStep \/ CancelCancelled
  BY <1>6 DEF CancelStep, CancelStart, CancelTake, CancelSave, CancelCancelled, Cancelled,
              SaveQueue
<1>7. CASE Restart
  <2>1. \A p \in Prompts : pc'[p] \in {"done", "refused", "failed"} \/ (pc'[p] = "idle" /\ pc[p] = "idle")
    BY <1>7 DEF Restart, AfterRestart, Workers
  <2> QED BY <1>7, <2>1 DEF Restart
<1>8. CASE SessionStep
  <2>1. CASE Create
    <3>1. box = {} BY <2>1 DEF Create, PasteInv, BoxNeedsSession
    <3> QED BY <2>1, <3>1 DEF Create
  <2>2. CASE PersonSubmits
    <3>1. \A p \in Prompts : pc[p] # "paste" /\ (pc[p] \in {"queue", "append"} => p \notin box)
      BY <2>2 DEF PersonSubmits, HandsOff, Pasting, Somewhere, Unqueued
    <3> QED BY <2>2, <3>1 DEF PersonSubmits, SubmitBox
  <2>3. CASE PersonTypes
    BY <2>3, PromptsAssumption DEF PersonTypes
  <2>4. CASE Kill \/ Taint \/ TurnStarts \/ TurnEnds \/ ClaudeStops \/ ClaudeStarts \/ PersonClears
    BY <2>4 DEF Kill, Taint, TurnStarts, TurnEnds, ClaudeStops, ClaudeStarts, PersonClears
  <2> QED BY <1>8, <2>1, <2>2, <2>3, <2>4 DEF SessionStep
<1> QED BY <1>1, <1>2, <1>3, <1>4, <1>5, <1>6, <1>7, <1>8 DEF Next

\* MCP-33: a re-created session is never given a prompt accepted for the one it
\* replaced, whether the prompt waited in memory, in the file of a stopped server
\* or already in the input box.
THEOREM ReplacementNeverGiven ==
  ASSUME Calm
  PROVE  Spec => []NotGivenToReplacement
<1>1. Init => HomeInv
  BY ActorsFacts DEF Init, HomeInv, HomeIsOwner, HomeLater, HomeInBox, NotGivenToReplacement, Early
<1>2. Base /\ PasteInv /\ HomeInv /\ [Next]_vars => (Base /\ PasteInv /\ HomeInv)'
  BY BaseStep, PasteStep, HomeStep
<1>3. HomeInv => NotGivenToReplacement
  BY DEF HomeInv
<1> QED BY PasteInit, <1>1, <1>2, <1>3, PTL DEF Spec

-----------------------------------------------------------------------------
(* TaintHoldsPrompts: whoever is at a paste looked at the taint before it.  *)

\* The places of a session_send that looked at the taint and has not queued its
\* prompt.
Looked == {"seek", "load", "decide", "paste", "enter"}

HeldInv ==
  /\ ~tainted => held = {}
  /\ \A p \in Prompts : pc[p] \in Looked => p \notin held
  /\ pc["drainer"] \in {"paste", "enter"} => batch["drainer"] \cap held = {}
  /\ \A p \in batch["drainer"] : pc[p] \notin Looked \cup {"idle"}

LEMMA HeldStep == Calm /\ Base /\ PasteInv /\ HomeInv /\ HeldInv /\ [Next]_vars => HeldInv'
<1> SUFFICES ASSUME Calm, Base, PasteInv, HomeInv, HeldInv, [Next]_vars PROVE HeldInv'
  OBVIOUS
<1>0. /\ pc \in [Actors -> Places] /\ LockHeld /\ HeldInv /\ OwnBatch /\ "unknown" \notin Faults
      /\ batch \in [Actors -> SUBSET Prompts] /\ queue \subseteq Prompts /\ held \subseteq Prompts
  BY DEF TypeOK, Base, Calm
<1> USE <1>0, ActorsFacts DEF HeldInv, Looked, At, GoTo, Spawning, Hold
\* What waits was queued by a call that is past the taint.
<1>a. \A p \in queue : pc[p] \notin {"idle", "seek", "load", "decide"}
  BY DEF HomeInv, HomeLater, Early
<1>1. CASE UNCHANGED vars
  BY <1>1
<1>2. ASSUME NEW p \in Prompts, SendStep(p) \/ SendCancelled(p) \/ SendCutShort(p) PROVE HeldInv'
  <2>1. CASE SendStart(p)     BY <2>1 DEF SendStart
  <2>2. CASE SendDecide(p)    BY <2>2 DEF SendDecide
  <2>3. CASE SendInspect(p)   BY <2>3 DEF SendInspect
  <2>4. CASE SendAppend(p)
    <3>1. pc["drainer"] \notin {"paste", "enter"}
      BY <2>4 DEF SendAppend, LockHeld, Critical
    <3> QED BY <2>4, <3>1 DEF SendAppend
  <2>5. CASE SendSpawn(p)     BY <2>5 DEF SendSpawn
  <2>6. CASE SendCancelled(p) \/ SendCutShort(p)
    BY <2>6 DEF SendCancelled, SendCutShort
  <2> QED BY <1>2, <2>1, <2>2, <2>3, <2>4, <2>5, <2>6 DEF SendStep
<1>3. ASSUME NEW a \in Actors \ {"drainer"}, Acquire(a) \/ LoadQueue(a) \/ Unlock(a)
      PROVE  HeldInv'
  <2>1. CASE Acquire(a)    BY <1>3, <2>1 DEF Acquire, NextAfterLoad
  <2>2. CASE LoadQueue(a)  BY <1>3, <2>2 DEF LoadQueue, NextAfterLoad
  <2>3. CASE Unlock(a)
    <3>1. a \notin Prompts BY <2>3 DEF Unlock, HomeInv, HomeLater
    <3>2. pc' = [pc EXCEPT ![a] = "idle"] /\ UNCHANGED <<held, batch, tainted>> BY <2>3 DEF Unlock
    <3> QED BY <1>3, <3>1, <3>2
  <2> QED BY <1>3, <2>1, <2>2, <2>3
<1>4. ASSUME NEW a \in Injectors, InjectStep(a) PROVE HeldInv'
  <2>0. a \in Actors /\ (\A b \in Actors : b # a /\ pc[a] \in Critical => pc[b] \notin Critical)
    BY DEF LockHeld
  \* A failed paste leaves to the taint a batch of no call that is still on its way.
  <2>1. ASSUME pc[a] = "paste", NEW p \in batch[a], p # a PROVE pc[p] \notin Looked
    <3>1. a = "drainer" BY <2>1 DEF OwnBatch, Injectors
    <3> QED BY <2>1, <3>1
  <2>2. CASE PasteLands(a)   BY <2>0, <2>2 DEF PasteLands
  <2>3. CASE PasteRefused(a) \/ PasteUnconfirmed(a)
    <3>1. /\ pc[a] = "paste" /\ pc' = [pc EXCEPT ![a] = IF a = "drainer" THEN "loop" ELSE "queue"]
          /\ held' = (IF tainted THEN held \cup batch[a] ELSE held) /\ UNCHANGED <<batch, tainted>>
      BY <2>3 DEF PasteRefused, PasteUnconfirmed, PasteFailed
    <3>2. a # "drainer" => pc["drainer"] \notin {"paste", "enter"}
      BY <2>0, <3>1 DEF Critical
    <3> QED BY <2>0, <2>1, <3>1, <3>2
  <2>4. CASE PressEnter(a)   BY <2>0, <2>4 DEF PressEnter
  <2>5. CASE RecordSent(a)   BY <2>0, <2>5 DEF RecordSent
  <2> QED BY <1>4, <2>2, <2>3, <2>4, <2>5 DEF InjectStep
<1>5. CASE DrainStep \/ DrainFails
  <2>1. CASE DrainLoop        BY <2>1 DEF DrainLoop
  <2>2. CASE DrainDrop        BY <2>2 DEF DrainDrop, Drop
  <2>3. CASE DrainWait        BY <2>3 DEF DrainWait
  <2>4. CASE DrainLock        BY <2>4 DEF DrainLock
  <2>5. CASE DrainDropLocked
    <3>1. batch' = [batch EXCEPT !["drainer"] = batch'["drainer"]] /\ batch'["drainer"] \subseteq queue
      BY <2>5 DEF DrainDropLocked, Drop, NextBatch, InBox
    <3>2. \A p \in Prompts : pc[p] \notin {"paste", "enter"}
      BY <2>5 DEF DrainDropLocked, LockHeld, Critical
    <3>3. /\ pc'["drainer"] \in {"off", "taint"} /\ UNCHANGED <<held, tainted>>
          /\ \A p \in Prompts : pc'[p] = pc[p]
      BY <2>5 DEF DrainDropLocked, Drop
    <3> QED BY <1>a, <3>1, <3>2, <3>3
  <2>6. CASE DrainTaint       BY <2>6 DEF DrainTaint
  <2>7. CASE DrainSave        BY <2>7 DEF DrainSave
  <2>8. CASE DrainFails       BY <2>8 DEF DrainFails
  <2> QED BY <1>5, <2>1, <2>2, <2>3, <2>4, <2>5, <2>6, <2>7, <2>8 DEF DrainStep
<1>6. CASE CancelStart \/ CancelStep \/ CancelCancelled
  BY <1>6 DEF CancelStep, CancelStart, CancelTake, CancelSave, CancelCancelled, Cancelled
<1>7. CASE Restart
  <2>1. \A a \in Actors : pc'[a] \notin Looked \/ a \notin Prompts
    BY <1>7 DEF Restart, AfterRestart, Workers
  <2>2. pc'["drainer"] = "off" /\ batch'["drainer"] = {}
    BY <1>7 DEF Restart, AfterRestart
  <2> QED BY <1>7, <2>1, <2>2 DEF Restart
<1>8. CASE SessionStep
  <2>1. CASE Taint  BY <2>1 DEF Taint, PastTaintCheck
  <2>2. CASE Kill   BY <2>2 DEF Kill
  <2>3. CASE SessionStep /\ ~Taint /\ ~Kill
    BY <2>3 DEF SessionStep, Create, TurnStarts, TurnEnds, ClaudeStops, ClaudeStarts,
                PersonTypes, PersonClears, PersonSubmits
  <2> QED BY <1>8, <2>1, <2>2, <2>3
<1> QED BY <1>1, <1>2, <1>3, <1>4, <1>5, <1>6, <1>7, <1>8 DEF Next

LEMMA HeldStaysOut ==
  Calm /\ Base /\ PasteInv /\ HeldInv /\ [Next]_vars => PersonSubmits \/ HeldGoesNotIn
<1> SUFFICES ASSUME Calm, Base, PasteInv, HeldInv, [Next]_vars, ~PersonSubmits, NEW p \in held
             PROVE  given'[p] = given[p] /\ (p \in box' => p \in box)
  BY DEF HeldGoesNotIn
<1>0. p \in Prompts /\ p # Person /\ given \in [Prompts -> Nat]
  BY PromptsAssumption DEF TypeOK, Base
<1> USE <1>0, ActorsFacts DEF At
\* Whoever pastes or presses Enter does it with a batch that is not held.
<1>a. ASSUME NEW a \in Injectors, pc[a] \in {"paste", "enter"}
      PROVE  p \notin batch[a] /\ (pc[a] = "enter" => p \notin box)
  <2>1. p \notin batch[a]
    BY <1>a DEF HeldInv, Looked, Base, OwnBatch, Injectors
  <2> QED BY <1>a, <2>1 DEF PasteInv, EnterSubmitsTheBatch
<1>1. CASE UNCHANGED vars
  BY <1>1
<1>2. ASSUME NEW q \in Prompts, SendStep(q) \/ SendCancelled(q) \/ SendCutShort(q)
      PROVE  given'[p] = given[p] /\ (p \in box' => p \in box)
  <2>1. CASE SendCutShort(q)
    <3>1. p \notin box BY <1>a, <2>1 DEF SendCutShort, Injectors
    <3> QED BY <2>1, <3>1 DEF SendCutShort, SubmitBox
  <2> QED BY <1>2, <2>1 DEF SendStep, SendStart, SendDecide, SendInspect, SendAppend, SendSpawn,
                            SendCancelled
<1>3. ASSUME NEW a \in Actors \ {"drainer"}, Acquire(a) \/ LoadQueue(a) \/ Unlock(a)
      PROVE  given'[p] = given[p] /\ (p \in box' => p \in box)
  BY <1>3 DEF Acquire, LoadQueue, Unlock
<1>4. ASSUME NEW a \in Injectors, InjectStep(a)
      PROVE  given'[p] = given[p] /\ (p \in box' => p \in box)
  <2>1. CASE PasteLands(a)
    BY <1>a, <2>1 DEF PasteLands, Typed
  <2>2. CASE PasteRefused(a)
    BY <2>2 DEF PasteRefused
  <2>3. CASE PasteUnconfirmed(a)
    BY <1>a, <2>3 DEF PasteUnconfirmed, Typed
  <2>4. CASE PressEnter(a)
    BY <1>a, <2>4 DEF PressEnter, SubmitBox
  <2>5. CASE RecordSent(a)
    BY <2>5 DEF RecordSent
  <2> QED BY <1>4, <2>1, <2>2, <2>3, <2>4, <2>5 DEF InjectStep
<1>5. CASE DrainStep \/ DrainFails
  BY <1>5 DEF DrainStep, DrainFails, DrainLoop, DrainDrop, DrainWait, DrainLock,
              DrainDropLocked, DrainTaint, DrainSave, Drop
<1>6. CASE CancelStart \/ CancelStep \/ CancelCancelled
  BY <1>6 DEF CancelStep, CancelStart, CancelTake, CancelSave, CancelCancelled, Cancelled
<1>7. CASE Restart
  BY <1>7 DEF Restart
<1>8. CASE SessionStep
  BY <1>8 DEF SessionStep, Kill, Create, Taint, TurnStarts, TurnEnds, ClaudeStops,
              ClaudeStarts, PersonTypes, PersonClears
<1> QED BY <1>1, <1>2, <1>3, <1>4, <1>5, <1>6, <1>7, <1>8 DEF Next

\* README: "a prompt queued before the taint is never pasted". From the moment of the
\* taint the server neither types nor submits a prompt that waited then, or that was
\* sent or queued since, over restarts, failed pastes and cancelled calls.
THEOREM TaintedSessionTakesNothing ==
  ASSUME Calm
  PROVE  Spec => TaintHoldsPrompts
<1>1. Init => HomeInv /\ HeldInv
  BY ActorsFacts DEF Init, HomeInv, HomeIsOwner, HomeLater, HomeInBox, NotGivenToReplacement,
                     Early, HeldInv, Looked
<1>2. Base /\ PasteInv /\ HomeInv /\ HeldInv /\ [Next]_vars => (Base /\ PasteInv /\ HomeInv /\ HeldInv)'
  BY BaseStep, PasteStep, HomeStep, HeldStep
<1>3. Base /\ PasteInv /\ HeldInv /\ [Next]_vars => [PersonSubmits \/ HeldGoesNotIn]_vars
  BY HeldStaysOut
<1> QED BY PasteInit, <1>1, <1>2, <1>3, PTL DEF Spec, TaintHoldsPrompts
-----------------------------------------------------------------------------
(* SendQueue implements PromptPromise.                                     *)

\* Beyond Calm: nobody presses Enter on a prompt the server pasted, and the server
\* does not stop between the paste and the save that follows it.
Undisturbed == Calm /\ Faults \cap {"meddle", "crashpaste", "crashsent"} = {}

-----------------------------------------------------------------------------
(* The parts of the invariant: what the queue, its file and the box hold   *)
(* are prompts that wait, and the box holds the oldest of them.            *)

Unsettled(p) == given[p] = 0 /\ dead[p] = "none"

\* u comes before everything else in q.
Opens(u, q) == u \subseteq q /\ \A x \in u, y \in q \ u : ticket[x] < ticket[y]

\* The batch the drainer has submitted and not yet taken out.
GoneOut(places) == IF pc["drainer"] \in places THEN batch["drainer"] ELSE {}

TicketsInOrder == \A p \in Prompts : ticket[p] <= Cardinality(Arrived)

QueueWaits ==
  /\ \A p \in queue \ GoneOut({"sent"}) : ticket[p] > 0 /\ Unsettled(p)
  /\ \A p \in file \ GoneOut({"sent", "save"}) : ticket[p] > 0 /\ Unsettled(p)

NotYetSent ==
  \A p \in Prompts :
    /\ ticket[p] = 0 => dead[p] = "none"
    /\ pc[p] \in Early \cup {"paste", "enter", "queue", "append"} => ticket[p] = 0 /\ given[p] = 0
    /\ pc[p] = "enter" => queue = {}

\* A prompt in the box waits, or its call has failed or is still running; one that
\* a paste left there is recorded as the unsubmitted batch.
BoxWaits ==
  \A p \in box \cap Prompts :
    /\ Unsettled(p) /\ p \notin batch["canceller"]
    /\ ticket[p] = 0 => pc[p] \in {"enter", "queue", "append", "failed"}
    /\ pc[p] \in {"queue", "append"} => queue = {} /\ box = {p} /\ unsub = {p}

\* Between a paste and Enter nothing can be taken back; at any other time a waiting
\* prompt in the box is recorded as being there, in memory and in the file.
BoxIsMarked ==
  /\ ~loaded => unsub = {}
  /\ (\A a \in Injectors : pc[a] # "enter") =>
       /\ box \cap queue # {} => unsub = box /\ Opens(box, queue)
       /\ box \cap file # {} => fileBox = box /\ Opens(box, file)

\* What the drainer has chosen came before everything else that waits.
OldestFirst ==
  pc["drainer"] \in {"taint", "paste", "enter"} => Opens(batch["drainer"], queue)

\* What is about to leave the file is not in the box.
BoxNotLeaving ==
  pc["drainer"] \in {"sent", "save"} \/ pc["canceller"] = "save" => box \cap file = {}

\* Docker's answer before the wait is still true when it is used.
DropHolds == inst # Gone /\ pc["drainer"] = "drop" => seen["drainer"] = inst

KeptWell ==
  /\ QueueWaits /\ NotYetSent /\ BoxWaits /\ BoxIsMarked /\ OldestFirst /\ BoxNotLeaving
  /\ DropHolds
KeptInv == TicketsInOrder /\ KeptWell

All == Inv /\ PasteInv /\ HomeInv

-----------------------------------------------------------------------------
\* Only a call that queues its prompt draws a ticket.
LEMMA TicketMoves == [Next]_vars => ticket' = ticket \/ \E p \in Prompts : SendAppend(p)
<1> SUFFICES ASSUME [Next]_vars PROVE ticket' = ticket \/ \E p \in Prompts : SendAppend(p)
  OBVIOUS
<1>1. CASE UNCHANGED vars
  BY <1>1
<1>2. ASSUME NEW p \in Prompts, SendStep(p) \/ SendCancelled(p) \/ SendCutShort(p)
      PROVE  ticket' = ticket \/ SendAppend(p)
  BY <1>2 DEF SendStep, SendStart, SendDecide, SendInspect, SendSpawn, SendCancelled, SendCutShort
<1>3. ASSUME NEW a \in Actors \ {"drainer"}, Acquire(a) \/ LoadQueue(a) \/ Unlock(a)
      PROVE  ticket' = ticket
  BY <1>3 DEF Acquire, LoadQueue, Unlock
<1>4. ASSUME NEW a \in Injectors, InjectStep(a) PROVE ticket' = ticket
  BY <1>4 DEF InjectStep, PasteLands, PasteRefused, PasteUnconfirmed, PasteFailed,
              PressEnter, RecordSent
<1>5. CASE DrainStep \/ DrainFails
  BY <1>5 DEF DrainStep, DrainFails, DrainLoop, DrainDrop, DrainWait, DrainLock,
              DrainDropLocked, DrainTaint, DrainSave
<1>6. CASE CancelStart \/ CancelStep \/ CancelCancelled
  BY <1>6 DEF CancelStep, CancelStart, CancelTake, CancelSave, CancelCancelled, Cancelled
<1>7. CASE Restart \/ SessionStep
  BY <1>7 DEF Restart, SessionStep, Kill, Create, Taint, TurnStarts, TurnEnds, ClaudeStops,
              ClaudeStarts, PersonTypes, PersonClears, PersonSubmits
<1> QED BY <1>1, <1>2, <1>3, <1>4, <1>5, <1>6, <1>7 DEF Next

\* A ticket is behind all that were drawn before it.
LEMMA TicketStep ==
  TypeOK /\ NotYetSent /\ TicketsInOrder /\ [Next]_vars => TicketsInOrder'
<1> SUFFICES ASSUME TypeOK, NotYetSent, TicketsInOrder, [Next]_vars PROVE TicketsInOrder'
  OBVIOUS
<1>1. CASE ticket' = ticket
  <2>1. Arrived' = Arrived BY <1>1 DEF Arrived
  <2> QED BY <1>1, <2>1 DEF TicketsInOrder
<1>2. ASSUME NEW p \in Prompts, SendAppend(p), ticket' # ticket PROVE TicketsInOrder'
  <2>1. ticket' = [ticket EXCEPT ![p] = Cardinality(Arrived) + 1] BY <1>2 DEF SendAppend
  <2>2. ticket \in [Prompts -> Nat] /\ Cardinality(Arrived) \in Nat
    BY ArrivedType DEF TypeOK
  <2>3. Arrived' = Arrived \cup {p} BY <2>1, <2>2 DEF Arrived
  <2>4. IsFiniteSet(Arrived) BY PromptsAssumption, FS_Subset DEF Arrived
  <2>5. p \notin Arrived BY <1>2, <2>2 DEF SendAppend, At, NotYetSent, Arrived
  <2>6. Cardinality(Arrived') = Cardinality(Arrived) + 1 BY <2>3, <2>4, <2>5, FS_AddElement
  <2> QED BY <2>1, <2>2, <2>6 DEF TicketsInOrder
<1> QED BY <1>1, <1>2, TicketMoves

-----------------------------------------------------------------------------
LEMMA KeptSend ==
  ASSUME Undisturbed, All, KeptInv, NEW p \in Prompts, SendStep(p) \/ SendCancelled(p) \/ SendCutShort(p)
  PROVE  KeptWell'
<1> USE ActorsFacts DEF At, GoTo, Spawning
<1>0. TypeOK /\ LockHeld /\ LoadedFirst /\ KeptInv /\ PasteInv /\ pc \in [Actors -> Places]
  BY DEF All, Inv, TypeOK
<1> USE <1>0 DEF KeptInv, KeptWell, QueueWaits, NotYetSent, BoxWaits, BoxIsMarked, OldestFirst,
                 BoxNotLeaving, DropHolds,
                 GoneOut, Opens, Unsettled, Early
<1>1. CASE SendStart(p)
  <2>1. inst = Gone => box = {} BY DEF PasteInv, BoxNeedsSession
  <2>2. UNCHANGED unsub \/ (unsub' = {} /\ inst = Gone)
    BY <1>1 DEF SendStart, Answers, Undisturbed, Calm
  <2> QED BY <1>1, <2>1, <2>2 DEF SendStart, Injectors
<1>2. CASE SendDecide(p)
  BY <1>2 DEF SendDecide, Injectors, TypeOK
<1>3. CASE SendInspect(p)
  BY <1>3 DEF SendInspect, Injectors, TypeOK
<1>5. CASE SendSpawn(p)
  BY <1>5 DEF SendSpawn, Injectors
<1>6. CASE SendCancelled(p)
  BY <1>6 DEF SendCancelled, Injectors
<1>7. CASE SendCutShort(p)
  <2>1. \A b \in Actors : b # p => pc[b] \notin Critical
    BY <1>7 DEF SendCutShort, LockHeld, Critical
  <2>2. batch[p] = {p} /\ box = {p} /\ queue = {} /\ loaded /\ file = {}
    BY <1>7, <2>1 DEF SendCutShort, All, Inv, OwnBatch, PasteInv, EnterSubmitsTheBatch, Injectors,
                      LoadedFirst, Serving, FileFollows, Critical
  <2> QED BY <1>7, <2>1, <2>2 DEF SendCutShort, SubmitBox, Injectors, Critical, TypeOK
<1>4. CASE SendAppend(p)
  <2> USE <1>4 DEF SendAppend
  <2>1. \A b \in Actors : b # p => pc[b] \notin Critical
    BY DEF LockHeld, Critical
  <2>2. loaded BY DEF LoadedFirst, Serving
  <2>3. CASE Cardinality(queue) >= Depth
    \* A prompt whose own paste was not confirmed finds the queue empty.
    <3>1. queue # {} BY <2>3, FS_EmptySet, BoundsAssumption
    <3>2. p \notin box BY <3>1 DEF TypeOK
    <3> QED BY <2>1, <2>3, <3>2 DEF Critical, Injectors
  <2>4. CASE ~(Cardinality(queue) >= Depth)
    <3>1. /\ queue' = queue \cup {p} /\ ticket' = [ticket EXCEPT ![p] = Cardinality(Arrived) + 1]
          /\ file' = queue' /\ fileBox' = InBox(queue, unsub)'
          /\ UNCHANGED <<box, unsub, batch, given, dead, inst, loaded>>
      BY <2>4 DEF SaveQueue, Undisturbed, Calm
    <3>2. /\ ticket \in [Prompts -> Nat] /\ Cardinality(Arrived) \in Nat
          /\ queue \subseteq Prompts /\ given[p] = 0 /\ dead[p] = "none" /\ ticket[p] = 0
          /\ dead \in [Prompts -> {"none", "killed", "cancelled"}]
      BY ArrivedType DEF TypeOK
    <3>3. \A q \in Prompts : q # p => ticket'[q] = ticket[q] /\ ticket'[q] < ticket'[p]
      BY <3>1, <3>2 DEF TicketsInOrder
    <3>4. ticket'[p] > 0 /\ (\A q \in queue : q # p /\ ticket[q] > 0 /\ Unsettled(q))
      BY <2>1, <3>1, <3>2 DEF Critical
    <3>5. QueueWaits' BY <2>1, <3>1, <3>2, <3>3, <3>4 DEF Critical
    <3>6. /\ pc'[p] \in {"spawn", "done"}
          /\ \A q \in Prompts : pc'[q] = (IF q = p THEN pc'[p] ELSE pc[q])
      BY <2>4
    <3>7. NotYetSent' BY <2>1, <3>1, <3>2, <3>3, <3>4, <3>6 DEF Critical
    <3>8. BoxWaits' BY <2>1, <3>1, <3>3, <3>4, <3>6 DEF Critical
    <3>9. box \cap queue' # {} => unsub = box /\ Opens(box, queue)'
      <4>1. CASE p \in box
        <5>1. queue = {} /\ unsub = box BY <4>1, <3>2
        <5> QED BY <5>1, <3>1
      <4>2. CASE p \notin box
        <5>1. box \cap queue' # {} => unsub = box /\ Opens(box, queue)
          BY <2>1, <2>2, <3>1, <4>2 DEF Critical, Injectors
        <5> QED BY <5>1, <3>1, <3>2, <3>3, <4>2
      <4> QED BY <4>1, <4>2
    <3>10. BoxIsMarked' BY <2>2, <3>1, <3>9 DEF InBox
    <3>11. OldestFirst' /\ DropHolds' /\ BoxNotLeaving' BY <2>1, <2>4, <3>1 DEF Critical
    <3> QED BY <3>5, <3>7, <3>8, <3>10, <3>11
  <2> QED BY <2>3, <2>4
<1> QED BY <1>1, <1>2, <1>3, <1>4, <1>5, <1>6, <1>7 DEF SendStep

LEMMA KeptLock ==
  ASSUME Undisturbed, All, KeptInv, NEW a \in Actors \ {"drainer"},
         Acquire(a) \/ LoadQueue(a) \/ Unlock(a)
  PROVE  KeptWell'
<1> USE ActorsFacts DEF At, GoTo, Spawning
<1>0. TypeOK /\ LockHeld /\ LoadedFirst /\ KeptInv /\ PasteInv /\ pc \in [Actors -> Places]
  BY DEF All, Inv, TypeOK
<1> USE <1>0 DEF KeptInv, KeptWell, QueueWaits, NotYetSent, BoxWaits, BoxIsMarked, OldestFirst,
                 BoxNotLeaving, DropHolds, GoneOut, Opens, Unsettled, Early
<1>1. CASE Acquire(a)
  BY <1>1 DEF Acquire, NextAfterLoad, Injectors
<1>2. CASE LoadQueue(a)
  <2> USE <1>2 DEF LoadQueue
  <2>1. \A b \in Actors : b # a => pc[b] \notin Critical
    BY DEF LockHeld, Critical
  <2>2. queue = {} /\ unsub = {} /\ pc["drainer"] \notin Serving
    BY DEF LoadedFirst, Serving
  <2>3. \A b \in Injectors : pc[b] # "enter" /\ pc'[b] # "enter"
    BY <2>1, <2>2 DEF Critical, Serving, NextAfterLoad, Injectors
  <2>4. /\ \/ pc'["drainer"] \in {"off", "loop", "lock", "wait", "drop"}
           \/ pc'["drainer"] = pc["drainer"]
        /\ pc'["drainer"] \notin {"taint", "paste", "enter", "drop", "sent", "save"}
    BY <2>2 DEF Serving
  <2>5. CASE file = {}
    BY <2>1, <2>2, <2>3, <2>4, <2>5 DEF NextAfterLoad, Critical, Serving
  <2>6. CASE /\ file # {} /\ inst = Gone /\ queue' = {} /\ file' = {} /\ unsub' = {}
             /\ DeadLetter(file, "killed")
    <3>1. box = {} BY <2>6 DEF PasteInv, BoxNeedsSession
    <3>2. \A p \in file : ticket[p] > 0 BY <2>2 DEF Serving
    <3>3. file \subseteq Prompts BY DEF TypeOK
    <3> QED BY <2>2, <2>3, <2>4, <2>6, <3>1, <3>2, <3>3 DEF DeadLetter, NextAfterLoad
  <2>7. CASE /\ file # {} /\ queue' = file /\ file' = file /\ unsub' = fileBox
             /\ fileBox' = InBox(file, fileBox) /\ UNCHANGED dead
    <3>1. box \cap file # {} => fileBox = box /\ Opens(box, file) /\ InBox(file, fileBox) = box
      BY <2>3 DEF InBox
    <3>2. UNCHANGED <<box, batch, ticket, given, dead, inst, seen>> BY <2>7
    <3>3. \A p \in Prompts : pc'[p] = pc[p] \/ (pc[p] = "load" /\ pc'[p] = "decide")
      BY <2>2 DEF NextAfterLoad, Serving
    <3>4. QueueWaits' BY <2>2, <2>4, <2>7, <3>2 DEF Serving
    <3>5. NotYetSent' BY <2>3, <3>2, <3>3 DEF Injectors
    <3>6. BoxWaits' BY <2>1, <3>2, <3>3 DEF Critical
    <3>7. BoxIsMarked' BY <2>3, <2>7, <3>1, <3>2
    <3>8. BoxNotLeaving' BY <2>1, <2>4, <2>7, <3>2 DEF NextAfterLoad, Critical, Serving
    <3> QED BY <2>4, <3>4, <3>5, <3>6, <3>7, <3>8
  <2> QED BY <2>2, <2>5, <2>6, <2>7 DEF SaveQueue, Undisturbed, Calm, Answers, InBox
<1>3. CASE Unlock(a)
  BY <1>3 DEF Unlock, Injectors, All, HomeInv, HomeLater
<1> QED BY <1>1, <1>2, <1>3

LEMMA KeptInject ==
  ASSUME Undisturbed, All, KeptInv, NEW a \in Injectors, InjectStep(a)
  PROVE  KeptWell'
<1> USE ActorsFacts DEF At, GoTo, Spawning
<1>0. TypeOK /\ LockHeld /\ LoadedFirst /\ KeptInv /\ PasteInv /\ pc \in [Actors -> Places]
  BY DEF All, Inv, TypeOK
<1> USE <1>0 DEF KeptInv, KeptWell, QueueWaits, NotYetSent, BoxWaits, BoxIsMarked, OldestFirst,
                 BoxNotLeaving, DropHolds, GoneOut, Opens, Unsettled, Early
<1>a. a \in Actors /\ (\A b \in Actors : b # a /\ pc[a] \in Critical => pc[b] \notin Critical)
  BY DEF LockHeld
<1>b. \A p \in Prompts : pc[p] \in {"paste", "enter", "sent"} => batch[p] = {p}
  BY DEF All, Inv, OwnBatch
<1>c. pc[a] = "paste" => /\ loaded /\ batch[a] \subseteq Prompts /\ batch["canceller"] = {}
                         /\ file = queue
                         /\ a \in Prompts => queue = {} /\ box = {}
  <2>1. pc[a] = "paste" => loaded BY DEF LoadedFirst, Serving, Injectors
  <2>2. pc[a] = "paste" => pc["canceller"] # "save" /\ pc["drainer"] # "save"
    BY <1>a DEF Critical, Injectors
  <2>3. batch[a] \subseteq Prompts BY DEF TypeOK
  <2> QED BY <2>1, <2>2, <2>3 DEF PasteInv, CallPastesAlone, FileFollows, All, Inv, TakenBack
<1>d. pc[a] = "paste" => \A p \in batch[a] : Unsettled(p) /\ (a = "drainer" => ticket[p] > 0)
  <2>1. CASE a \in Prompts BY <1>b, <2>1
  <2>2. CASE a = "drainer" BY <2>2 DEF PasteInv, DrainerKnowsBox
  <2> QED BY <2>1, <2>2 DEF Injectors
<1>1. CASE PasteLands(a)
  <2> USE <1>1 DEF PasteLands
  <2>1. box' \cap Prompts \subseteq box \cup batch[a]
    BY PromptsAssumption DEF Typed
  <2> QED BY <1>a, <1>b, <1>c, <1>d, <2>1 DEF Critical, Injectors
<1>2. CASE PasteRefused(a)
  BY <1>2, <1>a, <1>c DEF PasteRefused, PasteFailed, SaveQueue, Injectors, InBox,
                          Undisturbed, Calm
<1>4. CASE PressEnter(a)
  <2> USE <1>4 DEF PressEnter
  <2>1. SubmitBox BY DEF Undisturbed, Calm
  <2>2. box = batch[a] BY DEF PasteInv, EnterSubmitsTheBatch
  <2>3. loaded /\ pc["canceller"] # "save" /\ pc["drainer"] # "save"
    BY <1>a DEF LoadedFirst, Serving, Critical, Injectors
  <2>4. file = queue BY <2>3 DEF PasteInv, FileFollows
  <2>5. \A p \in Prompts : given'[p] = IF p \in batch[a] THEN given[p] + 1 ELSE given[p]
    BY <2>1, <2>2 DEF SubmitBox
  <2>6. box' = {} BY <2>1 DEF SubmitBox
  <2>7. queue \subseteq Prompts BY DEF TypeOK
  <2>8. QueueWaits' BY <1>a, <2>4, <2>5, <2>7 DEF Critical, Injectors
  <2>9. NotYetSent'
    <3>1. \A p \in Prompts : p \in batch[a] /\ p # a =>
            pc[p] \notin Early \cup {"paste", "enter", "queue", "append"}
      BY <1>a, <2>2 DEF Critical
    <3> QED BY <1>a, <2>5, <3>1 DEF Critical
  <2> QED BY <1>a, <2>6, <2>8, <2>9 DEF Critical
<1>5. CASE RecordSent(a)
  <2> USE <1>5 DEF RecordSent
  <2>1. \A p \in batch[a] : given[p] > 0 BY DEF All, Inv, BatchGoesIn
  <2>2. box \cap batch[a] \cap Prompts = {} BY <2>1
  <2>3. batch[a] \subseteq Prompts BY DEF TypeOK
  <2>4. \A b \in Injectors : pc[b] # "enter" BY <1>a DEF Critical, Injectors
  <2>5. QueueWaits' BY <1>a DEF Critical, Injectors
  <2>6. NotYetSent' BY <1>a DEF Critical
  <2>7. BoxWaits' BY <1>a DEF Critical
  <2>8. BoxIsMarked' BY <2>2, <2>3, <2>4
  <2> QED BY <1>a, <2>5, <2>6, <2>7, <2>8 DEF Critical
<1>3. CASE PasteUnconfirmed(a)
  <2> USE <1>3 DEF PasteUnconfirmed, PasteFailed
  <2>1. box = {} /\ box' \in {{}, batch[a]}
    <3>1. box = {} \/ (OwnText /\ unsub = batch[a])
      BY <1>c DEF PasteInv, DrainerKnowsBox, Injectors
    <3> QED BY <3>1 DEF Typed
  <2>2. \A b \in Injectors : pc[b] = "enter" => FALSE BY <1>a DEF Critical, Injectors
  <2>3. UNCHANGED <<queue, ticket, batch, given, dead, loaded, inst, seen>> /\ unsub' = batch[a]
    OBVIOUS
  <2>4. CASE a = "drainer"
    <3>1. file' = queue /\ fileBox' = InBox(queue, batch[a])
      BY <2>3, <2>4 DEF SaveQueue, InBox, Undisturbed, Calm
    <3>2. Opens(batch[a], queue) BY <2>4
    <3>3. pc' = [pc EXCEPT !["drainer"] = "loop"] BY <2>4
    <3>4. batch[a] # {} => InBox(queue, batch[a]) = batch[a] BY <3>2 DEF InBox
    <3>5. BoxIsMarked' BY <1>c, <2>1, <2>3, <3>1, <3>2, <3>4
    <3>6. QueueWaits' BY <1>c, <2>3, <2>4, <3>1, <3>3
    <3>7. NotYetSent' BY <2>3, <2>4, <3>3
    <3>8. \A p \in batch[a] : Unsettled(p) /\ p \notin batch["canceller"] /\ ticket[p] > 0
      BY <1>c, <1>d, <2>4
    <3>9. \A p \in Prompts : pc'[p] = pc[p] /\ pc[p] \notin {"queue", "append"}
      BY <1>a, <2>4, <3>3 DEF Critical
    <3>10. BoxWaits'
      <4> HIDE DEF BoxIsMarked, QueueWaits, NotYetSent, OldestFirst, DropHolds
      <4> QED BY <2>1, <2>3, <3>8, <3>9
    <3>11. BoxNotLeaving' BY <1>a, <2>4, <3>3 DEF Critical
    <3> QED BY <2>3, <3>3, <3>5, <3>6, <3>7, <3>10, <3>11
  <2>5. CASE a \in Prompts
    <3>1. file' = file /\ file = {} /\ queue = {} /\ batch[a] = {a} BY <1>b, <1>c, <2>5
    <3>2. pc' = [pc EXCEPT ![a] = "queue"] BY <2>5
    <3>3. QueueWaits' /\ BoxIsMarked' BY <1>c, <2>1, <2>3, <3>1
    <3>4. NotYetSent' BY <2>3, <2>5, <3>1, <3>2
    <3>5. BoxWaits' BY <1>c, <1>d, <2>1, <2>3, <3>1, <3>2
    <3> QED BY <1>a, <2>5, <3>2, <3>3, <3>4, <3>5 DEF Critical
  <2> QED BY <2>4, <2>5 DEF Injectors
<1> QED BY <1>1, <1>2, <1>3, <1>4, <1>5 DEF InjectStep

LEMMA KeptDrain ==
  ASSUME Undisturbed, All, KeptInv, DrainStep \/ DrainFails
  PROVE  KeptWell'
<1> USE ActorsFacts DEF At, GoTo, Spawning
<1>0. TypeOK /\ LockHeld /\ LoadedFirst /\ KeptInv /\ PasteInv /\ pc \in [Actors -> Places]
  BY DEF All, Inv, TypeOK
<1> USE <1>0 DEF KeptInv, KeptWell, QueueWaits, NotYetSent, BoxWaits, BoxIsMarked, OldestFirst,
                 BoxNotLeaving, DropHolds, GoneOut, Opens, Unsettled, Early
<1>a. pc["drainer"] \in Critical => \A b \in Actors : b # "drainer" => pc[b] \notin Critical
  BY DEF LockHeld
<1>1. CASE DrainLoop
  BY <1>1 DEF DrainLoop, Injectors, Answers, TypeOK, Undisturbed, Calm
\* Prompts of a removed session are taken out only when the box holds none.
<1>2. ASSUME NEW next \in {"wait", "taint"}, Drop(next), pc["drainer"] \in {"drop", "drop2"}
      PROVE  /\ queue' \subseteq queue /\ file' \subseteq file
             /\ \/ queue' = queue /\ file' = file /\ fileBox' = fileBox /\ unsub' = unsub
                \/ box \cap Prompts = {} /\ file' = queue' /\ fileBox' = {} /\ unsub' = {}
             /\ \A p \in Prompts : dead'[p] = dead[p] \/ (p \in queue \ queue' /\ p \notin file')
             /\ pc' = [pc EXCEPT !["drainer"] = IF queue' = {} THEN "off" ELSE next]
  <2> DEFINE out == Removed(seen["drainer"])
  <2> HIDE DEF QueueWaits, NotYetSent, BoxWaits, BoxIsMarked, OldestFirst, BoxNotLeaving
  <2>0. pc' = [pc EXCEPT !["drainer"] = IF queue' = {} THEN "off" ELSE next]
    BY <1>2 DEF Drop
  <2>1. CASE out = {}
    <3>1. UNCHANGED <<queue, file, fileBox, unsub>> BY <1>2, <2>1 DEF Drop
    <3>2. UNCHANGED dead BY <1>2, <2>1 DEF Drop, DeadLetter, TypeOK
    <3> QED BY <2>0, <3>1, <3>2
  <2>2. CASE out # {}
    <3>1. queue' = queue \ out /\ file' = queue' /\ fileBox' = {} /\ unsub' = {}
      BY <1>2, <2>2 DEF Drop, SaveQueue, InBox, Undisturbed, Calm
    <3>2. \A p \in Prompts : dead'[p] = IF p \in out THEN "killed" ELSE dead[p]
      BY <1>2 DEF Drop, DeadLetter
    <3>3. out \subseteq queue BY DEF Removed
    <3>4. queue \subseteq file BY <1>2 DEF All, Inv, OnDisk, LoadedFirst, Serving
    <3>5. inst # Gone => out = Stale(queue)
      <4>1. inst # Gone => seen["drainer"] = inst BY <1>2 DEF PasteInv, AnswersHold
      <4>2. inst \in Nat BY BoundsAssumption DEF TypeOK, Gone
      <4> QED BY <4>1, <4>2 DEF Removed, Stale, Unknown, Gone
    <3>6. box \cap Prompts = {}
      <4>1. CASE inst = Gone BY <4>1 DEF PasteInv, BoxNeedsSession
      <4>2. CASE inst # Gone
        BY <4>2, <2>2, <3>5 DEF PasteInv, BoxFresh, Stale
      <4> QED BY <4>1, <4>2
    <3> QED BY <2>0, <3>1, <3>2, <3>3, <3>4, <3>6
  <2> QED BY <2>1, <2>2
<1>3. CASE DrainDrop
  <2> USE <1>3 DEF DrainDrop
  <2>1. loaded /\ queue \subseteq Prompts /\ file \subseteq Prompts
    BY DEF LoadedFirst, Serving, TypeOK
  <2>2. UNCHANGED <<loaded, batch, seen, ticket, given, box, inst>> OBVIOUS
  <2>3. pc'["drainer"] \in {"off", "wait"} /\ \A b \in Actors : b # "drainer" => pc'[b] = pc[b]
    BY <1>2
  <2>4. QueueWaits' BY <1>2, <2>1, <2>2, <2>3
  <2>5. NotYetSent' BY <1>2, <2>1, <2>2, <2>3
  <2>6. BoxWaits' BY <1>2, <2>1, <2>2, <2>3
  <2>7. BoxIsMarked' BY <1>2, <2>1, <2>2, <2>3 DEF Injectors
  <2> QED BY <1>2, <2>2, <2>3, <2>4, <2>5, <2>6, <2>7
<1>4. CASE DrainWait  BY <1>4 DEF DrainWait, Injectors
<1>5. CASE DrainLock  BY <1>5 DEF DrainLock, Injectors
<1>6. CASE DrainDropLocked
  <2> USE <1>6, <1>a DEF DrainDropLocked, Critical
  <2>1. loaded /\ queue \subseteq Prompts /\ file \subseteq Prompts
    BY DEF LoadedFirst, Serving, TypeOK
  <2>2. UNCHANGED <<loaded, seen, ticket, given, box, inst>> OBVIOUS
  <2>3. /\ pc'["drainer"] \in {"off", "taint"}
        /\ \A b \in Actors : b # "drainer" => pc'[b] = pc[b] /\ batch'[b] = batch[b]
    BY <1>2 DEF TypeOK
  <2>4. QueueWaits' BY <1>2, <2>1, <2>2, <2>3
  <2>5. NotYetSent' BY <1>2, <2>1, <2>2, <2>3
  <2>6. BoxWaits' BY <1>2, <2>1, <2>2, <2>3
  <2>7. BoxIsMarked' BY <1>2, <2>1, <2>2, <2>3 DEF Injectors
  <2>8. OldestFirst'
    <3>1. batch'["drainer"] = NextBatch(queue', unsub') BY DEF TypeOK
    <3> QED BY <3>1 DEF NextBatch, InBox
  <2> QED BY <1>2, <2>2, <2>3, <2>4, <2>5, <2>6, <2>7, <2>8
<1>7. CASE DrainTaint BY <1>7 DEF DrainTaint, Injectors
<1>8. CASE DrainSave
  <2> USE <1>8, <1>a DEF DrainSave, Critical
  <2>1. file' = queue /\ fileBox' = InBox(queue, unsub) /\ pc' = [pc EXCEPT !["drainer"] = "loop"]
    BY DEF SaveQueue, InBox, Undisturbed, Calm
  <2>2. box \cap queue # {} => InBox(queue, unsub) = box BY DEF InBox, Injectors
  <2> QED BY <2>1, <2>2
<1>9. CASE DrainFails BY <1>9 DEF DrainFails, Injectors, Undisturbed, Calm
<1> QED BY <1>1, <1>3, <1>4, <1>5, <1>6, <1>7, <1>8, <1>9 DEF DrainStep

LEMMA KeptCancel ==
  ASSUME Undisturbed, All, KeptInv, CancelStart \/ CancelStep \/ CancelCancelled
  PROVE  KeptWell'
<1> USE ActorsFacts DEF At, GoTo, Spawning
<1>0. TypeOK /\ LockHeld /\ LoadedFirst /\ KeptInv /\ PasteInv /\ pc \in [Actors -> Places]
  BY DEF All, Inv, TypeOK
<1> USE <1>0 DEF KeptInv, KeptWell, QueueWaits, NotYetSent, BoxWaits, BoxIsMarked, OldestFirst,
                 BoxNotLeaving, DropHolds, GoneOut, Opens, Unsettled, Early
<1>a. pc["canceller"] \in Critical => \A b \in Actors : b # "canceller" => pc[b] \notin Critical
  BY DEF LockHeld
<1>b. queue \subseteq Prompts /\ file \subseteq Prompts /\ batch \in [Actors -> SUBSET Prompts]
  BY DEF TypeOK
<1>1. CASE CancelStart  BY <1>1 DEF CancelStart, Injectors
<1>2. CASE CancelTake
  <2> USE <1>2, <1>a, <1>b DEF CancelTake, Critical
  <2>1. loaded BY DEF LoadedFirst, Serving
  <2>2. \A b \in Injectors : pc[b] # "enter" BY DEF Injectors
  <2>3. PICK S \in {{p} : p \in Open} \cup {Open} :
          /\ queue' = queue \ S
          /\ IF S # {} /\ S = queue
             THEN /\ batch' = [batch EXCEPT !["canceller"] = S]
                  /\ GoTo("canceller", "save")
                  /\ UNCHANGED <<unsub, ticket, file, fileBox, dead>>
             ELSE Cancelled(S) /\ UNCHANGED batch
    OBVIOUS
  <2>4. S \subseteq queue /\ S \cap box = {}
    BY <2>1, <2>2, <2>3 DEF Open, InBox
  <2>5. CASE S # {} /\ S = queue
    <3>1. file = queue BY <2>1 DEF PasteInv, FileFollows
    <3> QED BY <2>1, <2>2, <2>3, <2>4, <2>5, <3>1
  <2>6. CASE ~(S # {} /\ S = queue)
    <3>1. /\ file' = queue' /\ fileBox' = InBox(queue', unsub)
          /\ UNCHANGED <<batch, unsub, ticket>>
          /\ pc' = [pc EXCEPT !["canceller"] = "unlock"]
          /\ \A p \in Prompts : dead'[p] = IF p \in S THEN "cancelled" ELSE dead[p]
      BY <2>3, <2>6 DEF Cancelled, DeadLetter, SaveQueue, InBox, Undisturbed, Calm
    <3>2. QueueWaits' BY <2>3, <2>4, <3>1
    <3>3. NotYetSent' BY <2>3, <2>4, <3>1
    <3>4. BoxWaits' BY <2>3, <2>4, <3>1
    <3>5. box \cap queue' # {} => InBox(queue', unsub) = box
      BY <2>1, <2>2, <2>3, <2>4 DEF InBox
    <3>6. BoxIsMarked' BY <2>1, <2>2, <2>3, <2>4, <3>1, <3>5
    <3> QED BY <2>3, <3>1, <3>2, <3>3, <3>4, <3>6
  <2> QED BY <2>5, <2>6
<1>3. CASE CancelSave
  <2> USE <1>3, <1>a, <1>b DEF CancelSave, Critical
  <2> DEFINE S == batch["canceller"]
  <2>1. S \subseteq file /\ (S # {} => queue = {}) BY DEF All, Inv, OnDisk, TakenBack
  <2>2. /\ file' = queue /\ fileBox' = InBox(queue, unsub) /\ UNCHANGED <<queue, unsub, ticket>>
        /\ pc' = [pc EXCEPT !["canceller"] = "unlock"]
        /\ \A p \in Prompts : dead'[p] = IF p \in S THEN "cancelled" ELSE dead[p]
        /\ batch' = [batch EXCEPT !["canceller"] = {}]
    BY DEF Cancelled, DeadLetter, SaveQueue, InBox, Undisturbed, Calm
  <2>3. loaded /\ \A b \in Injectors : pc[b] # "enter" BY DEF LoadedFirst, Serving, Injectors
  <2>4. QueueWaits' BY <2>1, <2>2
  <2>5. NotYetSent' BY <2>1, <2>2
  <2>6. BoxWaits' BY <2>1, <2>2
  <2>7. box \cap queue # {} => InBox(queue, unsub) = box BY <2>3 DEF InBox
  <2>8. BoxIsMarked' BY <2>2, <2>3, <2>7
  <2> QED BY <2>2, <2>4, <2>5, <2>6, <2>8
<1>4. CASE CancelCancelled  BY <1>4 DEF CancelCancelled, Undisturbed, Calm
<1> QED BY <1>1, <1>2, <1>3, <1>4 DEF CancelStep

LEMMA KeptAround ==
  ASSUME Undisturbed, All, KeptInv, Restart \/ SessionStep
  PROVE  KeptWell'
<1> USE ActorsFacts DEF At, GoTo, Spawning
<1>0. TypeOK /\ LockHeld /\ LoadedFirst /\ KeptInv /\ PasteInv /\ pc \in [Actors -> Places]
  BY DEF All, Inv, TypeOK
<1> USE <1>0 DEF KeptInv, KeptWell, QueueWaits, NotYetSent, BoxWaits, BoxIsMarked, OldestFirst,
                 BoxNotLeaving, DropHolds, GoneOut, Opens, Unsettled, Early
<1>a. /\ Pasting <=> \E a \in Actors : pc[a] \in {"drop2", "taint", "paste", "enter"}
      /\ BoxPasted <=> \E a \in Actors : pc[a] = "enter"
      /\ HandsOff <=> ~Pasting
      /\ Inspecting <=> Pasting \/ \E a \in Actors : pc[a] \in {"drop", "append"}
  BY DEF Pasting, BoxPasted, HandsOff, Inspecting, Somewhere
<1>b. queue \subseteq Prompts /\ file \subseteq Prompts /\ batch \in [Actors -> SUBSET Prompts]
  BY DEF TypeOK
<1>1. CASE Restart
  <2> USE <1>1 DEF Restart
  <2>1. /\ \A a \in Actors : pc[a] # "enter"
        /\ pc["drainer"] \notin {"sent", "save"}
    BY <1>a DEF Undisturbed, Submitted
  <2>2. \A p \in Prompts :
          /\ pc[p] \in {"queue", "append", "failed"} => pc'[p] = "failed"
          /\ pc'[p] \in {"failed", "done", "refused"} \/ (pc'[p] = "idle" /\ pc[p] = "idle")
    BY DEF AfterRestart, Workers
  <2>3. pc'["drainer"] = "off" /\ pc'["canceller"] = "idle"
    BY DEF AfterRestart, Workers
  <2>4. /\ queue' = {} /\ unsub' = {} /\ loaded' = FALSE /\ \A a \in Actors : batch'[a] = {}
        /\ file' = file /\ fileBox' = fileBox /\ dead' = dead /\ ticket' = ticket
        /\ box' = box /\ given' = given
    OBVIOUS
  <2>5. QueueWaits' BY <2>1, <2>3, <2>4
  <2>6. NotYetSent' BY <2>2, <2>4
  <2>7. BoxWaits' BY <2>1, <2>2, <2>4
  <2>8. BoxIsMarked' BY <2>1, <2>4 DEF Injectors
  <2> QED BY <2>3, <2>5, <2>6, <2>7, <2>8
<1>2. CASE Kill      BY <1>2 DEF Kill
<1>3. CASE Create
  <2>1. box = {} BY <1>3 DEF Create, PasteInv, BoxNeedsSession
  <2> QED BY <1>3, <1>a, <2>1 DEF Create, Undisturbed, Calm
<1>4. CASE Taint \/ TurnStarts \/ TurnEnds \/ ClaudeStarts
  BY <1>4 DEF Taint, TurnStarts, TurnEnds, ClaudeStarts
<1>5. CASE ClaudeStops    BY <1>5 DEF ClaudeStops
<1>6. CASE PersonTypes
  <2>1. box' = {Person} BY <1>6 DEF PersonTypes
  <2>2. box' \cap Prompts = {} BY <2>1, PromptsAssumption
  <2> QED BY <1>6, <1>b, <2>2 DEF PersonTypes
<1>7. CASE PersonClears   BY <1>7 DEF PersonClears
<1>8. CASE PersonSubmits
  <2> USE <1>8, <1>a DEF PersonSubmits
  <2>1. box \cap Waiting = {} /\ box' = {} BY DEF Undisturbed, SubmitBox
  <2>2. \A p \in Prompts : given'[p] = IF p \in box THEN given[p] + 1 ELSE given[p]
    BY DEF SubmitBox
  <2>3. box \cap file = {} /\ box \cap queue = {}
    <3>1. CASE loaded BY <3>1, <2>1 DEF Waiting, PasteInv, FileFollows
    <3>2. CASE ~loaded BY <3>2, <2>1 DEF Waiting, LoadedFirst
    <3> QED BY <3>1, <3>2
  <2>4. /\ UNCHANGED pc /\ UNCHANGED queue /\ UNCHANGED file /\ UNCHANGED fileBox
        /\ UNCHANGED batch /\ UNCHANGED ticket /\ UNCHANGED dead /\ UNCHANGED unsub
        /\ UNCHANGED loaded /\ UNCHANGED inst /\ UNCHANGED seen
    OBVIOUS
  <2>5. QueueWaits' BY <1>b, <2>2, <2>3, <2>4
  <2>6. NotYetSent'
    <3>1. \A p \in Prompts : pc[p] \in {"queue", "append"} => p \notin box
      BY DEF Unqueued
    <3> QED BY <1>b, <2>2, <2>4, <3>1
  <2> QED BY <2>1, <2>4, <2>5, <2>6
<1> QED BY <1>1, <1>2, <1>3, <1>4, <1>5, <1>6, <1>7, <1>8 DEF SessionStep

LEMMA KeptInvStep == Undisturbed /\ All /\ KeptInv /\ [Next]_vars => KeptInv'
<1> SUFFICES ASSUME Undisturbed, All, KeptInv, [Next]_vars PROVE KeptInv'
  OBVIOUS
<1>1. TicketsInOrder' BY TicketStep DEF All, Inv, KeptInv, KeptWell
<1>2. KeptWell'
  <2>1. CASE UNCHANGED vars
    BY <2>1 DEF KeptInv, KeptWell, QueueWaits, NotYetSent, BoxWaits, BoxIsMarked, OldestFirst,
                BoxNotLeaving, DropHolds, GoneOut, Opens, Unsettled
  <2> QED BY <2>1, KeptSend, KeptLock, KeptInject, KeptDrain, KeptCancel, KeptAround DEF Next
<1> QED BY <1>1, <1>2 DEF KeptInv

LEMMA KeptInit == Init => KeptInv
<1> SUFFICES ASSUME Init PROVE KeptInv OBVIOUS
<1>1. TicketsInOrder
  <2>1. Cardinality(Arrived) \in Nat BY ArrivedType
  <2> QED BY <2>1 DEF Init, TicketsInOrder
<1>2. KeptWell
  BY ActorsFacts DEF Init, KeptWell, QueueWaits, NotYetSent, BoxWaits, BoxIsMarked,
                     OldestFirst, BoxNotLeaving, DropHolds, GoneOut, Opens, Unsettled
<1> QED BY <1>1, <1>2 DEF KeptInv

LEMMA AllStep == Undisturbed /\ All /\ [Next]_vars => All'
<1> SUFFICES ASSUME Undisturbed, All, [Next]_vars PROVE All'
  OBVIOUS
<1>1. Base' /\ PasteInv' /\ HomeInv'
  BY BaseStep, PasteStep, HomeStep DEF All, Inv, Base, Undisturbed
<1>2. Inv'
  BY TypeStep, LockStep, LoadedStep, GoesInStep, OwnBatchStep, KeptStep, NoneLostStep
     DEF All, Inv, Kept, Undisturbed, Calm
<1> QED BY <1>1, <1>2 DEF All

-----------------------------------------------------------------------------
(* Each step of SendQueue is one of PromptPromise or leaves it alone.       *)

LEMMA FateIs ==
  ASSUME TypeOK, NEW p \in Prompts
  PROVE  /\ Fate[p] = "waiting" <=> Unsettled(p) /\ ticket[p] > 0
         /\ Fate[p] = "unsent" <=> Unsettled(p) /\ ticket[p] = 0 /\ pc[p] # "failed"
         /\ Fate[p] = "failed" <=> Unsettled(p) /\ ticket[p] = 0 /\ pc[p] = "failed"
BY DEF TypeOK, Fate, Unsettled

\* What the fate of a prompt is made of.
FateHolds(p) ==
  /\ given'[p] = given[p] /\ dead'[p] = dead[p] /\ ticket'[p] = ticket[p]
  /\ pc'[p] = "failed" <=> pc[p] = "failed"

LEMMA FateStays ==
  ASSUME TypeOK, NEW p \in Prompts, FateHolds(p)
  PROVE  Fate'[p] = Fate[p]
BY DEF FateHolds, Fate

LEMMA Stutters ==
  ASSUME TypeOK, UNCHANGED given, UNCHANGED dead, UNCHANGED ticket,
         \A p \in Prompts : pc'[p] = "failed" <=> pc[p] = "failed"
  PROVE  UNCHANGED <<Fate, given, ticket>>
BY DEF Fate

LEMMA Becomes ==
  ASSUME TypeOK, NEW S \in SUBSET Prompts, NEW f, \A p \in S : Fate'[p] = f,
         \A p \in Prompts \ S : FateHolds(p)
  PROVE  Promise!Become(S, f)
<1>1. \A p \in Prompts : Fate'[p] = IF p \in S THEN f ELSE Fate[p]
  BY FateStays
<1>2. Fate' = [p \in Prompts |-> Fate'[p]]
  BY DEF Fate
<1> QED BY <1>1, <1>2 DEF Promise!Become

\* Prompts that wait are reported together.
LEMMA Reported ==
  ASSUME TypeOK, NEW S \in SUBSET Prompts, NEW why \in {"cancelled", "killed"},
         \A p \in S : Unsettled(p) /\ ticket[p] > 0,
         DeadLetter(S, why), UNCHANGED given, UNCHANGED ticket,
         \A p \in Prompts : pc'[p] = "failed" <=> pc[p] = "failed"
  PROVE  Promise!Next
<1>1. \A p \in S : Fate'[p] = why
  BY DEF DeadLetter, Fate, Unsettled
<1>2. \A p \in Prompts \ S : FateHolds(p)
  BY DEF DeadLetter, FateHolds
<1>3. Promise!Become(S, why)
  BY <1>1, <1>2, Becomes
<1>4. S \in SUBSET Promise!With("waiting")
  BY FateIs DEF Promise!With
<1> QED BY <1>3, <1>4 DEF Promise!Next, Promise!Report

Simulates == Promise!Next \/ UNCHANGED <<Fate, given, ticket>>

\* The prompts that wait, seen from a step under the lock.
LEMMA WaitingIsQueue ==
  ASSUME All, NEW p \in Prompts, Unsettled(p), ticket[p] > 0
  PROVE  p \in Waiting \cup batch["canceller"]
BY DEF All, Inv, NoPromptLost, Accepted, Arrived, Settled, Unsettled

\* Enter, pressed for a session_send: its prompt goes in alone, with nothing waiting.
LEMMA CallSubmits ==
  ASSUME Undisturbed, All, KeptInv, NEW a \in Prompts, pc[a] = "enter",
         SubmitBox, UNCHANGED dead, UNCHANGED ticket,
         \A q \in Prompts \ {a} : pc'[q] = "failed" <=> pc[q] = "failed"
  PROVE  Promise!Next
<1>0. TypeOK /\ pc \in [Actors -> Places] /\ a \in Actors /\ given \in [Prompts -> Nat]
  BY ActorsFacts DEF All, Inv, TypeOK
<1>1. batch[a] = {a} /\ box = {a}
  BY DEF All, Inv, OwnBatch, PasteInv, EnterSubmitsTheBatch, Injectors
<1>2. given' = [p \in Prompts |-> IF p \in {a} THEN given[p] + 1 ELSE given[p]]
  BY <1>1 DEF SubmitBox
<1>3. Unsettled(a) /\ queue = {} /\ ticket[a] = 0
  BY <1>1 DEF KeptInv, KeptWell, BoxWaits, NotYetSent
<1>4. \A p \in {a} : Fate'[p] = "given"
  BY <1>0, <1>2, <1>3 DEF Fate, Unsettled
<1>5. \A p \in Prompts \ {a} : FateHolds(p)
  BY <1>2 DEF FateHolds
<1>6. Promise!Give({a})
  BY <1>0, <1>2, <1>4, <1>5, Becomes DEF Promise!Give
<1>7. pc["canceller"] # "save" /\ loaded
  BY <1>0, ActorsFacts DEF All, Inv, LockHeld, LoadedFirst, Critical, Serving
<1>8. Promise!With("waiting") = {}
  <2>1. batch["canceller"] = {} BY <1>7 DEF All, Inv, TakenBack
  <2>2. ASSUME NEW p \in Promise!With("waiting") PROVE p \in queue
    <3>1. p \in Prompts /\ Unsettled(p) /\ ticket[p] > 0
      BY <1>0, <2>2, FateIs DEF Promise!With
    <3> QED BY <1>7, <2>1, <3>1, WaitingIsQueue DEF Waiting
  <2> QED BY <1>3, <2>2
<1>9. a \in Promise!With("unsent")
  BY <1>0, <1>3, FateIs DEF Promise!With
<1>10. Promise!GiveAtOnce(a)
  BY <1>6, <1>8 DEF Promise!GiveAtOnce
<1> QED BY <1>9, <1>10 DEF Promise!Next

LEMMA SendSimulates ==
  ASSUME Undisturbed, All, KeptInv, NEW p \in Prompts, SendStep(p) \/ SendCancelled(p) \/ SendCutShort(p)
  PROVE  Simulates
<1> USE ActorsFacts DEF At, GoTo, Spawning
<1>0. TypeOK /\ pc \in [Actors -> Places] /\ p # "drainer"
  BY DEF All, Inv, TypeOK
<1>a. pc[p] \in Early \cup {"paste", "enter", "queue", "append"} =>
        ticket[p] = 0 /\ given[p] = 0 /\ dead[p] = "none"
  BY DEF KeptInv, KeptWell, NotYetSent
<1>1. CASE SendStart(p) \/ SendDecide(p) \/ SendInspect(p) \/ SendSpawn(p)
  <2>1. UNCHANGED given /\ UNCHANGED dead /\ UNCHANGED ticket
    BY <1>1 DEF SendStart, SendDecide, SendInspect, SendSpawn
  <2>2. \A q \in Prompts : pc'[q] = "failed" <=> pc[q] = "failed"
    BY <1>0, <1>1 DEF SendStart, SendDecide, SendInspect, SendSpawn
  <2> QED BY <1>0, <2>1, <2>2, Stutters DEF Simulates
<1>2. CASE SendAppend(p)
  <2>1. \A q \in Prompts : pc'[q] = "failed" <=> pc[q] = "failed"
    BY <1>0, <1>2 DEF SendAppend
  <2>2. UNCHANGED given /\ UNCHANGED dead BY <1>2 DEF SendAppend
  <2>3. CASE Cardinality(queue) >= Depth
    <3>1. UNCHANGED ticket BY <1>2, <2>3 DEF SendAppend
    <3> QED BY <1>0, <2>1, <2>2, <3>1, Stutters DEF Simulates
  <2>4. CASE ~(Cardinality(queue) >= Depth)
    <3>1. ticket' = [ticket EXCEPT ![p] = Cardinality(Arrived) + 1]
      BY <1>2, <2>4 DEF SendAppend
    <3>2. ticket \in [Prompts -> Nat] /\ Cardinality(Arrived) \in Nat
      BY <1>0, ArrivedType DEF TypeOK
    <3>3. Unsettled(p) /\ ticket[p] = 0 /\ pc[p] # "failed"
      BY <1>2, <1>a DEF SendAppend, Unsettled
    <3>4. Fate'[p] = "waiting"
      BY <2>2, <3>1, <3>2, <3>3 DEF Fate, Unsettled
    <3>5. \A q \in Prompts \ {p} : FateHolds(q)
      BY <2>1, <2>2, <3>1, <3>2 DEF FateHolds
    <3>6. Promise!Become({p}, "waiting")
      BY <1>0, <3>4, <3>5, Becomes
    <3>7. Promise!Cardinality(Promise!Arrivals) = Cardinality(Arrived)
      <4>1. Promise!Arrivals = Arrived BY DEF Promise!Arrivals, Arrived
      <4> QED BY <4>1 DEF Promise!Cardinality, Cardinality
    <3>8. p \in Promise!With("unsent") BY <1>0, <3>3, FateIs DEF Promise!With
    <3>9. Promise!Accept(p) BY <2>2, <3>1, <3>6, <3>7 DEF Promise!Accept
    <3> QED BY <3>8, <3>9 DEF Simulates, Promise!Next
  <2> QED BY <2>3, <2>4
\* A call that is cancelled before it queued anything has failed; one that is
\* cancelled after that has left its prompt waiting.
<1>3. CASE SendCancelled(p)
  <2> USE <1>3 DEF SendCancelled
  <2>1. UNCHANGED given /\ UNCHANGED dead /\ UNCHANGED ticket OBVIOUS
  <2>2. \A q \in Prompts \ {p} : FateHolds(q) BY <1>0, <2>1 DEF FateHolds
  <2>3. CASE pc[p] = "spawn"
    <3>1. ticket[p] > 0 BY <2>3 DEF All, Inv, OwnBatch
    <3>2. Fate'[p] = Fate[p] BY <2>1, <3>1 DEF Fate
    <3>3. Fate' = Fate BY <1>0, <2>2, <3>2, FateStays DEF Fate
    <3> QED BY <2>1, <3>3 DEF Simulates
  <2>4. CASE pc[p] # "spawn"
    <3>1. Unsettled(p) /\ ticket[p] = 0 /\ pc[p] # "failed"
      BY <1>a, <2>4 DEF Unsettled, Early
    <3>2. pc'[p] = "failed" BY <1>0
    <3>3. Fate'[p] = "failed"
      BY <1>0, <2>1, <3>1, <3>2 DEF Fate, Unsettled
    <3>4. Promise!Become({p}, "failed") BY <1>0, <2>2, <3>3, Becomes
    <3>5. {p} \in SUBSET Promise!With("unsent") BY <1>0, <3>1, FateIs DEF Promise!With
    <3>6. Promise!Fail({p}) BY <2>1, <3>4 DEF Promise!Fail
    <3> QED BY <3>5, <3>6 DEF Simulates, Promise!Next
  <2> QED BY <2>3, <2>4
\* One cancelled at Enter has failed with its text in the box, or gave its prompt.
<1>4. CASE SendCutShort(p)
  <2> USE <1>4 DEF SendCutShort
  <2>1. UNCHANGED dead /\ UNCHANGED ticket OBVIOUS
  <2>2. \A q \in Prompts \ {p} : pc'[q] = "failed" <=> pc[q] = "failed" BY <1>0
  <2>3. CASE SubmitBox
    BY <2>1, <2>2, <2>3, CallSubmits DEF Simulates
  <2>4. CASE UNCHANGED given
    <3>1. \A q \in Prompts \ {p} : FateHolds(q) BY <2>1, <2>2, <2>4 DEF FateHolds
    <3>2. Unsettled(p) /\ ticket[p] = 0 /\ pc[p] # "failed"
      BY <1>a DEF Unsettled, Early
    <3>3. pc'[p] = "failed" BY <1>0
    <3>4. Fate'[p] = "failed"
      BY <1>0, <2>1, <2>4, <3>2, <3>3 DEF Fate, Unsettled
    <3>5. Promise!Become({p}, "failed") BY <1>0, <3>1, <3>4, Becomes
    <3>6. {p} \in SUBSET Promise!With("unsent") BY <1>0, <3>2, FateIs DEF Promise!With
    <3>7. Promise!Fail({p}) BY <2>1, <2>4, <3>5 DEF Promise!Fail
    <3> QED BY <3>6, <3>7 DEF Simulates, Promise!Next
  <2> QED BY <2>3, <2>4
<1> QED BY <1>1, <1>2, <1>3, <1>4 DEF SendStep

LEMMA LockSimulates ==
  ASSUME Undisturbed, All, KeptInv, NEW a \in Actors \ {"drainer"},
         Acquire(a) \/ LoadQueue(a) \/ Unlock(a)
  PROVE  Simulates
<1> USE ActorsFacts DEF At, GoTo, Spawning
<1>0. TypeOK /\ pc \in [Actors -> Places]
  BY DEF All, Inv, TypeOK
<1>1. \A q \in Prompts : pc'[q] = "failed" <=> pc[q] = "failed"
  BY <1>0 DEF Acquire, LoadQueue, Unlock, NextAfterLoad
<1>2. UNCHANGED given /\ UNCHANGED ticket
  BY DEF Acquire, LoadQueue, Unlock
<1>3. CASE UNCHANGED dead
  BY <1>0, <1>1, <1>2, <1>3, Stutters DEF Simulates
<1>4. CASE LoadQueue(a) /\ DeadLetter(file, "killed")
  <2>1. pc["drainer"] \notin {"sent", "save"}
    BY <1>4 DEF LoadQueue, All, Inv, LoadedFirst, Serving
  <2>2. \A p \in file : Unsettled(p) /\ ticket[p] > 0
    BY <2>1 DEF KeptInv, KeptWell, QueueWaits, GoneOut
  <2>3. file \in SUBSET Prompts BY <1>0 DEF TypeOK
  <2> QED BY <1>0, <1>1, <1>2, <1>4, <2>2, <2>3, Reported DEF Simulates
<1> QED BY <1>3, <1>4 DEF Acquire, LoadQueue, Unlock

LEMMA InjectSimulates ==
  ASSUME Undisturbed, All, KeptInv, NEW a \in Injectors, InjectStep(a)
  PROVE  Simulates
<1> USE ActorsFacts DEF At, GoTo, Spawning
<1>0. TypeOK /\ pc \in [Actors -> Places] /\ a \in Actors /\ given \in [Prompts -> Nat]
  BY DEF All, Inv, TypeOK
<1>1. \A q \in Prompts : pc'[q] = "failed" <=> pc[q] = "failed"
  BY <1>0 DEF InjectStep, PasteLands, PasteRefused, PasteUnconfirmed, PasteFailed,
              PressEnter, RecordSent
<1>2. CASE PasteLands(a) \/ PasteRefused(a) \/ PasteUnconfirmed(a) \/ RecordSent(a)
  <2>1. UNCHANGED given /\ UNCHANGED dead /\ UNCHANGED ticket
    BY <1>2 DEF PasteLands, PasteRefused, PasteUnconfirmed, PasteFailed, RecordSent
  <2> QED BY <1>0, <1>1, <2>1, Stutters DEF Simulates
<1>3. CASE PressEnter(a)
  <2> DEFINE S == batch[a]
  <2>1. SubmitBox /\ UNCHANGED dead /\ UNCHANGED ticket
    BY <1>3 DEF PressEnter, Undisturbed, Calm
  <2>2. box = S /\ S \in SUBSET Prompts
    BY <1>0, <1>3 DEF PressEnter, All, PasteInv, EnterSubmitsTheBatch, TypeOK
  <2>3. given' = [p \in Prompts |-> IF p \in S THEN given[p] + 1 ELSE given[p]]
    BY <2>1, <2>2 DEF SubmitBox
  <2>4. \A p \in S : Unsettled(p)
    BY <2>2 DEF KeptInv, KeptWell, BoxWaits
  <2>5. \A p \in S : Fate'[p] = "given"
    BY <1>0, <2>1, <2>2, <2>3, <2>4 DEF Fate, Unsettled
  <2>6. \A p \in Prompts \ S : FateHolds(p)
    BY <1>1, <2>1, <2>3 DEF FateHolds
  <2>7. Promise!Give(S)
    BY <1>0, <2>2, <2>3, <2>5, <2>6, Becomes DEF Promise!Give
  <2>8. pc["canceller"] # "save" /\ loaded
    BY <1>0, <1>3 DEF PressEnter, All, Inv, LockHeld, LoadedFirst, Critical, Serving, Injectors
  <2>9. Promise!With("waiting") \subseteq queue
    <3>1. batch["canceller"] = {} BY <2>8 DEF All, Inv, TakenBack
    <3>2. ASSUME NEW p \in Promise!With("waiting") PROVE p \in queue
      <4>1. p \in Prompts /\ Unsettled(p) /\ ticket[p] > 0
        BY <1>0, FateIs DEF Promise!With
      <4> QED BY <2>8, <3>1, <4>1, WaitingIsQueue DEF Waiting
    <3> QED BY <3>2
  <2>10. CASE a = "drainer"
    <3>1. Opens(S, queue)
      BY <1>3, <2>10 DEF PressEnter, KeptInv, KeptWell, OldestFirst
    <3>2. \A p \in S : ticket[p] > 0
      BY <1>3, <2>10, <3>1 DEF PressEnter, KeptInv, KeptWell, QueueWaits, GoneOut, Opens
    <3>3. S \in SUBSET Promise!With("waiting")
      BY <1>0, <2>2, <2>4, <3>2, FateIs DEF Promise!With
    <3>4. Promise!GiveNext(S)
      BY <2>1, <2>7, <2>9, <3>1 DEF Promise!GiveNext, Opens
    <3> QED BY <3>3, <3>4 DEF Simulates, Promise!Next
  <2>11. CASE a \in Prompts
    <3>1. pc[a] = "enter" BY <1>3 DEF PressEnter
    <3> QED BY <1>1, <2>1, <2>11, <3>1, CallSubmits DEF Simulates
  <2> QED BY <2>10, <2>11 DEF Injectors
<1> QED BY <1>2, <1>3 DEF InjectStep

LEMMA DrainSimulates ==
  ASSUME Undisturbed, All, KeptInv, DrainStep \/ DrainFails
  PROVE  Simulates
<1> USE ActorsFacts DEF At, GoTo, Spawning
<1>0. TypeOK /\ pc \in [Actors -> Places]
  BY DEF All, Inv, TypeOK
<1>1. \A q \in Prompts : pc'[q] = pc[q]
  BY <1>0 DEF DrainStep, DrainFails, DrainLoop, DrainDrop, DrainWait, DrainLock,
              DrainDropLocked, DrainTaint, DrainSave, Drop
<1>2. UNCHANGED given /\ UNCHANGED ticket
  BY DEF DrainStep, DrainFails, DrainLoop, DrainDrop, DrainWait, DrainLock,
         DrainDropLocked, DrainTaint, DrainSave
<1>3. CASE UNCHANGED dead
  BY <1>0, <1>1, <1>2, <1>3, Stutters DEF Simulates
<1>4. ASSUME NEW next, Drop(next), pc["drainer"] \in {"drop", "drop2"} PROVE Simulates
  <2> DEFINE S == Removed(seen["drainer"])
  <2>1. S \subseteq queue /\ S \in SUBSET Prompts
    BY <1>0 DEF Removed, TypeOK
  <2>2. \A p \in S : Unsettled(p) /\ ticket[p] > 0
    BY <1>4, <2>1 DEF KeptInv, KeptWell, QueueWaits, GoneOut
  <2>3. DeadLetter(S, "killed") BY <1>4 DEF Drop
  <2> QED BY <1>0, <1>1, <1>2, <2>1, <2>2, <2>3, Reported DEF Simulates
<1>5. CASE DrainDrop        BY <1>4, <1>5 DEF DrainDrop
<1>6. CASE DrainDropLocked  BY <1>4, <1>6 DEF DrainDropLocked
<1> QED BY <1>3, <1>5, <1>6 DEF DrainStep, DrainFails, DrainLoop, DrainWait, DrainLock,
                                DrainTaint, DrainSave

LEMMA CancelSimulates ==
  ASSUME Undisturbed, All, KeptInv, CancelStart \/ CancelStep \/ CancelCancelled
  PROVE  Simulates
<1> USE ActorsFacts DEF At, GoTo, Spawning
<1>0. TypeOK /\ pc \in [Actors -> Places]
  BY DEF All, Inv, TypeOK
<1>1. \A q \in Prompts : pc'[q] = pc[q]
  BY <1>0 DEF CancelStep, CancelStart, CancelTake, CancelSave, CancelCancelled, Cancelled
<1>2. UNCHANGED given /\ UNCHANGED ticket
  BY DEF CancelStep, CancelStart, CancelTake, CancelSave, CancelCancelled, Cancelled
<1>3. CASE UNCHANGED dead
  BY <1>0, <1>1, <1>2, <1>3, Stutters DEF Simulates
<1>4. ASSUME NEW S \in SUBSET (queue \cup file), Cancelled(S),
             pc["canceller"] \in {"take", "save"}
      PROVE  Simulates
  <2>1. pc["drainer"] \notin {"sent", "save"}
    BY <1>4 DEF All, Inv, LockHeld, Critical
  <2>2. \A p \in S : Unsettled(p) /\ ticket[p] > 0
    BY <1>4, <2>1 DEF KeptInv, KeptWell, QueueWaits, GoneOut
  <2>3. DeadLetter(S, "cancelled") /\ S \in SUBSET Prompts
    BY <1>0, <1>4 DEF Cancelled, TypeOK
  <2> QED BY <1>0, <1>1, <1>2, <2>2, <2>3, Reported DEF Simulates
<1>5. CASE CancelTake
  <2>1. ASSUME NEW S \in {{p} : p \in Open} \cup {Open} PROVE S \in SUBSET (queue \cup file)
    BY DEF Open
  <2> QED BY <1>3, <1>4, <1>5, <2>1 DEF CancelTake
<1>6. CASE CancelSave
  <2>1. batch["canceller"] \in SUBSET (queue \cup file) BY DEF All, Inv, OnDisk
  <2> QED BY <1>4, <1>6, <2>1 DEF CancelSave
<1> QED BY <1>3, <1>5, <1>6 DEF CancelStep, CancelStart, CancelCancelled

LEMMA AroundSimulates ==
  ASSUME Undisturbed, All, KeptInv, Restart \/ SessionStep
  PROVE  Simulates
<1> USE ActorsFacts DEF At, GoTo, Spawning
<1>0. TypeOK /\ pc \in [Actors -> Places] /\ given \in [Prompts -> Nat]
  BY DEF All, Inv, TypeOK
<1>1. CASE Restart
  <2> DEFINE S == {p \in Promise!With("unsent") : pc'[p] = "failed"}
  <2>1. UNCHANGED given /\ UNCHANGED dead /\ UNCHANGED ticket
    BY <1>1 DEF Restart
  <2>2. \A p \in Prompts : pc[p] = "failed" => pc'[p] = "failed"
    BY <1>1 DEF Restart, AfterRestart, Workers
  <2>3. \A p \in S : p \in Prompts /\ Unsettled(p) /\ ticket[p] = 0 /\ pc'[p] = "failed"
    BY <1>0, FateIs DEF Promise!With
  <2>4. \A p \in S : Fate'[p] = "failed"
    BY <1>0, <2>1, <2>3 DEF Fate, Unsettled
  \* A call that fails has answered nothing; the fate of any other does not change.
  <2>5. \A p \in Prompts \ S : Fate'[p] = Fate[p]
    BY <1>0, <2>1, <2>2 DEF Fate, Promise!With, TypeOK
  <2>6. Fate' = [p \in Prompts |-> IF p \in S THEN "failed" ELSE Fate[p]]
    BY <2>4, <2>5 DEF Fate
  <2>7. S \in SUBSET Promise!With("unsent") OBVIOUS
  <2> QED BY <2>1, <2>6, <2>7 DEF Simulates, Promise!Next, Promise!Fail, Promise!Become
<1>2. CASE SessionStep /\ ~PersonSubmits
  <2>1. UNCHANGED given /\ UNCHANGED dead /\ UNCHANGED ticket /\ UNCHANGED pc
    BY <1>2 DEF SessionStep, Kill, Create, Taint, TurnStarts, TurnEnds, ClaudeStops,
                ClaudeStarts, PersonTypes, PersonClears
  <2> QED BY <1>0, <2>1, Stutters DEF Simulates
\* Only what a call that failed had left in the box can be submitted there.
<1>3. CASE PersonSubmits
  <2> DEFINE S == box \cap Prompts
  <2>1. SubmitBox /\ UNCHANGED pc /\ UNCHANGED dead /\ UNCHANGED ticket
    BY <1>3 DEF PersonSubmits
  <2>2. given' = [p \in Prompts |-> IF p \in S THEN given[p] + 1 ELSE given[p]]
    BY <2>1 DEF SubmitBox
  <2>3. box \cap Waiting = {}
    BY <1>3 DEF PersonSubmits, Undisturbed
  <2>4. \A p \in S : Unsettled(p) /\ ticket[p] = 0 /\ pc[p] = "failed"
    <3> SUFFICES ASSUME NEW p \in S PROVE Unsettled(p) /\ ticket[p] = 0 /\ pc[p] = "failed"
      OBVIOUS
    <3>1. /\ Unsettled(p) /\ p \notin batch["canceller"]
          /\ ticket[p] = 0 => pc[p] \in {"enter", "queue", "append", "failed"}
      BY DEF KeptInv, KeptWell, BoxWaits
    <3>2. ticket[p] = 0
      <4>1. ticket[p] \in Nat BY <1>0 DEF TypeOK
      <4> QED BY <2>3, <3>1, <4>1, WaitingIsQueue
    <3>3. pc[p] \notin {"enter", "queue", "append"}
      BY <1>3, ActorsFacts DEF PersonSubmits, HandsOff, Pasting, Somewhere, Unqueued
    <3> QED BY <3>1, <3>2, <3>3
  <2>5. \A p \in S : Fate'[p] = "given"
    BY <1>0, <2>1, <2>2, <2>4 DEF Fate, Unsettled
  <2>6. \A p \in Prompts \ S : FateHolds(p)
    BY <2>1, <2>2 DEF FateHolds
  <2>7. Promise!Give(S)
    BY <1>0, <2>2, <2>5, <2>6, Becomes DEF Promise!Give
  <2>8. S \in SUBSET Promise!With("failed")
    BY <1>0, <2>4, FateIs DEF Promise!With
  <2> QED BY <2>1, <2>7, <2>8 DEF Simulates, Promise!Next, Promise!GiveFailed
<1> QED BY <1>1, <1>2, <1>3

LEMMA StepSimulates == Undisturbed /\ All /\ KeptInv /\ [Next]_vars => Simulates
<1> SUFFICES ASSUME Undisturbed, All, KeptInv, [Next]_vars PROVE Simulates
  OBVIOUS
<1>1. CASE UNCHANGED vars
  <2>1. TypeOK BY DEF All, Inv
  <2> QED BY <1>1, <2>1, Stutters DEF Simulates
<1> QED BY <1>1, SendSimulates, LockSimulates, InjectSimulates, DrainSimulates,
           CancelSimulates, AroundSimulates DEF Next

LEMMA InitSimulates == Init => Promise!Init
BY ActorsFacts DEF Init, Promise!Init, Fate

\* The send path implements PromptPromise: whatever the number of prompts and the
\* depth of the queue, across restarts, cancelled calls, pastes that were not
\* confirmed and sessions killed and created again, prompts reach Claude in the order
\* they were accepted, none is overtaken or submitted twice, and none is both given
\* and taken back.
THEOREM SendPathKeepsPromise ==
  ASSUME Undisturbed
  PROVE  Spec => KeepsPromise
<1>1. Init => All /\ KeptInv
  BY InvInit, PasteInit, KeptInit, ActorsFacts
     DEF All, Init, HomeInv, HomeIsOwner, HomeLater, HomeInBox, NotGivenToReplacement, Early
<1>2. All /\ KeptInv /\ [Next]_vars => (All /\ KeptInv)'
  BY AllStep, KeptInvStep
<1>3. All /\ KeptInv /\ [Next]_vars => [Promise!Next]_<<Fate, given, ticket>>
  BY StepSimulates DEF Simulates
<1> QED BY <1>1, <1>2, <1>3, InitSimulates, PTL DEF Spec, KeepsPromise, Promise!Spec

=============================================================================
