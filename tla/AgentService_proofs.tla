------------------------- MODULE AgentService_proofs -------------------------
(***************************************************************************)
(* Proofs about AgentService: the objects that calls keep across awaits    *)
(* exist, the busy flag of a runtime has an owner, and two turns come onto *)
(* one runtime, or lose it to an eviction, only after a follow-up.         *)
(***************************************************************************)
EXTENDS AgentService, SequenceTheorems, TLAPS

TurnStages == {"begun", "running", "aborting", "finishing", "failing"}
Runtimes == [agent : DOMAIN agents, active : BOOLEAN]
AgentRecords == [context : SUBSET Messages, run : Turns \cup {Null}, closing : BOOLEAN,
                 queue : SUBSET Steers]
CallRecords == [pc : CallStages, rt : DOMAIN heap \cup {Null}, agent : DOMAIN agents \cup {Null}]
FollowUpRecords == [pc : FollowUpStages, rt : DOMAIN heap \cup {Null},
                    agent : DOMAIN agents \cup {Null}, awaits : Turns \cup {Null}]

Flags ==
    /\ db \subseteq Messages
    /\ cleared \in BOOLEAN /\ sweep \in BOOLEAN /\ owed \in BOOLEAN
    /\ events \in 0..MaxEvents
    /\ steered \subseteq Steers
    /\ stale \subseteq DOMAIN heap /\ abandoned \subseteq DOMAIN heap

\* TypeOK, in parts.
Typed ==
    /\ heap \in Seq(Runtimes) /\ agents \in Seq(AgentRecords)
    /\ current \in DOMAIN heap \cup {Null}
    /\ calls \in [Calls -> CallRecords] /\ follows \in [FollowUps -> FollowUpRecords]
    /\ Flags

\* A call in its turn, and a follow-up that waits or runs, hold objects.
References ==
    /\ \A c \in Calls : calls[c].pc \in TurnStages =>
          calls[c].rt \in DOMAIN heap /\ calls[c].agent \in DOMAIN agents
    /\ \A f \in FollowUps : follows[f].pc \in {"waiting", "running"} =>
          follows[f].rt \in DOMAIN heap /\ follows[f].agent \in DOMAIN agents

\* A follow-up's run is the run of one Agent, and the follow-up knows it runs.
Runs ==
    \A a \in DOMAIN agents : agents[a].run \in FollowUps =>
        /\ follows[agents[a].run].pc = "running"
        /\ \A b \in DOMAIN agents : agents[b].run = agents[a].run => b = a

Owned ==
    \A rt \in DOMAIN heap : heap[rt].active =>
        \/ \E c \in Calls : calls[c].pc \in TurnStages /\ calls[c].rt = rt
        \/ \E f \in FollowUps : follows[f].pc = "running" /\ follows[f].rt = rt

\* As long as no follow-up came, the turn of a runtime marks it busy and has it alone.
Exclusive ==
    (\A f \in FollowUps : follows[f].pc = "idle") =>
        \A c \in Calls : calls[c].pc \in TurnStages =>
            /\ heap[calls[c].rt].active
            /\ \A d \in Calls : calls[d].pc \in TurnStages /\ calls[d].rt = calls[c].rt => d = c

IInv == Typed /\ References /\ Runs /\ Owned /\ Exclusive

LEMMA InitIInv == Init => IInv
PROOF
  <1> SUFFICES ASSUME Init PROVE IInv
    OBVIOUS
  <1>1. heap \in Seq(Runtimes) /\ agents \in Seq(AgentRecords) /\ current \in DOMAIN heap \cup {Null}
    <2>1. CASE heap = <<>> /\ agents = <<>>
      BY <2>1, EmptySeq DEF Init
    <2>2. CASE current = 1 /\ heap = <<[agent |-> 1, active |-> FALSE]>> /\ agents = <<NewAgent({})>>
      <3>1. NewAgent({}) \in AgentRecords
        BY DEF NewAgent, AgentRecords
      <3>2. agents \in Seq(AgentRecords) /\ DOMAIN agents = {1}
        BY <2>2, <3>1
      <3>3. [agent |-> 1, active |-> FALSE] \in Runtimes
        BY <3>2 DEF Runtimes
      <3>4. heap \in Seq(Runtimes) /\ DOMAIN heap = {1}
        BY <2>2, <3>3
      <3> QED BY <2>2, <3>2, <3>4
    <2> QED BY <2>1, <2>2 DEF Init
  <1>2. /\ calls \in [Calls -> CallRecords] /\ \A c \in Calls : calls[c].pc = "idle"
        /\ follows \in [FollowUps -> FollowUpRecords] /\ \A f \in FollowUps : follows[f].pc = "idle"
    BY DEF Init, NewCall, NewFollowUp, CallRecords, FollowUpRecords, CallStages, FollowUpStages
  <1>3. /\ db = {} /\ cleared = FALSE /\ sweep = FALSE /\ owed = FALSE /\ events = 0
        /\ steered = {} /\ stale = {} /\ abandoned = {}
    BY DEF Init
  <1>9. Flags
    <2>1. cleared \in BOOLEAN /\ sweep \in BOOLEAN /\ owed \in BOOLEAN
      BY <1>3
    <2>2. events \in 0..MaxEvents
      BY <1>3, BoundsAssumption
    <2>3. db \subseteq Messages /\ steered \subseteq Steers
          /\ stale \subseteq DOMAIN heap /\ abandoned \subseteq DOMAIN heap
      BY <1>3
    <2> QED BY <2>1, <2>2, <2>3 DEF Flags
  <1>8. Typed
    BY <1>1, <1>2, <1>9 DEF Typed
  <1>4. References /\ Exclusive
    BY <1>2 DEF References, Exclusive, TurnStages
  <1>5. \A rt \in DOMAIN heap : ~heap[rt].active
    BY DEF Init
  <1>6. \A a \in DOMAIN agents : agents[a].run = Null
    BY DEF Init, NewAgent
  <1>7. Runs /\ Owned
    BY <1>5, <1>6, ActorsAssumption DEF Runs, Owned
  <1> QED BY <1>4, <1>7, <1>8 DEF IInv

----------------------------------------------------------------------------
(* The objects *)

LEMMA Objects ==
    ASSUME Typed
    PROVE  /\ Len(heap) \in Nat /\ DOMAIN heap = 1..Len(heap)
           /\ \A rt \in DOMAIN heap : heap[rt] \in Runtimes
           /\ Len(agents) \in Nat /\ DOMAIN agents = 1..Len(agents)
           /\ \A a \in DOMAIN agents : agents[a] \in AgentRecords
PROOF
  <1>1. heap \in Seq(Runtimes) /\ agents \in Seq(AgentRecords)
    BY DEF Typed
  <1>2. Len(heap) \in Nat /\ heap \in [1..Len(heap) -> Runtimes]
    BY <1>1, LenProperties
  <1>3. Len(agents) \in Nat /\ agents \in [1..Len(agents) -> AgentRecords]
    BY <1>1, LenProperties
  <1> QED BY <1>2, <1>3

LEMMA HeapSet ==
    ASSUME Typed, NEW rt \in DOMAIN heap, NEW e \in Runtimes
    PROVE  LET h == [heap EXCEPT ![rt] = e] IN
           /\ h \in Seq(Runtimes) /\ DOMAIN h = DOMAIN heap
           /\ \A i \in DOMAIN heap : h[i] = IF i = rt THEN e ELSE heap[i]
PROOF
  <1>1. heap \in Seq(Runtimes) /\ rt \in 1..Len(heap)
    BY Objects DEF Typed
  <1>2. [heap EXCEPT ![rt] = e] \in Seq(Runtimes)
    BY <1>1, ExceptSeq
  <1> QED BY <1>2

LEMMA AgentsSet ==
    ASSUME Typed, NEW a \in DOMAIN agents, NEW e \in AgentRecords
    PROVE  LET s == [agents EXCEPT ![a] = e] IN
           /\ s \in Seq(AgentRecords) /\ DOMAIN s = DOMAIN agents
           /\ \A i \in DOMAIN agents : s[i] = IF i = a THEN e ELSE agents[i]
PROOF
  <1>1. agents \in Seq(AgentRecords) /\ a \in 1..Len(agents)
    BY Objects DEF Typed
  <1>2. [agents EXCEPT ![a] = e] \in Seq(AgentRecords)
    BY <1>1, ExceptSeq
  <1> QED BY <1>2

LEMMA ReleasedIs ==
    ASSUME Typed, NEW rt \in DOMAIN heap
    PROVE  /\ Released(rt) \in Seq(Runtimes) /\ DOMAIN Released(rt) = DOMAIN heap
           /\ \A i \in DOMAIN heap :
                /\ Released(rt)[i].agent = heap[i].agent
                /\ Released(rt)[i].active <=> (heap[i].active /\ i # rt)
PROOF
  <1> DEFINE e == [heap[rt] EXCEPT !.active = FALSE]
  <1>1. heap[rt] \in Runtimes
    BY Objects
  <1>2. e \in Runtimes /\ e.agent = heap[rt].agent /\ e.active = FALSE
    BY <1>1 DEF Runtimes
  <1>3. Released(rt) = [heap EXCEPT ![rt] = e]
    BY DEF Released
  <1> HIDE DEF e
  <1> QED BY <1>2, <1>3, HeapSet

----------------------------------------------------------------------------
(* Steps that leave the objects alone *)

\* The session's entry, its rows and its marks change, but no call and no object.
LEMMA OutsideStep ==
    ASSUME IInv, UNCHANGED <<heap, agents, calls, follows>>,
           current' \in DOMAIN heap \cup {Null}, Flags'
    PROVE  IInv'
PROOF
  <1>1. Typed'
    BY DEF IInv, Typed, Runtimes, AgentRecords, CallRecords, FollowUpRecords
  <1>2. References' /\ Runs' /\ Owned' /\ Exclusive'
    BY DEF IInv, References, Runs, Owned, Exclusive
  <1> QED BY <1>1, <1>2 DEF IInv

\* A call moves, without the turn it is in.
LEMMA CallStep ==
    ASSUME IInv, NEW c \in Calls, NEW r \in CallRecords, calls' = [calls EXCEPT ![c] = r],
           UNCHANGED <<current, heap, agents, follows>>, Flags',
           \/ /\ r.pc \in TurnStages /\ calls[c].pc \in TurnStages
              /\ r.rt = calls[c].rt /\ r.agent = calls[c].agent
           \/ r.pc \notin TurnStages /\ calls[c].pc \notin TurnStages
    PROVE  IInv'
PROOF
  <1>1. /\ calls' \in [Calls -> CallRecords] /\ calls'[c] = r
        /\ \A d \in Calls : d # c => calls'[d] = calls[d]
    BY DEF IInv, Typed
  <1>2. \A d \in Calls :
          /\ calls'[d].pc \in TurnStages <=> calls[d].pc \in TurnStages
          /\ calls[d].pc \in TurnStages =>
                calls'[d].rt = calls[d].rt /\ calls'[d].agent = calls[d].agent
    BY <1>1
  <1>3. Typed'
    BY <1>1 DEF IInv, Typed, Runtimes, AgentRecords, CallRecords, FollowUpRecords
  <1>4. References' /\ Runs'
    BY <1>2 DEF IInv, References, Runs
  <1>5. Owned'
    BY <1>2 DEF IInv, Owned
  <1>6. Exclusive'
    BY <1>2 DEF IInv, Exclusive
  <1> QED BY <1>3, <1>4, <1>5, <1>6 DEF IInv

LEMMA EnterStep ==
    ASSUME IInv, NEW c \in Calls, Enter(c)
    PROVE  IInv'
PROOF
  <1> DEFINE r == IF current # Null /\ heap[current].active
                  THEN [NewCall EXCEPT !.pc = "refused"]
                  ELSE [NewCall EXCEPT !.pc = "preparing", !.rt = current]
  <1>1. /\ calls[c].pc = "idle" /\ calls' = [calls EXCEPT ![c] = r]
        /\ UNCHANGED <<current, heap, agents, follows>>
        /\ UNCHANGED <<db, cleared, sweep, owed, events, steered, stale, abandoned>>
    BY DEF Enter
  <1>2. r \in CallRecords /\ r.pc \notin TurnStages
    BY DEF NewCall, CallRecords, CallStages, TurnStages, IInv, Typed
  <1>3. Flags'
    BY <1>1 DEF Flags, IInv, Typed
  <1>4. calls[c].pc \notin TurnStages
    BY <1>1 DEF TurnStages
  <1> HIDE DEF r
  <1> QED BY <1>1, <1>2, <1>3, <1>4, CallStep

LEMMA RefuseStep ==
    ASSUME IInv, NEW c \in Calls, Refuse(c)
    PROVE  IInv'
PROOF
  <1> DEFINE r == [NewCall EXCEPT !.pc = "refused"]
  <1>1. /\ calls[c].pc = "preparing" /\ calls' = [calls EXCEPT ![c] = r]
        /\ UNCHANGED <<current, heap, agents, follows>>
        /\ UNCHANGED <<db, cleared, sweep, owed, events, steered, stale, abandoned>>
    BY DEF Refuse
  <1>2. r \in CallRecords /\ r.pc \notin TurnStages
    BY DEF NewCall, CallRecords, CallStages, TurnStages
  <1>3. Flags'
    BY <1>1 DEF Flags, IInv, Typed
  <1>4. calls[c].pc \notin TurnStages
    BY <1>1 DEF TurnStages
  <1> HIDE DEF r
  <1> QED BY <1>1, <1>2, <1>3, <1>4, CallStep

\* The stages of a turn, one after the other.
LEMMA StageStep ==
    ASSUME IInv, NEW c \in Calls, NEW stage \in TurnStages, calls[c].pc \in TurnStages,
           calls' = [calls EXCEPT ![c].pc = stage],
           UNCHANGED <<current, heap, agents, follows>>, Flags'
    PROVE  IInv'
PROOF
  <1> DEFINE r == [calls[c] EXCEPT !.pc = stage]
  <1>1. calls[c] \in CallRecords
    BY DEF IInv, Typed
  <1>2. /\ r \in CallRecords /\ r.pc = stage /\ r.rt = calls[c].rt /\ r.agent = calls[c].agent
    BY <1>1 DEF CallRecords, CallStages, TurnStages
  <1>3. calls' = [calls EXCEPT ![c] = r]
    BY DEF IInv, Typed
  <1> HIDE DEF r
  <1> QED BY <1>2, <1>3, CallStep

LEMMA WatchdogStep ==
    ASSUME IInv, NEW c \in Calls, Watchdog(c) \/ GraceOver(c)
    PROVE  IInv'
PROOF
  <1>1. /\ calls[c].pc \in TurnStages
        /\ \E stage \in TurnStages : calls' = [calls EXCEPT ![c].pc = stage]
        /\ UNCHANGED <<current, heap, agents, follows>>
        /\ UNCHANGED <<db, cleared, sweep, owed, events, steered, stale>>
        /\ abandoned' \in {abandoned, abandoned \cup {calls[c].rt}}
    BY DEF Watchdog, GraceOver, TurnStages
  <1>2. calls[c].rt \in DOMAIN heap
    BY <1>1 DEF IInv, References
  <1>3. Flags'
    BY <1>1, <1>2 DEF Flags, IInv, Typed
  <1> QED BY <1>1, <1>3, StageStep

LEMMA EventIs == Typed /\ Event => events' \in 0..MaxEvents
PROOF BY BoundsAssumption DEF Event, Typed, Flags

LEMMA DeleteStep ==
    ASSUME IInv, Delete \/ SwitchAgent \/ Evict \/ ToolsChanged \/ Sweep
    PROVE  IInv'
PROOF
  <1>1. UNCHANGED <<heap, agents, calls, follows, steered, abandoned>>
    BY DEF Delete, SwitchAgent, Evict, ToolsChanged, Sweep
  <1>2. current' \in DOMAIN heap \cup {Null}
    BY DEF Delete, SwitchAgent, Evict, ToolsChanged, Sweep, IInv, Typed
  <1>3. events' \in 0..MaxEvents
    BY EventIs DEF Delete, SwitchAgent, Evict, ToolsChanged, Sweep, IInv, Typed, Flags
  <1>4. cleared' \in BOOLEAN /\ sweep' \in BOOLEAN
    BY DEF Delete, SwitchAgent, Evict, ToolsChanged, Sweep, IInv, Typed, Flags
  <1>5. owed' \in BOOLEAN
    BY DEF Delete, SwitchAgent, Evict, ToolsChanged, Sweep, IInv, Typed, Flags, Owes
  <1>6. db' \subseteq Messages /\ stale' \subseteq DOMAIN heap
    BY DEF Delete, SwitchAgent, Evict, ToolsChanged, Sweep, IInv, Typed, Flags
  <1>7. Flags'
    BY <1>1, <1>3, <1>4, <1>5, <1>6 DEF Flags, IInv, Typed
  <1> QED BY <1>1, <1>2, <1>7, OutsideStep

----------------------------------------------------------------------------
(* Steps of the Agent *)

\* An Agent changes, but what it runs.
LEMMA AgentStep ==
    ASSUME IInv, NEW a \in DOMAIN agents, NEW e \in AgentRecords,
           agents' = [agents EXCEPT ![a] = e], e.run = agents[a].run,
           UNCHANGED <<current, heap, calls, follows>>, Flags'
    PROVE  IInv'
PROOF
  <1>1. /\ agents' \in Seq(AgentRecords) /\ DOMAIN agents' = DOMAIN agents
        /\ \A b \in DOMAIN agents : agents'[b].run = agents[b].run
    BY AgentsSet DEF IInv
  <1>2. AgentRecords' = AgentRecords /\ Runtimes' = Runtimes /\ CallRecords' = CallRecords
        /\ FollowUpRecords' = FollowUpRecords
    BY <1>1 DEF AgentRecords, Runtimes, CallRecords, FollowUpRecords
  <1>3. Typed'
    BY <1>1, <1>2 DEF IInv, Typed
  <1>4. References' /\ Runs'
    BY <1>1 DEF IInv, References, Runs
  <1>5. Owned' /\ Exclusive'
    BY DEF IInv, Owned, Exclusive
  <1> QED BY <1>3, <1>4, <1>5 DEF IInv

LEMMA PollStep ==
    ASSUME IInv, NEW a \in DOMAIN agents, Poll(a) \/ LoopEnds(a)
    PROVE  IInv'
PROOF
  <1>1. agents[a] \in AgentRecords /\ UNCHANGED <<current, heap, calls, follows>>
        /\ UNCHANGED <<db, cleared, sweep, owed, events, steered, stale, abandoned>>
    BY Objects DEF Poll, LoopEnds, IInv
  <1>2. Flags'
    BY <1>1 DEF Flags, IInv, Typed
  <1> DEFINE p == [agents[a] EXCEPT !.context = @ \cup agents[a].queue, !.queue = {}]
             l == [agents[a] EXCEPT !.closing = TRUE]
  <1>3. p \in AgentRecords /\ p.run = agents[a].run
    BY <1>1 DEF AgentRecords, Messages
  <1>4. l \in AgentRecords /\ l.run = agents[a].run
    BY <1>1 DEF AgentRecords
  <1>5. agents' = [agents EXCEPT ![a] = p] \/ agents' = [agents EXCEPT ![a] = l]
    BY DEF Poll, LoopEnds
  <1> HIDE DEF p, l
  <1> QED BY <1>1, <1>2, <1>3, <1>4, <1>5, AgentStep

LEMMA SteerStep ==
    ASSUME IInv, NEW m \in Steers, Steer(m)
    PROVE  IInv'
PROOF
  <1> DEFINE a == heap[current].agent
             e == [agents[a] EXCEPT !.queue = {m}]
  <1>1. a \in DOMAIN agents /\ agents[a] \in AgentRecords
    BY Objects DEF Steer, IInv, Typed, Runtimes
  <1>2. e \in AgentRecords /\ e.run = agents[a].run
    BY <1>1 DEF AgentRecords
  <1>3. agents' = [agents EXCEPT ![a] = e] /\ UNCHANGED <<current, heap, calls, follows>>
    BY DEF Steer
  <1>4. events' \in 0..MaxEvents /\ steered' \subseteq Steers
        /\ UNCHANGED <<db, cleared, sweep, owed, stale, abandoned>>
    BY EventIs DEF Steer, IInv, Typed, Flags
  <1>5. Flags'
    BY <1>3, <1>4 DEF Flags, IInv, Typed
  <1> HIDE DEF a, e
  <1> QED BY <1>1, <1>2, <1>3, <1>5, AgentStep

LEMMA ResetStep ==
    ASSUME IInv, Reset
    PROVE  IInv'
PROOF
  <1> DEFINE a == heap[current].agent
             e == [agents[a] EXCEPT !.context = {}, !.queue = {}]
  <1>1. a \in DOMAIN agents /\ agents[a] \in AgentRecords
    BY Objects DEF Reset, IInv, Typed, Runtimes
  <1>2. e \in AgentRecords /\ e.run = agents[a].run
    BY <1>1 DEF AgentRecords
  <1>3. agents' = [agents EXCEPT ![a] = e] /\ UNCHANGED <<current, heap, calls, follows>>
    BY DEF Reset
  <1>4. events' \in 0..MaxEvents /\ cleared' \in BOOLEAN
        /\ UNCHANGED <<db, sweep, owed, steered, stale, abandoned>>
    BY EventIs DEF Reset, IInv, Typed, Flags
  <1>5. Flags'
    BY <1>3, <1>4 DEF Flags, IInv, Typed
  <1> HIDE DEF a, e
  <1> QED BY <1>1, <1>2, <1>3, <1>5, AgentStep

\* A run begins: of a call that is in its turn, or of a follow-up that waited.
LEMMA PromptStep ==
    ASSUME IInv, NEW c \in Calls, Prompt(c)
    PROVE  IInv'
PROOF
  <1> DEFINE a == calls[c].agent
             e == [agents[a] EXCEPT !.run = c, !.context = @ \cup {c}]
  <1>1. /\ calls[c].pc \in TurnStages /\ UNCHANGED <<current, heap, follows>>
        /\ UNCHANGED <<db, cleared, sweep, owed, events, steered, stale, abandoned>>
    BY DEF Prompt, TurnStages
  <1>2. a \in DOMAIN agents /\ agents[a] \in AgentRecords
    BY <1>1, Objects DEF IInv, References
  <1>3. Flags'
    BY <1>1 DEF Flags, IInv, Typed
  <1>4. CASE Streaming(a)
    <2>1. calls' = [calls EXCEPT ![c].pc = "failing"] /\ agents' = agents
      BY <1>4 DEF Prompt
    <2>2. "failing" \in TurnStages
      BY DEF TurnStages
    <2> QED BY <1>1, <1>3, <2>1, <2>2, StageStep
  <1>5. CASE ~Streaming(a)
    <2> DEFINE r == [calls[c] EXCEPT !.pc = "running"]
    <2>1. calls' = [calls EXCEPT ![c] = r] /\ agents' = [agents EXCEPT ![a] = e]
      BY <1>5 DEF Prompt, IInv, Typed
    <2>2. e \in AgentRecords /\ e.run = c
      BY <1>2 DEF AgentRecords, Messages, Turns
    <2>3. calls[c] \in CallRecords
      BY DEF IInv, Typed
    <2>4. /\ r \in CallRecords /\ r.pc \in TurnStages
          /\ r.rt = calls[c].rt /\ r.agent = calls[c].agent
      BY <2>3 DEF CallRecords, CallStages, TurnStages
    <2> HIDE DEF a, e, r
    <2>5. /\ agents' \in Seq(AgentRecords) /\ DOMAIN agents' = DOMAIN agents
          /\ \A b \in DOMAIN agents : agents'[b] = IF b = a THEN e ELSE agents[b]
      BY <1>2, <2>1, <2>2, AgentsSet DEF IInv
    <2>6. AgentRecords' = AgentRecords /\ Runtimes' = Runtimes /\ CallRecords' = CallRecords
          /\ FollowUpRecords' = FollowUpRecords
      BY <1>1, <2>5 DEF AgentRecords, Runtimes, CallRecords, FollowUpRecords
    <2>7. /\ calls' \in [Calls -> CallRecords]
          /\ \A d \in Calls : /\ calls'[d].pc \in TurnStages <=> calls[d].pc \in TurnStages
                              /\ calls[d].pc \in TurnStages => calls'[d].rt = calls[d].rt
                                                            /\ calls'[d].agent = calls[d].agent
      BY <1>1, <2>1, <2>4 DEF IInv, Typed
    <2>8. Typed'
      BY <1>1, <1>3, <2>5, <2>6, <2>7 DEF IInv, Typed
    <2>9. References' /\ Owned' /\ Exclusive'
      BY <1>1, <2>5, <2>7 DEF IInv, References, Owned, Exclusive
    <2>10. c \notin FollowUps
      BY ActorsAssumption
    <2>11. Runs'
      BY <1>1, <2>2, <2>5, <2>10 DEF IInv, Runs
    <2> QED BY <2>8, <2>9, <2>11 DEF IInv
  <1> QED BY <1>4, <1>5

----------------------------------------------------------------------------
(* The ends of a turn *)

LEMMA LeaveStep ==
    ASSUME IInv, NEW c \in Calls, Finish(c) \/ Fail(c)
    PROVE  IInv'
PROOF
  <1>1. /\ calls[c].pc \in TurnStages /\ UNCHANGED <<agents, follows>>
        /\ current' \in {current, Null} /\ heap' = Released(calls[c].rt)
        /\ db' = Persisted(calls[c].agent) /\ Rearm
        /\ UNCHANGED <<cleared, owed, events, steered, stale, abandoned>>
    BY DEF Finish, Fail, TurnStages
  <1>2. PICK stage \in {"done", "failed"} : calls' = [calls EXCEPT ![c] = [NewCall EXCEPT !.pc = stage]]
    BY DEF Finish, Fail
  <1> DEFINE r == [NewCall EXCEPT !.pc = stage]
  <1>3. r \in CallRecords /\ r.pc \notin TurnStages
    BY DEF NewCall, CallRecords, CallStages, TurnStages
  <1> HIDE DEF r
  <1>4. /\ calls' \in [Calls -> CallRecords] /\ calls'[c] = r
        /\ \A d \in Calls : d # c => calls'[d] = calls[d]
    BY <1>2, <1>3 DEF IInv, Typed, r
  <1>5. calls[c].rt \in DOMAIN heap /\ calls[c].agent \in DOMAIN agents
    BY <1>1 DEF IInv, References
  <1>6. /\ heap' \in Seq(Runtimes) /\ DOMAIN heap' = DOMAIN heap
        /\ \A i \in DOMAIN heap : heap'[i].active <=> (heap[i].active /\ i # calls[c].rt)
    BY <1>1, <1>5, ReleasedIs DEF IInv
  <1>7. agents[calls[c].agent].context \subseteq Messages
    BY <1>5, Objects DEF IInv, AgentRecords
  <1>8. db' \subseteq Messages /\ sweep' \in BOOLEAN
    BY <1>1, <1>7 DEF Persisted, Rearm, IInv, Typed, Flags
  <1>9. Flags'
    BY <1>1, <1>6, <1>8 DEF Flags, IInv, Typed
  <1>10. AgentRecords' = AgentRecords /\ Runtimes' = Runtimes /\ CallRecords' = CallRecords
         /\ FollowUpRecords' = FollowUpRecords
    BY <1>1, <1>6 DEF AgentRecords, Runtimes, CallRecords, FollowUpRecords
  <1>11. Typed'
    BY <1>1, <1>4, <1>6, <1>9, <1>10 DEF IInv, Typed
  <1>12. References' /\ Runs'
    BY <1>1, <1>3, <1>4, <1>6 DEF IInv, References, Runs
  <1>13. Owned'
    BY <1>1, <1>4, <1>6 DEF IInv, Owned
  <1>14. Exclusive'
    <2> SUFFICES ASSUME \A f \in FollowUps : follows[f].pc = "idle",
                        NEW b \in Calls, calls'[b].pc \in TurnStages
                 PROVE  /\ heap'[calls'[b].rt].active
                        /\ \A d \in Calls : calls'[d].pc \in TurnStages /\ calls'[d].rt = calls'[b].rt
                                              => d = b
      BY <1>1 DEF Exclusive
    <2>1. b # c /\ calls'[b] = calls[b]
      BY <1>3, <1>4
    <2>2. /\ heap[calls[b].rt].active /\ calls[b].rt # calls[c].rt /\ calls[b].rt \in DOMAIN heap
          /\ \A d \in Calls : calls[d].pc \in TurnStages /\ calls[d].rt = calls[b].rt => d = b
      BY <1>1, <2>1 DEF IInv, Exclusive, References
    <2> QED BY <1>3, <1>4, <1>6, <2>1, <2>2
  <1> QED BY <1>11, <1>12, <1>13, <1>14 DEF IInv

\* A run ends that a call waits for, or that a call left behind.
LEMMA CallRunEndsStep ==
    ASSUME IInv, NEW a \in DOMAIN agents, RunEnds(a), agents[a].run \in Calls
    PROVE  IInv'
PROOF
  <1> DEFINE c == agents[a].run
             e == [agents[a] EXCEPT !.run = Null, !.closing = FALSE]
             stage == CASE calls[c].pc = "running" -> "finishing"
                        [] calls[c].pc = "aborting" -> "failing"
                        [] OTHER -> calls[c].pc
             r == [calls[c] EXCEPT !.pc = stage]
  <1>1. /\ agents' = [agents EXCEPT ![a] = e] /\ calls' = [calls EXCEPT ![c].pc = stage]
        /\ db' \in {db, Persisted(a)} /\ UNCHANGED <<heap, follows, current>>
        /\ UNCHANGED <<cleared, sweep, owed, events, steered, stale, abandoned>>
    BY DEF RunEnds
  <1>2. agents[a] \in AgentRecords /\ calls[c] \in CallRecords /\ c \in Calls
    BY Objects DEF IInv, Typed
  <1>3. e \in AgentRecords /\ e.run = Null
    BY <1>2 DEF AgentRecords
  <1>4. stage \in CallStages /\ (stage \in TurnStages <=> calls[c].pc \in TurnStages)
    BY <1>2 DEF CallRecords, CallStages, TurnStages
  <1> HIDE DEF stage
  <1>5. r \in CallRecords /\ r.pc = stage /\ r.rt = calls[c].rt /\ r.agent = calls[c].agent
    BY <1>2, <1>4 DEF CallRecords
  <1>6. calls' = [calls EXCEPT ![c] = r]
    BY <1>1 DEF IInv, Typed
  <1> HIDE DEF r, e, c
  <1>7. /\ agents' \in Seq(AgentRecords) /\ DOMAIN agents' = DOMAIN agents
        /\ \A b \in DOMAIN agents : agents'[b] = IF b = a THEN e ELSE agents[b]
    BY <1>1, <1>3, AgentsSet DEF IInv
  <1>8. /\ calls' \in [Calls -> CallRecords]
        /\ \A d \in Calls : /\ calls'[d].pc \in TurnStages <=> calls[d].pc \in TurnStages
                            /\ calls[d].pc \in TurnStages => calls'[d].rt = calls[d].rt
                                                          /\ calls'[d].agent = calls[d].agent
    BY <1>2, <1>4, <1>5, <1>6 DEF IInv, Typed
  <1>9. AgentRecords' = AgentRecords /\ Runtimes' = Runtimes /\ CallRecords' = CallRecords
        /\ FollowUpRecords' = FollowUpRecords
    BY <1>1, <1>7 DEF AgentRecords, Runtimes, CallRecords, FollowUpRecords
  <1>10. agents[a].context \subseteq Messages
    BY <1>2 DEF AgentRecords
  <1>11. db' \subseteq Messages
    BY <1>1, <1>10 DEF Persisted, IInv, Typed, Flags
  <1>12. Flags'
    BY <1>1, <1>11 DEF Flags, IInv, Typed
  <1>13. Typed'
    BY <1>1, <1>7, <1>8, <1>9, <1>12 DEF IInv, Typed
  <1>14. References' /\ Owned' /\ Exclusive'
    BY <1>1, <1>7, <1>8 DEF IInv, References, Owned, Exclusive
  <1>15. Runs'
    BY <1>1, <1>3, <1>7, ActorsAssumption DEF IInv, Runs
  <1> QED BY <1>13, <1>14, <1>15 DEF IInv

\* A follow-up is over: it clears the busy flag of its runtime.
LEMMA ReleaseStep ==
    ASSUME IInv, NEW f \in FollowUps, NEW stage \in {"done", "lost"},
           follows' = [follows EXCEPT ![f] = [NewFollowUp EXCEPT !.pc = stage]],
           follows[f].rt \in DOMAIN heap, heap' = Released(follows[f].rt), Rearm,
           agents' \in Seq(AgentRecords), DOMAIN agents' = DOMAIN agents,
           \A b \in DOMAIN agents : /\ agents'[b].run \in {agents[b].run, Null}
                                    /\ agents'[b].run # f,
           UNCHANGED <<current, calls, db, cleared, owed, events, steered, stale, abandoned>>
    PROVE  IInv'
PROOF
  <1> DEFINE r == [NewFollowUp EXCEPT !.pc = stage]
  <1>1. r \in FollowUpRecords /\ r.pc = stage
    BY DEF NewFollowUp, FollowUpRecords, FollowUpStages
  <1> HIDE DEF r
  <1>2. /\ follows' \in [FollowUps -> FollowUpRecords] /\ follows'[f] = r
        /\ \A g \in FollowUps : g # f => follows'[g] = follows[g]
    BY <1>1 DEF IInv, Typed, r
  <1>3. /\ heap' \in Seq(Runtimes) /\ DOMAIN heap' = DOMAIN heap
        /\ \A i \in DOMAIN heap : heap'[i].active <=> (heap[i].active /\ i # follows[f].rt)
    BY ReleasedIs DEF IInv
  <1>4. AgentRecords' = AgentRecords /\ Runtimes' = Runtimes /\ CallRecords' = CallRecords
        /\ FollowUpRecords' = FollowUpRecords
    BY <1>3 DEF AgentRecords, Runtimes, CallRecords, FollowUpRecords
  <1>5. sweep' \in BOOLEAN
    BY DEF Rearm, IInv, Typed, Flags
  <1>6. Flags'
    BY <1>3, <1>5 DEF Flags, IInv, Typed
  <1>7. Typed'
    BY <1>2, <1>3, <1>4, <1>6 DEF IInv, Typed
  <1>8. References'
    BY <1>1, <1>2, <1>3 DEF IInv, References
  <1>9. Runs'
    BY <1>2, ActorsAssumption DEF IInv, Runs
  <1>10. Owned'
    BY <1>2, <1>3 DEF IInv, Owned
  <1>11. Exclusive'
    BY <1>1, <1>2 DEF Exclusive
  <1> QED BY <1>7, <1>8, <1>9, <1>10, <1>11 DEF IInv

LEMMA RunEndsStep ==
    ASSUME IInv, NEW a \in DOMAIN agents, RunEnds(a)
    PROVE  IInv'
PROOF
  <1>1. CASE agents[a].run \in Calls
    BY <1>1, CallRunEndsStep
  <1>2. CASE agents[a].run \notin Calls
    <2> DEFINE f == agents[a].run
               e == [agents[a] EXCEPT !.run = Null, !.closing = FALSE]
    <2>1. agents[a] \in AgentRecords /\ f # Null
      BY Objects DEF RunEnds, Streaming, IInv
    <2>2. f \in FollowUps
      BY <1>2, <2>1 DEF AgentRecords, Turns
    <2>3. /\ agents' = [agents EXCEPT ![a] = e]
          /\ follows' = [follows EXCEPT ![f] = [NewFollowUp EXCEPT !.pc = "done"]]
          /\ heap' = Released(follows[f].rt) /\ Rearm
          /\ UNCHANGED <<current, calls, db, cleared, owed, events, steered, stale, abandoned>>
      BY <1>2 DEF RunEnds
    <2>4. e \in AgentRecords /\ e.run = Null
      BY <2>1 DEF AgentRecords
    <2>5. follows[f].rt \in DOMAIN heap /\ \A b \in DOMAIN agents : agents[b].run = f => b = a
      BY <2>2 DEF IInv, Runs, References
    <2> HIDE DEF e, f
    <2>6. /\ agents' \in Seq(AgentRecords) /\ DOMAIN agents' = DOMAIN agents
          /\ \A b \in DOMAIN agents : agents'[b] = IF b = a THEN e ELSE agents[b]
      BY <2>3, <2>4, AgentsSet DEF IInv
    <2>7. \A b \in DOMAIN agents : agents'[b].run \in {agents[b].run, Null} /\ agents'[b].run # f
      BY <2>1, <2>4, <2>5, <2>6
    <2> QED BY <2>2, <2>3, <2>5, <2>6, <2>7, ReleaseStep
  <1> QED BY <1>1, <1>2

----------------------------------------------------------------------------
(* Follow-ups *)

\* A follow-up that does not run begins to wait, or is given up.
LEMMA WaitStep ==
    ASSUME IInv, NEW f \in FollowUps, NEW r \in FollowUpRecords,
           follows' = [follows EXCEPT ![f] = r], follows[f].pc # "running",
           r.pc \in {"waiting", "lost"},
           r.pc = "waiting" => r.rt \in DOMAIN heap /\ r.agent \in DOMAIN agents,
           UNCHANGED <<current, heap, agents, calls>>,
           UNCHANGED <<db, cleared, sweep, owed, events, steered, stale, abandoned>>
    PROVE  IInv'
PROOF
  <1>1. /\ follows' \in [FollowUps -> FollowUpRecords] /\ follows'[f] = r
        /\ \A g \in FollowUps : g # f => follows'[g] = follows[g]
    BY DEF IInv, Typed
  <1>2. Flags'
    BY DEF Flags, IInv, Typed
  <1>3. Typed'
    BY <1>1, <1>2 DEF IInv, Typed, Runtimes, AgentRecords, CallRecords, FollowUpRecords
  <1>4. References'
    BY <1>1 DEF IInv, References
  <1>5. Runs'
    BY <1>1 DEF IInv, Runs
  <1>6. Owned'
    BY <1>1 DEF IInv, Owned
  <1>7. Exclusive'
    BY <1>1 DEF Exclusive
  <1> QED BY <1>3, <1>4, <1>5, <1>6, <1>7 DEF IInv

LEMMA FollowUpStep ==
    ASSUME IInv, NEW f \in FollowUps, FollowUp(f)
    PROVE  IInv'
PROOF
  <1> DEFINE a == heap[current].agent
             r == [pc |-> "waiting", rt |-> current, agent |-> a, awaits |-> agents[a].run]
  <1>1. /\ follows' = [follows EXCEPT ![f] = r] /\ follows[f].pc = "idle"
        /\ UNCHANGED <<current, heap, agents, calls>>
        /\ UNCHANGED <<db, cleared, sweep, owed, events, steered, stale, abandoned>>
    BY DEF FollowUp
  <1>2. current \in DOMAIN heap
    BY DEF FollowUp, IInv, Typed
  <1>3. a \in DOMAIN agents
    BY <1>2, Objects DEF IInv, Runtimes
  <1>4. agents[a].run \in Turns \cup {Null}
    BY <1>3, Objects DEF IInv, AgentRecords
  <1>5. r \in FollowUpRecords /\ r.pc = "waiting" /\ r.rt = current /\ r.agent = a
    BY <1>2, <1>3, <1>4 DEF FollowUpRecords, FollowUpStages
  <1> HIDE DEF r, a
  <1> QED BY <1>1, <1>2, <1>3, <1>5, WaitStep

LEMMA FollowUpGraceOverStep ==
    ASSUME IInv, NEW f \in FollowUps, FollowUpGraceOver(f)
    PROVE  IInv'
PROOF
  <1> DEFINE r == [NewFollowUp EXCEPT !.pc = "lost"]
  <1>1. /\ follows' = [follows EXCEPT ![f] = r] /\ follows[f].pc = "waiting"
        /\ UNCHANGED <<current, heap, agents, calls>>
        /\ UNCHANGED <<db, cleared, sweep, owed, events, steered, stale, abandoned>>
    BY DEF FollowUpGraceOver
  <1>2. r \in FollowUpRecords /\ r.pc = "lost"
    BY DEF NewFollowUp, FollowUpRecords, FollowUpStages
  <1> HIDE DEF r
  <1> QED BY <1>1, <1>2, WaitStep

\* A follow-up takes its runtime, and is refused by the Agent or runs on it.
LEMMA ResumeStep ==
    ASSUME IInv, NEW f \in FollowUps, Resume(f)
    PROVE  IInv'
PROOF
  <1> DEFINE rt == follows[f].rt
             a == heap[rt].agent
  <1>1. follows[f].pc = "waiting" /\ UNCHANGED <<current, calls>>
        /\ UNCHANGED <<db, cleared, owed, events, steered, stale, abandoned>>
    BY DEF Resume, Woken
  <1>2. rt \in DOMAIN heap /\ heap[rt] \in Runtimes
    BY <1>1, Objects DEF IInv, References
  <1>3. a \in DOMAIN agents /\ agents[a] \in AgentRecords
    BY <1>2, Objects DEF IInv, Runtimes
  <1>4. \A b \in DOMAIN agents : agents[b].run # f
    BY <1>1 DEF IInv, Runs
  <1>5. CASE Streaming(a)
    <2>1. /\ follows' = [follows EXCEPT ![f] = [NewFollowUp EXCEPT !.pc = "lost"]]
          /\ heap' = Released(rt) /\ Rearm /\ agents' = agents
      BY <1>5 DEF Resume
    <2>2. agents' \in Seq(AgentRecords)
      BY <2>1 DEF IInv, Typed
    <2> QED BY <1>1, <1>2, <1>4, <2>1, <2>2, ReleaseStep
  <1>6. CASE ~Streaming(a)
    <2> DEFINE e == [agents[a] EXCEPT !.run = f, !.context = @ \cup {f}]
               h == [heap[rt] EXCEPT !.active = TRUE]
               r == [follows[f] EXCEPT !.pc = "running", !.awaits = Null]
    <2>1. /\ agents' = [agents EXCEPT ![a] = e] /\ heap' = [heap EXCEPT ![rt] = h] /\ sweep' = sweep
      BY <1>6 DEF Resume
    <2>2. follows' = [follows EXCEPT ![f] = r]
      BY <1>6 DEF Resume, IInv, Typed
    <2>3. follows[f] \in FollowUpRecords /\ follows[f].agent \in DOMAIN agents
      BY <1>1 DEF IInv, Typed, References
    <2>4. e \in AgentRecords /\ e.run = f
      BY <1>3 DEF AgentRecords, Messages, Turns
    <2>5. h \in Runtimes
      BY <1>2 DEF Runtimes
    <2>6. r \in FollowUpRecords /\ r.pc = "running" /\ r.rt = rt /\ r.agent = follows[f].agent
      BY <2>3 DEF FollowUpRecords, FollowUpStages
    <2> HIDE DEF e, h, r, a, rt
    <2>7. /\ agents' \in Seq(AgentRecords) /\ DOMAIN agents' = DOMAIN agents
          /\ \A b \in DOMAIN agents : agents'[b] = IF b = a THEN e ELSE agents[b]
      BY <1>3, <2>1, <2>4, AgentsSet DEF IInv
    <2>8. /\ heap' \in Seq(Runtimes) /\ DOMAIN heap' = DOMAIN heap
          /\ \A i \in DOMAIN heap : heap'[i] = IF i = rt THEN h ELSE heap[i]
      BY <1>2, <2>1, <2>5, HeapSet DEF IInv
    <2>9. /\ follows' \in [FollowUps -> FollowUpRecords] /\ follows'[f] = r
          /\ \A g \in FollowUps : g # f => follows'[g] = follows[g]
      BY <2>2, <2>6 DEF IInv, Typed
    <2>10. AgentRecords' = AgentRecords /\ Runtimes' = Runtimes /\ CallRecords' = CallRecords
           /\ FollowUpRecords' = FollowUpRecords
      BY <2>7, <2>8 DEF AgentRecords, Runtimes, CallRecords, FollowUpRecords
    <2>11. Flags'
      BY <1>1, <2>1, <2>8 DEF Flags, IInv, Typed
    <2>12. Typed'
      BY <1>1, <2>7, <2>8, <2>9, <2>10, <2>11 DEF IInv, Typed
    <2>13. References'
      BY <1>1, <1>2, <2>3, <2>6, <2>7, <2>8, <2>9 DEF IInv, References
    <2>14. Runs'
      BY <1>4, <2>4, <2>6, <2>7, <2>9 DEF IInv, Runs
    <2>15. Owned'
      BY <1>1, <2>6, <2>8, <2>9 DEF IInv, Owned
    <2>16. Exclusive'
      BY <2>6, <2>9 DEF Exclusive
    <2> QED BY <2>12, <2>13, <2>14, <2>15, <2>16 DEF IInv
  <1> QED BY <1>5, <1>6

----------------------------------------------------------------------------
(* The set-up of a turn *)

LEMMA BeginFailsStep ==
    ASSUME IInv, NEW c \in Calls, BeginFails(c)
    PROVE  IInv'
PROOF
  <1> DEFINE r == [NewCall EXCEPT !.pc = "failed"]
  <1>1. /\ calls[c].pc = "preparing" /\ calls' = [calls EXCEPT ![c] = r]
        /\ UNCHANGED <<current, heap, agents, follows>>
        /\ UNCHANGED <<db, sweep, owed, events, steered, stale, abandoned>>
    BY DEF BeginFails
  <1>2. r \in CallRecords /\ r.pc \notin TurnStages
    BY DEF NewCall, CallRecords, CallStages, TurnStages
  <1>3. cleared' \in BOOLEAN
    BY DEF BeginFails, IInv, Typed, Flags
  <1>4. Flags'
    BY <1>1, <1>3 DEF Flags, IInv, Typed
  <1>5. calls[c].pc \notin TurnStages
    BY <1>1 DEF TurnStages
  <1> HIDE DEF r
  <1> QED BY <1>1, <1>2, <1>4, <1>5, CallStep

\* The turn's Agent: a new one, or the one that its runtime has.
LEMMA BeginAgents ==
    ASSUME IInv, NEW c \in Calls, Begin(c)
    PROVE  LET a == calls'[c].agent IN
           /\ agents' \in Seq(AgentRecords) /\ DOMAIN agents' = DOMAIN agents \cup {a}
           /\ \A b \in DOMAIN agents : agents'[b] = agents[b]
           /\ a \notin DOMAIN agents => agents'[a].run = Null
PROOF
  <1> DEFINE cold == calls[c].rt = Null
             rt == IF cold THEN Len(heap) + 1 ELSE calls[c].rt
             n == NewAgent(IF cold THEN Reloaded ELSE agents[heap[rt].agent].context)
             old == heap[rt].agent
  <1>1. PICK rebuilt \in {TRUE, cold} :
           /\ agents' = IF ~rebuilt THEN agents ELSE Append(agents, n)
           /\ calls' = [calls EXCEPT ![c] =
                  [pc |-> "begun", rt |-> rt, agent |-> IF rebuilt THEN Len(agents) + 1 ELSE old]]
    BY DEF Begin
  <1>2. ~cold => old \in DOMAIN agents /\ agents[old].context \subseteq Messages
    <2> SUFFICES ASSUME ~cold PROVE old \in DOMAIN agents /\ agents[old].context \subseteq Messages
      OBVIOUS
    <2>1. rt \in DOMAIN heap
      BY DEF IInv, Typed, CallRecords
    <2>2. old \in DOMAIN agents
      BY <2>1, Objects DEF IInv, Runtimes
    <2> QED BY <2>2, Objects DEF IInv, AgentRecords
  <1>3. Reloaded \subseteq Messages
    BY DEF Reloaded, IInv, Typed, Flags
  <1>4. n \in AgentRecords /\ n.run = Null
    BY <1>2, <1>3 DEF NewAgent, AgentRecords
  <1>5. agents \in Seq(AgentRecords)
    BY DEF IInv, Typed
  <1>6. calls'[c].agent = IF rebuilt THEN Len(agents) + 1 ELSE old
    BY <1>1 DEF IInv, Typed
  <1>7. rebuilt \in {TRUE, cold}
    OBVIOUS
  <1> HIDE DEF n, old
  <1>8. CASE rebuilt
    <2>1. agents' = Append(agents, n) /\ calls'[c].agent = Len(agents) + 1
      BY <1>1, <1>6, <1>8
    <2> QED BY <1>4, <1>5, <2>1, AppendProperties
  <1>9. CASE ~rebuilt
    <2>1. agents' = agents /\ calls'[c].agent = old /\ old \in DOMAIN agents
      BY <1>1, <1>2, <1>6, <1>7, <1>9
    <2> QED BY <1>5, <2>1
  <1> QED BY <1>8, <1>9

\* The runtime of the turn: the one the call read, or a new one.
LEMMA BeginHeap ==
    ASSUME IInv, NEW c \in Calls, Begin(c)
    PROVE  LET rt == calls'[c].rt IN
           /\ rt = IF calls[c].rt = Null THEN Len(heap) + 1 ELSE calls[c].rt
           /\ heap' \in Seq(Runtimes') /\ DOMAIN heap' = DOMAIN heap \cup {rt}
           /\ heap'[rt].active /\ \A i \in DOMAIN heap : i # rt => heap'[i] = heap[i]
           /\ rt \in DOMAIN heap => ~heap[rt].active
PROOF
  <1> DEFINE a == calls'[c].agent
             e == [agent |-> a, active |-> TRUE]
             rt == IF calls[c].rt = Null THEN Len(heap) + 1 ELSE calls[c].rt
  <1>1. DOMAIN agents \subseteq DOMAIN agents' /\ a \in DOMAIN agents'
    BY BeginAgents
  <1>2. e \in Runtimes' /\ e.active
    BY <1>1 DEF Runtimes
  <1>3. Runtimes \subseteq Runtimes'
    BY <1>1 DEF Runtimes
  <1>4. heap \in Seq(Runtimes')
    BY <1>3, SeqMonotonic DEF IInv, Typed
  <1>5. /\ calls'[c].rt = rt
        /\ heap' = IF calls[c].rt = Null THEN Append(heap, e) ELSE [heap EXCEPT ![rt] = e]
    BY DEF Begin, IInv, Typed
  <1>6. CASE calls[c].rt = Null
    <2>1. heap' = Append(heap, e) /\ rt = Len(heap) + 1
      BY <1>5, <1>6
    <2>2. Len(heap) \in Nat /\ DOMAIN heap = 1..Len(heap)
      BY Objects DEF IInv
    <2> HIDE DEF e, rt
    <2>3. /\ heap' \in Seq(Runtimes') /\ DOMAIN heap' = DOMAIN heap \cup {rt}
          /\ heap'[rt] = e /\ \A i \in DOMAIN heap : heap'[i] = heap[i]
      BY <1>2, <1>4, <2>1, AppendProperties
    <2>4. rt \notin DOMAIN heap
      BY <2>1, <2>2
    <2> QED BY <1>2, <1>5, <1>6, <2>3, <2>4 DEF rt
  <1>7. CASE calls[c].rt # Null
    <2>1. heap' = [heap EXCEPT ![rt] = e] /\ ~heap[rt].active
      BY <1>5, <1>7 DEF Begin, StillFree
    <2>2. rt \in DOMAIN heap /\ DOMAIN heap = 1..Len(heap)
      BY <1>7, Objects DEF IInv, Typed, CallRecords
    <2> HIDE DEF e, rt
    <2>3. heap' \in Seq(Runtimes')
      BY <1>2, <1>4, <2>1, <2>2, ExceptSeq
    <2>4. /\ DOMAIN heap' = DOMAIN heap \cup {rt}
          /\ heap'[rt] = e /\ \A i \in DOMAIN heap : i # rt => heap'[i] = heap[i]
      BY <2>1, <2>2
    <2> QED BY <1>2, <1>5, <1>7, <2>1, <2>3, <2>4 DEF rt
  <1> QED BY <1>6, <1>7

LEMMA BeginStep ==
    ASSUME IInv, NEW c \in Calls, Begin(c)
    PROVE  IInv'
PROOF
  <1> DEFINE a == calls'[c].agent
             rt == calls'[c].rt
             r == [pc |-> "begun", rt |-> rt, agent |-> a]
  <1>1. /\ calls[c].pc \notin TurnStages /\ calls' = [calls EXCEPT ![c] = r]
        /\ UNCHANGED <<follows, db, sweep, owed, events, steered, abandoned>>
        /\ stale' \in {stale, stale \ {rt}}
    BY DEF Begin, TurnStages, IInv, Typed
  <1>2. /\ heap' \in Seq(Runtimes') /\ DOMAIN heap' = DOMAIN heap \cup {rt}
        /\ heap'[rt].active /\ \A i \in DOMAIN heap : i # rt => heap'[i] = heap[i]
        /\ rt \in DOMAIN heap => ~heap[rt].active
    BY BeginHeap
  <1>3. /\ agents' \in Seq(AgentRecords) /\ DOMAIN agents' = DOMAIN agents \cup {a}
        /\ \A b \in DOMAIN agents : agents'[b] = agents[b]
        /\ a \notin DOMAIN agents => agents'[a].run = Null
    BY BeginAgents
  <1>4. r.pc = "begun" /\ r.rt = rt /\ r.agent = a /\ r \in CallRecords'
    BY <1>2, <1>3 DEF CallRecords, CallStages
  <1>5. calls[c].rt = Null => rt = Len(heap) + 1
    BY BeginHeap
  <1>6. current' \in DOMAIN heap' \cup {Null}
    BY <1>2, <1>5 DEF Begin, Entry, IInv, Typed
  <1>7. cleared' \in BOOLEAN
    BY DEF Begin, IInv, Typed, Flags
  <1>8. Flags'
    BY <1>1, <1>2, <1>7 DEF Flags, IInv, Typed
  <1> HIDE DEF r, a, rt
  <1>9. CallRecords \subseteq CallRecords' /\ FollowUpRecords \subseteq FollowUpRecords'
        /\ AgentRecords' = AgentRecords
    BY <1>2, <1>3 DEF CallRecords, FollowUpRecords, AgentRecords
  <1>10. /\ calls' \in [Calls -> CallRecords'] /\ calls'[c] = r
         /\ \A d \in Calls : d # c => calls'[d] = calls[d]
    BY <1>1, <1>4, <1>9 DEF IInv, Typed
  <1>11. follows' \in [FollowUps -> FollowUpRecords']
    BY <1>1, <1>9 DEF IInv, Typed
  <1>12. Typed'
    BY <1>2, <1>3, <1>6, <1>8, <1>9, <1>10, <1>11 DEF Typed
  <1>13. References'
    BY <1>1, <1>2, <1>3, <1>4, <1>10 DEF IInv, References
  <1>14. Runs'
    BY <1>1, <1>3, ActorsAssumption DEF IInv, Runs
  <1>15. Owned'
    BY <1>1, <1>2, <1>4, <1>10 DEF IInv, Owned, TurnStages
  <1>16. Exclusive'
    <2> SUFFICES ASSUME \A f \in FollowUps : follows[f].pc = "idle",
                        NEW b \in Calls, calls'[b].pc \in TurnStages
                 PROVE  /\ heap'[calls'[b].rt].active
                        /\ \A d \in Calls : calls'[d].pc \in TurnStages /\ calls'[d].rt = calls'[b].rt
                                              => d = b
      BY <1>1 DEF Exclusive
    <2>1. \A d \in Calls : calls[d].pc \in TurnStages =>
             /\ calls[d].rt \in DOMAIN heap /\ heap[calls[d].rt].active
             /\ calls[d].rt # rt /\ d # c
      BY <1>1, <1>2 DEF IInv, Exclusive, References
    <2>2. CASE b = c
      BY <1>2, <1>4, <1>10, <2>1, <2>2
    <2>3. CASE b # c
      <3>1. /\ calls'[b] = calls[b] /\ calls[b].rt \in DOMAIN heap /\ calls[b].rt # rt
            /\ heap'[calls[b].rt].active
        BY <1>2, <1>10, <2>1, <2>3
      <3>2. \A d \in Calls : calls[d].pc \in TurnStages /\ calls[d].rt = calls[b].rt => d = b
        BY <3>1 DEF IInv, Exclusive
      <3> QED BY <1>4, <1>10, <3>1, <3>2
    <2> QED BY <2>2, <2>3
  <1> QED BY <1>12, <1>13, <1>14, <1>15, <1>16 DEF IInv

----------------------------------------------------------------------------
(* The invariant and the theorems *)

LEMMA NextIInv == IInv /\ [Next]_vars => IInv'
PROOF
  <1> SUFFICES ASSUME IInv, [Next]_vars PROVE IInv'
    OBVIOUS
  <1>1. ASSUME NEW c \in Calls, Execute(c) PROVE IInv'
    BY <1>1, EnterStep, RefuseStep, BeginStep, BeginFailsStep, PromptStep, WatchdogStep, LeaveStep DEF Execute
  <1>2. ASSUME NEW a \in DOMAIN agents, Poll(a) \/ LoopEnds(a) \/ RunEnds(a) PROVE IInv'
    BY <1>2, PollStep, RunEndsStep
  <1>3. ASSUME NEW m \in Steers, Steer(m) PROVE IInv'
    BY <1>3, SteerStep
  <1>4. ASSUME NEW f \in FollowUps, FollowUp(f) \/ FollowUpGraceOver(f) \/ Resume(f) PROVE IInv'
    BY <1>4, FollowUpStep, FollowUpGraceOverStep, ResumeStep
  <1>5. CASE Reset
    BY <1>5, ResetStep
  <1>6. CASE Delete \/ SwitchAgent \/ Evict \/ ToolsChanged \/ Sweep
    BY <1>6, DeleteStep
  <1>7. CASE UNCHANGED vars
    <2>1. UNCHANGED <<current, heap, agents, calls, follows>>
          /\ UNCHANGED <<db, cleared, sweep, owed, events, steered, stale, abandoned>>
      BY <1>7 DEF vars
    <2>2. current' \in DOMAIN heap \cup {Null}
      BY <2>1 DEF IInv, Typed
    <2>3. Flags'
      BY <2>1 DEF Flags, IInv, Typed
    <2> QED BY <2>1, <2>2, <2>3, OutsideStep
  <1> QED BY <1>1, <1>2, <1>3, <1>4, <1>5, <1>6, <1>7 DEF Next

LEMMA SpecIInv == Spec => []IInv
PROOF BY InitIInv, NextIInv, PTL DEF Spec

\* Every variable has its type; in particular the runtime and the Agent that a call or
\* a follow-up keeps across its awaits are objects that were built.
THEOREM ServiceTyped == Spec => []TypeOK
PROOF
  <1>1. IInv => TypeOK
    BY Zenon DEF IInv, Typed, TypeOK, Runtimes, AgentRecords, CallRecords, FollowUpRecords, Flags
  <1> QED BY <1>1, SpecIInv, PTL

\* A runtime is marked busy only while a turn or a follow-up is on it: no path through
\* execute, its watchdog or runOnIdleCard leaves turnActive behind.
THEOREM BusyIsOwned == Spec => []BusyHasOwner
PROOF
  <1>1. IInv => BusyHasOwner
    BY DEF IInv, Owned, BusyHasOwner, TurnsOn, FollowsOn, InTurn, TurnStages
  <1> QED BY <1>1, SpecIInv, PTL

\* Two turns share a runtime only after a follow-up took it: the busy check of execute,
\* repeated after its awaits, excludes every other overlap.
THEOREM TurnsShareAfterFollowUp == Spec => []SharedOnlyAfterFollowUp
PROOF
  <1>1. IInv => SharedOnlyAfterFollowUp
    BY DEF IInv, Exclusive, SharedOnlyAfterFollowUp, TurnsOn, InTurn, TurnStages
  <1> QED BY <1>1, SpecIInv, PTL

\* An eviction or a sweep does not take the runtime from under a turn, at none of its
\* stages, as long as no follow-up came: the busy flag that enforceRuntimeBudget and
\* sweepInvalidRuntimes look at stays set from the turn's set-up to its own tail, since
\* no other turn is on the runtime whose end would clear it.
THEOREM TurnsAreSpared == Spec => EvictionsSpareTurns
PROOF
  <1> DEFINE Spared == (Evict \/ Sweep) /\ current' # current =>
                          TurnsOn(current) = {} \/ \E f \in FollowUps : follows[f].pc # "idle"
  <1>1. IInv => Spared
    <2> SUFFICES ASSUME IInv, Evict \/ Sweep, current' # current,
                        \A f \in FollowUps : follows[f].pc = "idle",
                        NEW c \in TurnsOn(current)
                 PROVE  FALSE
      OBVIOUS
    <2>1. current # Null /\ Disposable(current)
      BY DEF Evict, Sweep
    <2>2. c \in Calls /\ calls[c].pc \in TurnStages /\ calls[c].rt = current
      BY DEF TurnsOn, InTurn, TurnStages
    <2>3. heap[current].active
      BY <2>2 DEF IInv, Exclusive
    <2> QED BY <2>1, <2>3 DEF Disposable
  <1>2. IInv /\ [Next]_vars => [Spared]_vars
    BY <1>1
  <1> HIDE DEF Spared
  <1>3. Spec => [][Spared]_vars
    BY <1>2, SpecIInv, PTL DEF Spec
  <1> QED BY <1>3 DEF EvictionsSpareTurns, Spared

=============================================================================
