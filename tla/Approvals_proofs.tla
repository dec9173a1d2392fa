-------------------------- MODULE Approvals_proofs --------------------------
(***************************************************************************)
(* Theorems about Approvals, for any sets of requests, sessions and kinds. *)
(* One invariant carries them all: a request that waits is undecided, is   *)
(* in the store with its timer and has a pending row; a decided one keeps  *)
(* what the path that settled it wrote.                                    *)
(***************************************************************************)
EXTENDS Approvals, TLAPS

\* Exactly a request that left the store has a decision, and it was shown before.
Undecided ==
    \A r \in Requests :
        /\ stage[r] # "done" => decision[r] = Null /\ settledBy[r] = Null
        /\ stage[r] = "done" => decision[r] # Null
        /\ stage[r] # "new" => about[r] # Null

\* The row follows the request: none before create, pending while it waits.
RowsFollow ==
    \A r \in Requests :
        /\ stage[r] \in {"new", "shown"} => row[r] = Null
        /\ stage[r] = "waiting" /\ ~IsQuestion(r) => row[r] = "pending"

\* Paths are granted by the step that decides, never by a timer.
GrantsDecided == \A r \in granted : stage[r] = "done"

IInv ==
    /\ TypeOK
    /\ Undecided
    /\ WaitersReachable
    /\ RowsFollow
    /\ RowKeepsDecision
    /\ HighRiskNeedsHuman
    /\ GrantsDecided
    /\ GrantsNeedHuman

-----------------------------------------------------------------------------
(* Init *)

LEMMA InitInv == Init => IInv
<1> SUFFICES ASSUME Init PROVE IInv
  OBVIOUS
<1>1. TypeOK
  BY RestartsAssumption DEF Init, TypeOK
<1>2. Undecided /\ WaitersReachable /\ RowsFollow /\ GrantsDecided /\ GrantsNeedHuman
  BY DEF Init, Undecided, WaitersReachable, RowsFollow, GrantsDecided, GrantsNeedHuman
<1>3. RowKeepsDecision /\ HighRiskNeedsHuman
  BY NullAssumption DEF Init, RowKeepsDecision, HighRiskNeedsHuman
<1> QED
  BY <1>1, <1>2, <1>3 DEF IInv

-----------------------------------------------------------------------------
(* Settling *)

Settlers == {"card", "command", "timer", "withdrawal"}

\* What every way to settle the requests R has in common: they wait in the store, they
\* leave it with their timers, and a person or a timer that looked at the risk decides.
Settles(R, d, who) ==
    /\ Settle(R, d, who)
    /\ timers' = timers \ R
    /\ row' = RowsOf(R, d) \/ (row' = row /\ who = "command")
    /\ human' = Humans(R, d) \/ (human' = human /\ who \in {"timer", "withdrawal"})
    /\ d = "approve" /\ who = "timer" => \A r \in R : Kind(r) # "high"
    /\ who = "withdrawal" => d = "reject"
    /\ \/ granted' = granted
       \/ who \in {"card", "command"} /\ granted' = granted \cup Grants(R, d)

LEMMA SettlesTyped ==
    ASSUME TypeOK, NEW R \in SUBSET Requests, NEW d \in Verdicts, NEW who \in Settlers,
           Settles(R, d, who), timeoutAction' = timeoutAction,
           refused' = refused
    PROVE  TypeOK'
<1> USE DEF TypeOK, Settles, Settle, Settlers, Verdicts
<1>1. row' \in [Requests -> {Null, "pending", "approved", "rejected"}]
  BY DEF RowsOf, Row
<1>2. human' \in [Requests -> SUBSET Verdicts]
  BY DEF Humans
<1>3. granted' \subseteq Requests
  BY DEF Grants
<1>4. decision' \in [Requests -> Verdicts \cup {Null}]
  OBVIOUS
<1>5. stage' \in [Requests -> {"new", "shown", "waiting", "done", "gone"}]
  OBVIOUS
<1>6. settledBy' \in [Requests -> {Null, "card", "command", "timer", "withdrawal"}]
  OBVIOUS
<1>7. about' = about /\ arrived' = arrived /\ created' = created /\ restarts' = restarts
  BY DEF order
<1>8. pending' \subseteq Requests /\ timers' \subseteq Requests
  OBVIOUS
<1> QED
  BY <1>1, <1>2, <1>3, <1>4, <1>5, <1>6, <1>7, <1>8

LEMMA SettlesInv ==
    ASSUME IInv, NEW R \in SUBSET pending, NEW d \in Verdicts, NEW who \in Settlers,
           Settles(R, d, who), TypeOK'
    PROVE  IInv'
<1>1. /\ R \subseteq Requests
      /\ \A r \in R : stage[r] = "waiting" /\ decision[r] = Null /\ settledBy[r] = Null
      /\ \A r \in R : stage'[r] = "done" /\ decision'[r] = d /\ settledBy'[r] = who
      /\ \A r \in Requests \ R :
            stage'[r] = stage[r] /\ decision'[r] = decision[r] /\ settledBy'[r] = settledBy[r]
      /\ about' = about
  BY DEF IInv, TypeOK, Undecided, WaitersReachable, Settles, Settle
<1>2. \A r \in Requests : Kind(r)' = Kind(r) /\ (IsQuestion(r)' <=> IsQuestion(r))
  BY <1>1 DEF Kind, IsQuestion
<1>3. \A r \in Requests \ R : row'[r] = row[r] /\ human'[r] = human[r]
  BY DEF Settles, RowsOf, Humans, IInv, TypeOK
<1>4. \A r \in R : ~IsQuestion(r) /\ who # "command" => row'[r] = Row[d]
  BY <1>1, NullAssumption DEF Settles, RowsOf, IInv, RowsFollow, TypeOK
<1>5. Undecided'
  BY <1>1, NullAssumption DEF IInv, Undecided, Verdicts
<1>6. WaitersReachable'
  BY <1>1, <1>2 DEF IInv, WaitersReachable, Settles, Settle
<1>7. RowsFollow'
  BY <1>1, <1>2, <1>3 DEF IInv, RowsFollow
<1>8. RowKeepsDecision'
  BY <1>1, <1>2, <1>3, <1>4 DEF IInv, RowKeepsDecision
<1>9. HighRiskNeedsHuman'
  <2>1. \A r \in R : d = "approve" /\ Kind(r) = "high" => "approve" \in human'[r]
    BY <1>1 DEF Settles, Humans, Settlers
  <2> QED
    BY <1>1, <1>2, <1>3, <2>1 DEF IInv, HighRiskNeedsHuman
<1>10. GrantsDecided'
  BY <1>1 DEF IInv, GrantsDecided, Settles, Grants, TypeOK
<1>11. GrantsNeedHuman'
  <2>1. \A r \in granted : r \in Requests \ R
    BY <1>1 DEF IInv, GrantsDecided, TypeOK
  <2>2. \A r \in granted' \ granted : r \in R /\ d = "approve" /\ who \in {"card", "command"} /\ human' = Humans(R, d)
    BY DEF Settles, Grants
  <2>3. \A r \in granted' \ granted : "approve" \in human'[r] /\ settledBy'[r] # "timer"
    BY <1>1, <2>2 DEF Humans
  <2> QED
    BY <1>1, <1>3, <2>1, <2>3 DEF IInv, GrantsNeedHuman
<1> QED
  BY <1>5, <1>6, <1>7, <1>8, <1>9, <1>10, <1>11 DEF IInv

-----------------------------------------------------------------------------
(* The steps that settle *)

\* A button, a command, a message, /stop and a timer all settle requests that wait.
LEMMA SettlingSteps ==
    ASSUME IInv,
           \/ \E r \in Requests, d \in Verdicts, onFeishu \in BOOLEAN : Button(r, d, onFeishu)
           \/ \E s \in Sessions, d \in Verdicts, all \in BOOLEAN : Command(s, d, all)
           \/ \E s \in Sessions : Message(s) \/ StopTurn(s)
           \/ \E r \in Requests : Timeout(r)
    PROVE  \E R \in SUBSET pending, d \in Verdicts, who \in Settlers :
              /\ Settles(R, d, who)
              /\ timeoutAction' = timeoutAction /\ refused' = refused
<1>1. /\ pending \subseteq Requests /\ timers = {r \in pending : ~IsQuestion(r)}
  BY DEF IInv, TypeOK, WaitersReachable
<1>2. {"approve", "reject"} = Verdicts /\ {"card", "command", "timer", "withdrawal"} = Settlers
  BY DEF Verdicts, Settlers
<1>3. ASSUME NEW r \in Requests, NEW d \in Verdicts, NEW onFeishu \in BOOLEAN, Button(r, d, onFeishu)
      PROVE  /\ {r} \in SUBSET pending
             /\ Settles({r}, d, IF onFeishu THEN "card" ELSE "command")
             /\ timeoutAction' = timeoutAction /\ refused' = refused
  BY <1>3 DEF Button, Settles, ClearsTimers
<1>4. ASSUME NEW s \in Sessions, NEW d \in Verdicts, NEW all \in BOOLEAN, Command(s, d, all)
      PROVE  \E R \in SUBSET pending :
                /\ Settles(R, d, "command")
                /\ timeoutAction' = timeoutAction /\ refused' = refused
  <2> DEFINE W == {r \in WaitingIn(s) : ~IsQuestion(r)}
  <2>1. W \subseteq pending /\ \A r \in Oldest(W) : r \in W
    BY DEF WaitingIn, Oldest
  <2>2. PICK R \in IF all THEN {W} ELSE {{r} : r \in Oldest(W)} :
              /\ Settle(R, d, "command")
              /\ timers' = ClearsTimers(R)
              /\ granted' = granted \cup Grants(R, d)
              /\ human' = Humans(R, d)
    BY <1>4 DEF Command
  <2>3. R \in SUBSET pending
    BY <2>1, <2>2
  <2> QED
    BY <1>4, <2>2, <2>3 DEF Command, Settles, ClearsTimers
<1>5. ASSUME NEW s \in Sessions, Withdraw(s)
      PROVE  /\ Withdrawn(s) \in SUBSET pending
             /\ Settles(Withdrawn(s), "reject", "withdrawal")
             /\ timeoutAction' = timeoutAction /\ refused' = refused
  BY <1>1, <1>5 DEF Withdraw, Withdrawn, WaitingIn, Settles, ClearsTimers, OfSession
<1>6. ASSUME NEW s \in Sessions, NEW r \in Oldest({q \in WaitingIn(s) : IsQuestion(q)}),
             Settle({r}, "approve", "command"), human' = Humans({r}, "approve"),
             UNCHANGED <<timers, row, granted, timeoutAction, refused>>
      PROVE  /\ {r} \in SUBSET pending
             /\ Settles({r}, "approve", "command")
             /\ timeoutAction' = timeoutAction /\ refused' = refused
  <2>1. r \in pending /\ r \notin timers
    BY <1>1 DEF Oldest, WaitingIn
  <2>2. timers' = timers \ {r}
    BY <1>6, <2>1
  <2> QED
    BY <1>6, <2>1, <2>2 DEF Settles
<1>7. ASSUME NEW r \in Requests, Timeout(r)
      PROVE  /\ {r} \in SUBSET pending /\ TimeoutVerdict(r) \in Verdicts
             /\ Settles({r}, TimeoutVerdict(r), "timer")
             /\ timeoutAction' = timeoutAction /\ refused' = refused
  <2>1. r \in pending
    BY <1>1, <1>7 DEF Timeout
  <2>2. TimeoutVerdict(r) \in Verdicts /\ (TimeoutVerdict(r) = "approve" => Kind(r) # "high")
    BY DEF TimeoutVerdict, Verdicts
  <2> QED
    BY <1>7, <2>1, <2>2 DEF Timeout, Settles, history
<1>8. CASE \E r \in Requests, d \in Verdicts, onFeishu \in BOOLEAN : Button(r, d, onFeishu)
  <2>1. PICK r \in Requests, d \in Verdicts, onFeishu \in BOOLEAN : Button(r, d, onFeishu)
    BY <1>8
  <2> QED
    BY <1>1, <1>2, <1>3, <2>1
<1>9. CASE \E s \in Sessions, d \in Verdicts, all \in BOOLEAN : Command(s, d, all)
  <2>1. PICK s \in Sessions, d \in Verdicts, all \in BOOLEAN : Command(s, d, all)
    BY <1>9
  <2> QED
    BY <1>1, <1>2, <1>4, <2>1
<1>10. CASE \E s \in Sessions : Message(s) \/ StopTurn(s)
  <2>1. PICK s \in Sessions : Message(s) \/ StopTurn(s)
    BY <1>10
  <2>2. CASE Withdraw(s)
    BY <1>2, <1>5, <2>2
  <2>3. CASE \E r \in Oldest({q \in WaitingIn(s) : IsQuestion(q)}) :
               /\ Settle({r}, "approve", "command") /\ human' = Humans({r}, "approve")
               /\ UNCHANGED <<timers, row, granted, timeoutAction, refused>>
    BY <1>1, <1>2, <1>6, <2>3
  <2> QED
    BY <2>1, <2>2, <2>3 DEF Message, StopTurn
<1>11. CASE \E r \in Requests : Timeout(r)
  BY <1>1, <1>2, <1>7, <1>11
<1> QED
  BY <1>8, <1>9, <1>10, <1>11

-----------------------------------------------------------------------------
(* The other steps *)

LEMMA PresentInv ==
    ASSUME IInv, NEW r \in Requests, NEW s \in Sessions, NEW k \in Kinds, Present(r, s, k)
    PROVE  IInv'
<1> USE DEF Present, history, order
<1>1. TypeOK'
  <2>1. about' \in [Requests -> {Null} \cup [session : Sessions, kind : Kinds]]
    BY DEF IInv, TypeOK
  <2> QED
    BY <2>1 DEF IInv, TypeOK
<1>2. /\ about'[r] # Null /\ stage[r] = "new" /\ stage'[r] = "shown"
      /\ \A q \in Requests \ {r} : about'[q] = about[q] /\ stage'[q] = stage[q]
  BY NullAssumption DEF IInv, TypeOK
<1>3. \A q \in Requests \ {r} : (IsQuestion(q)' <=> IsQuestion(q)) /\ Kind(q)' = Kind(q)
  BY <1>2 DEF IsQuestion, Kind
<1>4. decision[r] = Null /\ settledBy[r] = Null /\ row[r] = Null /\ r \notin pending /\ r \notin granted
  BY <1>2 DEF IInv, Undecided, RowsFollow, WaitersReachable, GrantsDecided
<1>5. Undecided'
  BY <1>2, <1>4 DEF IInv, Undecided
<1>6. WaitersReachable'
  BY <1>2, <1>3, <1>4 DEF IInv, WaitersReachable, TypeOK
<1>7. RowsFollow' /\ RowKeepsDecision'
  BY <1>2, <1>3, <1>4, NullAssumption DEF IInv, RowsFollow, RowKeepsDecision
<1>8. HighRiskNeedsHuman' /\ GrantsDecided' /\ GrantsNeedHuman'
  BY <1>2, <1>3, <1>4, NullAssumption
  DEF IInv, HighRiskNeedsHuman, GrantsDecided, GrantsNeedHuman, TypeOK
<1> QED
  BY <1>1, <1>5, <1>6, <1>7, <1>8 DEF IInv

LEMMA RegisterInv ==
    ASSUME IInv, NEW r \in Requests, Register(r)
    PROVE  IInv'
<1> USE DEF Register, history
<1>1. TypeOK'
  <2>1. created' \in Nat /\ arrived' \in [Requests -> Nat]
    BY DEF IInv, TypeOK
  <2>2. row' \in [Requests -> {Null, "pending", "approved", "rejected"}]
    BY DEF IInv, TypeOK
  <2>3. stage' \in [Requests -> {"new", "shown", "waiting", "done", "gone"}]
    BY DEF IInv, TypeOK
  <2>4. pending' \subseteq Requests /\ timers' \subseteq Requests
    BY DEF IInv, TypeOK
  <2> QED
    BY <2>1, <2>2, <2>3, <2>4 DEF IInv, TypeOK
<1>2. /\ stage[r] = "shown" /\ stage'[r] = "waiting" /\ about' = about
      /\ \A q \in Requests \ {r} : stage'[q] = stage[q] /\ row'[q] = row[q]
      /\ ~IsQuestion(r) => row'[r] = "pending"
  BY DEF IInv, TypeOK
<1>3. \A q \in Requests : (IsQuestion(q)' <=> IsQuestion(q)) /\ Kind(q)' = Kind(q)
  BY <1>2 DEF IsQuestion, Kind
<1>4. decision[r] = Null /\ settledBy[r] = Null /\ r \notin pending /\ r \notin granted
  BY <1>2 DEF IInv, Undecided, WaitersReachable, GrantsDecided
<1>5. Undecided'
  BY <1>2, <1>4 DEF IInv, Undecided
<1>6. WaitersReachable'
  <2>1. pending' = {q \in Requests : stage'[q] = "waiting"}
    BY <1>2 DEF IInv, WaitersReachable
  <2>2. timers' = {q \in pending' : ~IsQuestion(q)}
    BY <1>4 DEF IInv, WaitersReachable, HasTimer
  <2> QED
    BY <1>3, <2>1, <2>2 DEF WaitersReachable, IInv, TypeOK
<1>7. RowsFollow' /\ RowKeepsDecision'
  BY <1>2, <1>3, <1>4, NullAssumption DEF IInv, RowsFollow, RowKeepsDecision
<1>8. HighRiskNeedsHuman' /\ GrantsDecided' /\ GrantsNeedHuman'
  BY <1>2, <1>3, <1>4 DEF IInv, HighRiskNeedsHuman, GrantsDecided, GrantsNeedHuman, TypeOK
<1> QED
  BY <1>1, <1>5, <1>6, <1>7, <1>8 DEF IInv

LEMMA RestartInv ==
    ASSUME IInv, Restart
    PROVE  IInv'
<1> USE DEF Restart, Recovered, history, order
<1>1. TypeOK'
  BY RestartsAssumption DEF IInv, TypeOK
<1>2. \A r \in Requests : /\ stage'[r] \in {"new", "done", "gone"}
                          /\ stage'[r] # "gone" => stage'[r] = stage[r]
                          /\ stage[r] = "new" <=> stage'[r] = "new"
                          /\ stage[r] = "done" <=> stage'[r] = "done"
  BY DEF IInv, TypeOK
<1>3. \A r \in Requests : (IsQuestion(r)' <=> IsQuestion(r)) /\ Kind(r)' = Kind(r)
  BY DEF IsQuestion, Kind
<1>4. \A r \in Requests : row'[r] = row[r] \/ row[r] = "pending"
  BY DEF IInv, TypeOK
<1>5. Undecided' /\ WaitersReachable' /\ GrantsDecided' /\ GrantsNeedHuman' /\ HighRiskNeedsHuman'
  BY <1>2, <1>3
  DEF IInv, Undecided, WaitersReachable, GrantsDecided, GrantsNeedHuman, HighRiskNeedsHuman
<1>6. RowsFollow'
  BY <1>2, <1>4, NullAssumption DEF IInv, RowsFollow
<1>7. RowKeepsDecision'
  <2>1. \A r \in Requests : decision[r] \in Verdicts => Row[decision[r]] # "pending"
    BY DEF Verdicts, Row
  <2>2. \A r \in Requests : settledBy[r] \in {"card", "timer", "withdrawal"} => decision[r] \in Verdicts
    BY NullAssumption DEF IInv, Undecided, TypeOK
  <2> QED
    BY <1>3, <1>4, <2>1, <2>2 DEF IInv, RowKeepsDecision
<1> QED
  BY <1>1, <1>5, <1>6, <1>7 DEF IInv

LEMMA QuietInv ==
    ASSUME IInv,
           \/ \E r \in Requests : PresentFails(r) \/ ButtonRefused(r)
           \/ \E a \in {"allow", "deny"} : SetTimeoutAction(a)
           \/ UNCHANGED vars
    PROVE  IInv'
<1>1. /\ UNCHANGED <<about, pending, order, timers, decision, row, granted, restarts, settledBy, human>>
      /\ \A r \in Requests : stage'[r] = stage[r] \/ (stage[r] = "shown" /\ stage'[r] = "gone")
      /\ stage' \in [Requests -> {"new", "shown", "waiting", "done", "gone"}]
      /\ timeoutAction' \in {"allow", "deny"} /\ refused' \subseteq Requests
  <2>0. TypeOK
    BY DEF IInv
  <2>1. CASE \E r \in Requests : PresentFails(r)
    BY <2>0, <2>1 DEF TypeOK, PresentFails, history
  <2>2. CASE \E r \in Requests : ButtonRefused(r)
    BY <2>0, <2>2 DEF TypeOK, ButtonRefused
  <2>3. CASE \E a \in {"allow", "deny"} : SetTimeoutAction(a)
    BY <2>0, <2>3 DEF TypeOK, SetTimeoutAction, history
  <2>4. CASE UNCHANGED vars
    BY <2>0, <2>4 DEF TypeOK, vars, order
  <2> QED
    BY <2>1, <2>2, <2>3, <2>4
<1>2. TypeOK'
  BY <1>1 DEF IInv, TypeOK, order
<1>3. \A r \in Requests : (IsQuestion(r)' <=> IsQuestion(r)) /\ Kind(r)' = Kind(r)
  BY <1>1 DEF IsQuestion, Kind
<1>4. Undecided' /\ WaitersReachable' /\ RowsFollow'
  BY <1>1, <1>3 DEF IInv, TypeOK, Undecided, WaitersReachable, RowsFollow
<1>5. RowKeepsDecision' /\ HighRiskNeedsHuman' /\ GrantsDecided' /\ GrantsNeedHuman'
  BY <1>1, <1>3 DEF IInv, TypeOK, RowKeepsDecision, HighRiskNeedsHuman, GrantsDecided, GrantsNeedHuman
<1> QED
  BY <1>2, <1>4, <1>5 DEF IInv

LEMMA StepInv ==
    ASSUME IInv, [Next]_vars
    PROVE  IInv'
<1>1. CASE \/ \E r \in Requests, d \in Verdicts, onFeishu \in BOOLEAN : Button(r, d, onFeishu)
           \/ \E s \in Sessions, d \in Verdicts, all \in BOOLEAN : Command(s, d, all)
           \/ \E s \in Sessions : Message(s) \/ StopTurn(s)
           \/ \E r \in Requests : Timeout(r)
  <2>1. PICK R \in SUBSET pending, d \in Verdicts, who \in Settlers :
              /\ Settles(R, d, who)
              /\ timeoutAction' = timeoutAction /\ refused' = refused
    BY <1>1, SettlingSteps
  <2>2. R \in SUBSET Requests /\ TypeOK
    BY DEF IInv, TypeOK
  <2>3. TypeOK'
    BY <2>1, <2>2, SettlesTyped
  <2> QED
    BY <2>1, <2>3, SettlesInv
<1>2. CASE \E r \in Requests, s \in Sessions, k \in Kinds : Present(r, s, k)
  BY <1>2, PresentInv
<1>3. CASE \E r \in Requests : Register(r)
  BY <1>3, RegisterInv
<1>4. CASE Restart
  BY <1>4, RestartInv
<1>5. CASE \/ \E r \in Requests : PresentFails(r) \/ ButtonRefused(r)
           \/ \E a \in {"allow", "deny"} : SetTimeoutAction(a)
           \/ UNCHANGED vars
  BY <1>5, QuietInv
<1> QED
  BY <1>1, <1>2, <1>3, <1>4, <1>5, Zenon DEF Next

LEMMA Invariant == Spec => []IInv
BY InitInv, StepInv, PTL DEF Spec

-----------------------------------------------------------------------------
(* The theorems *)

\* Type correctness of both stores and of the table (approval-store.ts,
\* user-question-store.ts), for any number of requests, sessions and restarts.
THEOREM ApprovalsTyped == Spec => []TypeOK
<1>1. IInv => TypeOK
  BY DEF IInv
<1> QED
  BY <1>1, Invariant, PTL

\* No path through resolve, the bulk commands, the timer or a restart leaves a tool
\* call waiting that the store cannot find, or a timer that would decide again
\* (approval-store.ts:119-235).
THEOREM NobodyWaitsUnreachable == Spec => []WaitersReachable
<1>1. IInv => WaitersReachable
  BY DEF IInv
<1> QED
  BY <1>1, Invariant, PTL

\* No timer approves a high-risk tool call, whatever the configuration says when it
\* fires (approval-store.ts:213-217).
THEOREM HighRiskTakesHumans == Spec => []HighRiskNeedsHuman
<1>1. IInv => HighRiskNeedsHuman
  BY DEF IInv
<1> QED
  BY <1>1, Invariant, PTL

\* The WebUI never serves a path that only a timer allowed (approval-store.ts:237-261).
THEOREM GrantsTakeHumans == Spec => []GrantsNeedHuman
<1>1. IInv => GrantsNeedHuman
  BY DEF IInv
<1> QED
  BY <1>1, Invariant, PTL

\* What a card, a timer or a withdrawal wrote is not turned around by a later timer or
\* by the recovery after a restart (approval-store.ts:160-229).
THEOREM RowsKeepDecisions == Spec => []RowKeepsDecision
<1>1. IInv => RowKeepsDecision
  BY DEF IInv
<1> QED
  BY <1>1, Invariant, PTL

-----------------------------------------------------------------------------
(* Sessions *)

\* Outside session s, the step leaves requests, timers and rows as they are.
OnlyIn(s) ==
    \A q \in Requests \ OfSession(s) :
        stage'[q] = stage[q] /\ row'[q] = row[q] /\ (q \in timers <=> q \in timers')

LEMMA SettlesWithin ==
    ASSUME NEW s \in Sessions, NEW R \in SUBSET OfSession(s), NEW d, NEW who, Settle(R, d, who),
           timers' \in {timers, timers \ R}, row' \in {row, RowsOf(R, d)}
    PROVE  OnlyIn(s)
<1>1. \A q \in Requests \ OfSession(s) : q \notin R
  OBVIOUS
<1> QED
  BY <1>1 DEF OnlyIn, Settle, RowsOf

\* Whatever settles requests settles those of one session.
LEMMA SettlingIsLocal ==
    ASSUME IInv,
           \/ \E r \in Requests, d \in Verdicts, onFeishu \in BOOLEAN : Button(r, d, onFeishu)
           \/ \E s \in Sessions, d \in Verdicts, all \in BOOLEAN : Command(s, d, all)
           \/ \E s \in Sessions : Message(s) \/ StopTurn(s)
           \/ \E r \in Requests : Timeout(r)
    PROVE  \E s \in Sessions : OnlyIn(s)
<1>1. \A r \in pending : r \in Requests /\ \E s \in Sessions : r \in OfSession(s)
  <2>1. \A r \in pending : r \in Requests /\ about[r] # Null
    BY DEF IInv, WaitersReachable, Undecided
  <2>2. \A r \in pending : about[r].session \in Sessions
    BY <2>1 DEF IInv, TypeOK
  <2> QED BY <2>1, <2>2 DEF OfSession
<1>2. ASSUME NEW r \in Requests, NEW d \in Verdicts, NEW onFeishu \in BOOLEAN, Button(r, d, onFeishu)
      PROVE  \E s \in Sessions : OnlyIn(s)
  <2>1. PICK s \in Sessions : r \in OfSession(s)
    BY <1>1, <1>2 DEF Button
  <2>2. /\ Settle({r}, d, IF onFeishu THEN "card" ELSE "command")
        /\ timers' = timers \ {r} /\ row' \in {row, RowsOf({r}, d)}
    BY <1>2 DEF Button, ClearsTimers
  <2> QED BY <2>1, <2>2, SettlesWithin
<1>3. ASSUME NEW s \in Sessions, NEW d \in Verdicts, NEW all \in BOOLEAN, Command(s, d, all)
      PROVE  OnlyIn(s)
  <2> DEFINE W == {r \in WaitingIn(s) : ~IsQuestion(r)}
  <2>1. W \subseteq OfSession(s) /\ \A r \in Oldest(W) : r \in W
    BY DEF WaitingIn, Oldest
  <2>2. PICK R \in IF all THEN {W} ELSE {{r} : r \in Oldest(W)} :
              Settle(R, d, "command") /\ timers' = timers \ R
    BY <1>3 DEF Command, ClearsTimers
  <2>3. R \in SUBSET OfSession(s)
    BY <2>1, <2>2
  <2>4. row' = row
    BY <1>3 DEF Command
  <2> QED BY <2>2, <2>3, <2>4, SettlesWithin
<1>4. ASSUME NEW s \in Sessions, Withdraw(s) PROVE OnlyIn(s)
  <2>1. WaitingIn(s) \in SUBSET OfSession(s)
    BY DEF WaitingIn
  <2>2. /\ Settle(WaitingIn(s), "reject", "withdrawal")
        /\ timers' = timers \ WaitingIn(s) /\ row' = RowsOf(WaitingIn(s), "reject")
    BY <1>4 DEF Withdraw, Withdrawn, ClearsTimers
  <2> QED BY <2>1, <2>2, SettlesWithin
<1>5. ASSUME NEW s \in Sessions, Message(s) \/ StopTurn(s) PROVE OnlyIn(s)
  <2>1. CASE Withdraw(s)
    BY <1>4, <2>1
  <2>2. CASE \E r \in Oldest({q \in WaitingIn(s) : IsQuestion(q)}) :
               Settle({r}, "approve", "command") /\ timers' = timers /\ row' = row
    <3>1. PICK r \in Oldest({q \in WaitingIn(s) : IsQuestion(q)}) :
               Settle({r}, "approve", "command") /\ timers' = timers /\ row' = row
      BY <2>2
    <3>2. {r} \in SUBSET OfSession(s)
      BY DEF Oldest, WaitingIn
    <3> QED BY <3>1, <3>2, SettlesWithin
  <2> QED BY <1>5, <2>1, <2>2 DEF Message, StopTurn
<1>6. ASSUME NEW r \in Requests, Timeout(r) PROVE \E s \in Sessions : OnlyIn(s)
  <2>1. r \in pending
    BY <1>6 DEF Timeout, IInv, WaitersReachable
  <2>2. PICK s \in Sessions : r \in OfSession(s)
    BY <1>1, <2>1
  <2>3. /\ Settle({r}, TimeoutVerdict(r), "timer")
        /\ timers' = timers \ {r} /\ row' = RowsOf({r}, TimeoutVerdict(r))
    BY <1>6 DEF Timeout
  <2> QED BY <2>2, <2>3, SettlesWithin
<1> QED
  BY <1>2, <1>3, <1>5, <1>6

\* The other steps end no wait, but a restart.
LEMMA OthersKeepWaiting ==
    ASSUME IInv,
           \/ \E r \in Requests, s \in Sessions, k \in Kinds : Present(r, s, k)
           \/ \E r \in Requests : PresentFails(r) \/ ButtonRefused(r) \/ Register(r)
           \/ \E a \in {"allow", "deny"} : SetTimeoutAction(a)
           \/ UNCHANGED vars
    PROVE  \A r \in Requests : stage[r] = "waiting" => stage'[r] = "waiting"
<1>1. stage \in [Requests -> {"new", "shown", "waiting", "done", "gone"}]
  BY DEF IInv, TypeOK
<1>2. CASE \E r \in Requests, s \in Sessions, k \in Kinds : Present(r, s, k)
  BY <1>1, <1>2 DEF Present
<1>3. CASE \E r \in Requests : PresentFails(r) \/ ButtonRefused(r) \/ Register(r)
  BY <1>1, <1>3 DEF PresentFails, ButtonRefused, Register
<1>4. CASE (\E a \in {"allow", "deny"} : SetTimeoutAction(a)) \/ UNCHANGED vars
  BY <1>4 DEF SetTimeoutAction, vars
<1> QED
  BY <1>2, <1>3, <1>4

SettlesOneSession ==
    \A s, t \in Sessions :
        /\ s # t /\ restarts' = restarts
        /\ \E r \in OfSession(s) : stage[r] = "waiting" /\ stage'[r] # "waiting"
        => \A q \in OfSession(t) :
              stage'[q] = stage[q] /\ row'[q] = row[q] /\ (q \in timers <=> q \in timers')

LEMMA StepSettlesOneSession == IInv /\ [Next]_vars => SettlesOneSession
<1> SUFFICES ASSUME IInv, [Next]_vars, NEW s \in Sessions, NEW t \in Sessions, s # t,
                    restarts' = restarts, NEW r \in OfSession(s),
                    stage[r] = "waiting", stage'[r] # "waiting"
             PROVE  \A q \in OfSession(t) :
                       stage'[q] = stage[q] /\ row'[q] = row[q] /\ (q \in timers <=> q \in timers')
  BY DEF SettlesOneSession
<1>1. ~Restart
  BY DEF Restart, IInv, TypeOK
<1>2. r \in Requests
  BY DEF OfSession
<1>3. \/ \E x \in Requests, d \in Verdicts, onFeishu \in BOOLEAN : Button(x, d, onFeishu)
      \/ \E x \in Sessions, d \in Verdicts, all \in BOOLEAN : Command(x, d, all)
      \/ \E x \in Sessions : Message(x) \/ StopTurn(x)
      \/ \E x \in Requests : Timeout(x)
  BY <1>1, <1>2, OthersKeepWaiting, Zenon DEF Next
<1>4. PICK x \in Sessions : OnlyIn(x)
  BY <1>3, SettlingIsLocal
<1>5. x = s
  BY <1>2, <1>4 DEF OnlyIn, OfSession
<1>6. \A q \in OfSession(t) : q \in Requests \ OfSession(s)
  BY DEF OfSession
<1> QED
  BY <1>4, <1>5, <1>6 DEF OnlyIn

\* A step that settles requests of one session, be it a button, a command, a message, a
\* /stop or a timer, touches no request of another session: the bulk operations look at
\* the session of every entry of the shared Map (approval-store.ts, user-question-store.ts).
THEOREM SessionsApart == Spec => OthersUntouched
<1>1. IInv /\ [Next]_vars => [SettlesOneSession]_vars
  BY StepSettlesOneSession
<1> QED
  BY <1>1, Invariant, PTL DEF Spec, OthersUntouched, SettlesOneSession
=============================================================================
