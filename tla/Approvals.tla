----------------------------- MODULE Approvals -----------------------------
(***************************************************************************)
(* A tool call that needs the user waits in one of two stores:             *)
(* PendingApprovalStore (src/agent/approval-store.ts) for a decision,      *)
(* UserQuestionStore (user-question-store.ts) for an answer.  The handlers *)
(* of before-tool-call.ts and ask-definition.ts first await the channel    *)
(* that shows the card and only then register the request in its store;    *)
(* buttons, slash commands, steering messages, /stop, the timeout timer, a *)
(* configuration reload and a restart settle it from elsewhere.            *)
(***************************************************************************)
EXTENDS Integers

CONSTANTS
    Requests,     \* ids handed out by generateId()
    Sessions,     \* session keys
    Kinds,        \* what may be asked, a subset of AllKinds
    Null,         \* the absent value
    MaxRestarts   \* bound on the restarts of the process

\* "question": ask_user_question.  The others are approvals: of a file path
\* (risk low), of a dangerous command (risk high) or of another tool.
AllKinds == {"question", "path", "high", "medium"}

ASSUME KindsAssumption == Kinds \subseteq AllKinds
ASSUME RestartsAssumption == MaxRestarts \in Nat

\* null of the columns and of the unset fields is none of their values.
ASSUME NullAssumption ==
    /\ Null \notin {"pending", "approve", "reject", "card", "command", "timer", "withdrawal"}
    /\ Null \notin [session : Sessions, kind : Kinds]

Verdicts == {"approve", "reject"}
Row == [approve |-> "approved", reject |-> "rejected"]

VARIABLES
    about,          \* [session, kind] of a request that was shown
    stage,          \* how far the tool call of the request is
    pending,        \* the keys of both Maps
    arrived,        \* their insertion order
    created,        \* requests registered so far
    timers,         \* requests whose setTimeout is armed
    decision,       \* what the waiting Promise resolved to
    row,            \* status of the request in approval_requests
    timeoutAction,  \* may be changed by a configuration reload
    granted,        \* requests whose path the WebUI may serve
    restarts,
    human,          \* history: decisions of people that the store accepted
    settledBy,      \* history: which path settled the request
    refused         \* history: requests whose button was answered "already handled"

order == <<arrived, created>>

vars == <<about, stage, pending, arrived, created, timers, decision, row, timeoutAction,
          granted, restarts, human, settledBy, refused>>

history == <<human, refused>>

TypeOK ==
    /\ about \in [Requests -> {Null} \cup [session : Sessions, kind : Kinds]]
    /\ stage \in [Requests -> {"new", "shown", "waiting", "done", "gone"}]
    /\ pending \subseteq Requests /\ arrived \in [Requests -> Nat] /\ created \in Nat
    /\ timers \subseteq Requests /\ granted \subseteq Requests
    /\ decision \in [Requests -> Verdicts \cup {Null}]
    /\ row \in [Requests -> {Null, "pending", "approved", "rejected"}]
    /\ timeoutAction \in {"allow", "deny"} /\ restarts \in 0..MaxRestarts
    /\ human \in [Requests -> SUBSET Verdicts]
    /\ settledBy \in [Requests -> {Null, "card", "command", "timer", "withdrawal"}]
    /\ refused \subseteq Requests

Init ==
    /\ about = [r \in Requests |-> Null]
    /\ stage = [r \in Requests |-> "new"]
    /\ pending = {} /\ arrived = [r \in Requests |-> 0] /\ created = 0
    /\ timers = {} /\ granted = {}
    /\ decision = [r \in Requests |-> Null]
    /\ row = [r \in Requests |-> Null]
    /\ timeoutAction \in {"allow", "deny"} /\ restarts = 0
    /\ human = [r \in Requests |-> {}]
    /\ settledBy = [r \in Requests |-> Null]
    /\ refused = {}

-----------------------------------------------------------------------------
(* Asking                                                                  *)

Kind(r) == about[r].kind
IsQuestion(r) == Kind(r) = "question"
OfSession(s) == {r \in Requests : about[r] # Null /\ about[r].session = s}

\* session.present and sender.sendQuestion: the card is on the user's screen
\* before the channel's answer ends the await.
Present(r, s, k) ==
    /\ stage[r] = "new"
    /\ stage' = [stage EXCEPT ![r] = "shown"]
    /\ about' = [about EXCEPT ![r] = [session |-> s, kind |-> k]]
    /\ UNCHANGED <<pending, order, timers, decision, row, timeoutAction, granted, restarts,
                   settledBy, history>>

\* The channel fails: the tool call ends without a request.
PresentFails(r) ==
    /\ stage[r] = "shown"
    /\ stage' = [stage EXCEPT ![r] = "gone"]
    /\ UNCHANGED <<about, pending, order, timers, decision, row, timeoutAction, granted,
                   restarts, settledBy, history>>

\* Mutant of HasTimer: high-risk requests wait without a timer.
NoTimerForHigh(r) == ~IsQuestion(r) /\ Kind(r) # "high"

HasTimer(r) == ~IsQuestion(r)

\* create: the row, the listener, the timer and the Map entry, in one step.
Register(r) ==
    /\ stage[r] = "shown"
    /\ stage' = [stage EXCEPT ![r] = "waiting"]
    /\ pending' = pending \cup {r}
    /\ created' = created + 1 /\ arrived' = [arrived EXCEPT ![r] = created']
    /\ timers' = IF HasTimer(r) THEN timers \cup {r} ELSE timers
    /\ row' = IF IsQuestion(r) THEN row ELSE [row EXCEPT ![r] = "pending"]
    /\ UNCHANGED <<about, decision, timeoutAction, granted, restarts, settledBy, history>>

-----------------------------------------------------------------------------
(* Settling                                                                *)

\* Mutant of ClearsTimers: the timer of a settled request still fires.
LeavesTimers(R) == timers

ClearsTimers(R) == timers \ R

\* The requests R leave the store and their Promises resolve to d; a Promise
\* that has already resolved keeps its value.
Settle(R, d, who) ==
    /\ pending' = pending \ R
    /\ stage' = [r \in Requests |-> IF r \in R THEN "done" ELSE stage[r]]
    /\ decision' = [r \in Requests |-> IF r \in R /\ decision[r] = Null THEN d ELSE decision[r]]
    /\ settledBy' = [r \in Requests |-> IF r \in R THEN who ELSE settledBy[r]]
    /\ UNCHANGED <<about, order, restarts>>

\* Mutant of RowsOf: the decision is stored where its status belongs.
RowsOfDecision(R, d) == [r \in Requests |-> IF r \in R /\ row[r] # Null THEN d ELSE row[r]]

RowsOf(R, d) == [r \in Requests |-> IF r \in R /\ row[r] # Null THEN Row[d] ELSE row[r]]

\* Mutant of Grants: the path of a rejected request is served as well.
GrantsAny(R, d) == {r \in R : Kind(r) = "path"}

\* notifyFileServeApproved
Grants(R, d) == {r \in R : Kind(r) = "path" /\ d = "approve"}

Humans(R, d) == [r \in Requests |-> IF r \in R THEN human[r] \cup {d} ELSE human[r]]

WaitingIn(s) == OfSession(s) \cap pending
Oldest(R) == {r \in R : \A q \in R : arrived[r] <= arrived[q]}

\* A button of the card.  Only the Feishu handler also writes the row; the
\* WebUI, Telegram and QQ handlers leave it pending.
Button(r, d, onFeishu) ==
    /\ r \in pending
    /\ Settle({r}, d, IF onFeishu THEN "card" ELSE "command")
    /\ timers' = ClearsTimers({r})
    /\ row' = IF onFeishu THEN RowsOf({r}, d) ELSE row
    /\ granted' = granted \cup Grants({r}, d)
    /\ human' = Humans({r}, d)
    /\ UNCHANGED <<timeoutAction, refused>>

\* The same button when the store has no entry: "already handled".
ButtonRefused(r) ==
    /\ stage[r] # "new" /\ r \notin pending
    /\ refused' = IF stage[r] = "shown" THEN refused \cup {r} ELSE refused
    /\ UNCHANGED <<about, stage, pending, order, timers, decision, row, timeoutAction, granted,
                   restarts, settledBy, human>>

\* /approve and /deny settle the oldest approval, /approve session and
\* /approve always all of them.  None of them writes the rows.
Command(s, d, all) ==
    LET W == {r \in WaitingIn(s) : ~IsQuestion(r)}
    IN  /\ W # {} /\ (all => d = "approve")
        /\ \E R \in IF all THEN {W} ELSE {{r} : r \in Oldest(W)} :
              /\ Settle(R, d, "command")
              /\ timers' = ClearsTimers(R)
              /\ granted' = granted \cup Grants(R, d)
              /\ human' = Humans(R, d)
        /\ UNCHANGED <<row, timeoutAction, refused>>

\* Mutant of Withdrawn: the session is not looked at.
WithdrawnAll(s) == pending

\* rejectPendingApprovals and rejectPendingQuestions.
Withdrawn(s) == WaitingIn(s)

Withdraw(s) ==
    /\ Settle(Withdrawn(s), "reject", "withdrawal")
    /\ timers' = ClearsTimers(Withdrawn(s))
    /\ row' = RowsOf(Withdrawn(s), "reject")
    /\ UNCHANGED <<timeoutAction, granted, human, refused>>

\* A message while the turn runs answers the oldest question, if there is
\* one; otherwise it steers, which withdraws the session's requests.
Message(s) ==
    LET Q == {r \in WaitingIn(s) : IsQuestion(r)}
    IN  \/ /\ \E r \in Oldest(Q) :
                 Settle({r}, "approve", "command") /\ human' = Humans({r}, "approve")
           /\ UNCHANGED <<timers, row, granted, timeoutAction, refused>>
        \/ Q = {} /\ Withdraw(s)

\* /stop, /clear and /new withdraw before they abort the turn.
StopTurn(s) == Withdraw(s)

\* Mutant of TimeoutVerdict: the risk is not looked at.
TimeoutVerdictOfAny(r) == IF timeoutAction = "allow" THEN "approve" ELSE "reject"

TimeoutVerdict(r) == IF timeoutAction = "allow" /\ Kind(r) # "high" THEN "approve" ELSE "reject"

Timeout(r) ==
    /\ r \in timers
    /\ Settle({r}, TimeoutVerdict(r), "timer")
    /\ timers' = timers \ {r}
    /\ row' = RowsOf({r}, TimeoutVerdict(r))
    /\ UNCHANGED <<granted, timeoutAction, history>>

SetTimeoutAction(a) ==
    /\ a # timeoutAction
    /\ timeoutAction' = a
    /\ UNCHANGED <<about, stage, pending, order, timers, decision, row, granted, restarts,
                   settledBy, history>>

\* Mutant of Recovered: every row of the table is rejected.
RecoveredAll == [r \in Requests |-> IF row[r] # Null THEN "rejected" ELSE row[r]]

\* The process dies with every waiting tool call; the next one rejects what
\* the table still calls pending (recoverFromDB).
Recovered == [r \in Requests |-> IF row[r] = "pending" THEN "rejected" ELSE row[r]]

Restart ==
    /\ restarts < MaxRestarts
    /\ restarts' = restarts + 1
    /\ stage' = [r \in Requests |-> IF stage[r] \in {"shown", "waiting"} THEN "gone" ELSE stage[r]]
    /\ pending' = {} /\ timers' = {} /\ granted' = {}
    /\ row' = Recovered
    /\ UNCHANGED <<about, order, decision, timeoutAction, settledBy, history>>

-----------------------------------------------------------------------------
Next ==
    \/ \E r \in Requests, s \in Sessions, k \in Kinds : Present(r, s, k)
    \/ \E r \in Requests : PresentFails(r) \/ Register(r) \/ ButtonRefused(r) \/ Timeout(r)
    \/ \E r \in Requests, d \in Verdicts, onFeishu \in BOOLEAN : Button(r, d, onFeishu)
    \/ \E s \in Sessions, d \in Verdicts, all \in BOOLEAN : Command(s, d, all)
    \/ \E s \in Sessions : Message(s) \/ StopTurn(s)
    \/ \E a \in {"allow", "deny"} : SetTimeoutAction(a)
    \/ Restart

Spec == Init /\ [][Next]_vars

\* Node fires an armed timer.
FairSpec == Spec /\ \A r \in Requests : WF_vars(Timeout(r))

-----------------------------------------------------------------------------
(* Properties                                                              *)

\* A tool call waits exactly while the store can still find it, and an
\* approval only while its timer is armed: no path takes the entry or the
\* timer away and leaves the Promise behind, and none leaves a timer that
\* would decide again.
WaitersReachable ==
    /\ pending = {r \in Requests : stage[r] = "waiting"}
    /\ timers = {r \in pending : ~IsQuestion(r)}

\* A high-risk tool call goes ahead only if a person approved it, whatever the
\* timeout action is when the timer fires.
HighRiskNeedsHuman ==
    \A r \in Requests : decision[r] = "approve" /\ Kind(r) = "high" => "approve" \in human[r]

\* The WebUI serves a path only after a person approved it; a timeout that
\* allows the tool call does not open the path.
GrantsNeedHuman == \A r \in granted : "approve" \in human[r] /\ settledBy[r] # "timer"

\* What a card, the timer or a withdrawal decided is what the table says for
\* good: no later timer and no restart turns the row around.
RowKeepsDecision ==
    \A r \in Requests :
        settledBy[r] \in {"card", "timer", "withdrawal"} /\ ~IsQuestion(r) => row[r] = Row[decision[r]]

\* A step that settles requests of one session leaves the requests of every
\* other session, their timers and their rows as they are (a restart excepted).
OthersUntouched ==
    [][\A s, t \in Sessions :
          /\ s # t /\ restarts' = restarts
          /\ \E r \in OfSession(s) : stage[r] = "waiting" /\ stage'[r] # "waiting"
          => \A q \in OfSession(t) :
                stage'[q] = stage[q] /\ row'[q] = row[q] /\ (q \in timers <=> q \in timers')]_vars

\* Every approval that waits is decided, or its process dies.
ApprovalsEnd ==
    \A r \in Requests : (stage[r] = "waiting" /\ ~IsQuestion(r)) ~> (stage[r] # "waiting")

\* "returns ... false if it was already handled" (agent-service.ts:1293-1294): a
\* refused button belongs to a request that was decided before.
RefusedWasHandled == \A r \in refused : decision[r] # Null \/ stage[r] = "gone"

=============================================================================
