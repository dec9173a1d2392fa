----------------------------- MODULE ChatStream -----------------------------
(***************************************************************************)
(* The resumable reply stream of one chat session: the ChatStreamHub       *)
(* (app/webui/chat-stream-hub.ts) and its two routes (chat-routes.ts) on   *)
(* the server, and the SessionStream of one browser tab                    *)
(* (ui/src/state/chat-stream-store.ts), with the connections between them. *)
(*                                                                         *)
(* A reply is the sequence of its events; what one says is left out. Text  *)
(* is gathered in the tab's timeline and comes on screen when a timer      *)
(* fires, or with the end of its turn. Other tabs and clients are the      *)
(* turns they post. Bubbles a refetch replaces by their saved copy are     *)
(* still counted as on screen.                                             *)
(***************************************************************************)
EXTENDS Naturals, Sequences, FiniteSets, SequencesExt

CONSTANTS
    Turns,        \* 1..n, in the order the server begins them
    Conns,        \* connections of the tab that exist at the same time
    MaxLog,       \* events of a turn
    MaxAttempts,  \* MAX_RESUME_ATTEMPTS
    MaxFaults,    \* faults of the network and the server, repairs, and steers
    None

ASSUME NoneAssumption == None \notin Turns \cup Conns

\* A turn has room for its start and its end.
ASSUME BoundsAssumption ==
    MaxLog \in Nat /\ MaxLog >= 2 /\ MaxAttempts \in Nat /\ MaxFaults \in Nat

VARIABLES
    record,       \* the turn in the hub's map
    log,          \* its events
    overflowed,   \* the log has outgrown its cap
    stage,        \* of each turn's route
    subs,         \* subscribers of each turn's record
    conns,        \* stage, kind, turn and undelivered frames
    current,      \* the connection of the transport generation
    tab,          \* the SessionStream, and what it has dropped
    faults        \* faults, repairs and steers so far

hubVars == <<record, log, overflowed, stage>>
vars == <<hubVars, subs, conns, current, tab, faults>>

\* An "aborted" is the error of a turn that was stopped.
Kinds == {"start", "text", "done", "error", "aborted"}
Terminal == {"done", "error", "aborted"}
Stages == {"unused", "begun", "agent", "settled", "over"}

Free == [stage |-> "free", kind |-> "post", turn |-> None, wire |-> <<>>]

Fault == faults < MaxFaults /\ faults' = faults + 1

Init ==
    /\ record = None /\ log = <<>> /\ overflowed = FALSE
    /\ stage = [t \in Turns |-> "unused"]
    /\ subs = [t \in Turns |-> {}]
    /\ conns = [c \in Conns |-> Free]
    /\ current = None
    /\ tab = [sending |-> FALSE, live |-> FALSE, timer |-> FALSE,
              attempts |-> 0, active |-> 0, steered |-> FALSE,
              older |-> <<>>, bubble |-> <<>>, shown |-> 0, dated |-> FALSE,
              flush |-> FALSE, cut |-> {}]
    /\ faults = 0

----------------------------------------------------------------------------
(* Connections *)

Unused == {t \in Turns : stage[t] = "unused"}
Posts == {c \in Conns : conns[c].stage = "asked" /\ conns[c].kind = "post"}
Gets == {c \in Conns : conns[c].stage = "asked"} \ Posts

\* The transport is aborted, and the server sees it close. A POST on its way
\* may still arrive.
Aborted == [c \in Conns |-> IF c = current /\ c \notin Posts THEN Free ELSE conns[c]]
Detached == [t \in Turns |-> subs[t] \ {current}]

Abort == current' = None /\ conns' = Aborted /\ subs' = Detached

\* openTransport: a new generation, which fences off the callbacks of the
\* earlier ones.
Open(kind) ==
    /\ \E c \in Conns : Aborted[c].stage = "free"
    /\ current' = CHOOSE c \in Conns : Aborted[c].stage = "free"
    /\ conns' = [Aborted EXCEPT ![current'] = [Free EXCEPT !.stage = "asked", !.kind = kind]]
    /\ subs' = Detached

\* Mutant of Closed: the responses of subscribers let go stay open.
ClosedNever(cs, S) == cs

\* close() of a follower ends its response; a POST registers no close().
Closed(cs, S) ==
    [c \in Conns |-> IF c \in S /\ cs[c].kind # "post" /\ cs[c].stage = "open"
                     THEN [cs[c] EXCEPT !.stage = "ended"] ELSE cs[c]]

Sent(cs, S, frame) ==
    [c \in Conns |-> IF c \in S /\ cs[c].stage = "open"
                     THEN [cs[c] EXCEPT !.wire = Append(@, frame)] ELSE cs[c]]

\* An aborted POST is lost on its way.
Forget(c) ==
    /\ c # current /\ c \in Posts
    /\ conns' = [conns EXCEPT ![c] = Free]
    /\ UNCHANGED <<hubVars, subs, current, tab, faults>>

----------------------------------------------------------------------------
(* The hub and its routes *)

Live(t) == stage[t] \in {"begun", "agent"}

Displaced == IF record = None THEN {} ELSE subs[record]

\* A new record takes the place of the one before, whose subscribers are cut
\* loose: its turn goes on without them.
Begin(t, own) ==
    /\ t \in Unused /\ \A u \in Unused : t <= u
    /\ record' = t /\ log' = <<>> /\ overflowed' = FALSE
    /\ stage' = [stage EXCEPT ![t] = "begun"]
    /\ subs' = [u \in Turns |-> IF u = t THEN own ELSE subs[u] \ Displaced]

\* The record is opened before the turn's first event, and the writer of the
\* POST is its first subscriber, while its tab is there.
HandlePost(c) ==
    /\ c \in Posts
    /\ \E t \in Turns :
         /\ Begin(t, {c} \cap {current})
         /\ conns' = [Closed(conns, Displaced) EXCEPT
                        ![c] = IF c = current
                               THEN [@ EXCEPT !.stage = "open", !.turn = t]
                               ELSE Free]
    /\ UNCHANGED <<current, tab, faults>>

\* Another tab posts.
ForeignPost ==
    /\ Cardinality(Unused) > Cardinality(Posts)
    /\ \E t \in Turns : Begin(t, {})
    /\ conns' = Closed(conns, Displaced)
    /\ UNCHANGED <<current, tab, faults>>

\* The whole answer, after which the response ends.
Answer(c, frame) ==
    /\ conns' = [conns EXCEPT ![c] = [Free EXCEPT !.stage = "ended", !.kind = "attach",
                                                  !.wire = <<frame>>]]
    /\ UNCHANGED subs

\* Mutant of Baseline: it lags behind what was published.
BaselineBehind ==
    [type |-> "resume", turn |-> record, live |-> Live(record),
     events |-> SubSeq(log, 1, Len(log) - 1)]

Baseline == [type |-> "resume", turn |-> record, live |-> Live(record), events |-> log]

\* The opening frame and the subscription are one synchronous step.
Follow(c) ==
    /\ conns' = [conns EXCEPT ![c] = [Free EXCEPT !.stage = "open", !.kind = "attach",
                                                  !.wire = <<Baseline>>]]
    /\ subs' = [subs EXCEPT ![record] = @ \cup {c}]

\* Mutant of Attach: a settled turn is replayed and then followed.
AttachSettled(c) ==
    IF record = None THEN Answer(c, [type |-> "idle"])
    ELSE IF overflowed THEN Answer(c, [type |-> "resume_unavailable"])
    ELSE Follow(c)

Attach(c) ==
    IF record = None THEN Answer(c, [type |-> "idle"])
    ELSE IF overflowed THEN Answer(c, [type |-> "resume_unavailable"])
    ELSE IF Live(record) THEN Follow(c)
    ELSE IF conns[c].kind = "probe" THEN Answer(c, [type |-> "idle"])
    ELSE Answer(c, Baseline)

HandleGet(c) ==
    /\ c \in Gets
    /\ Attach(c)
    /\ UNCHANGED <<hubVars, current, tab, faults>>

\* turn_start comes when the session's agent starts, which it does for one
\* turn at a time; a command's reply has none, only its text and done, nor has
\* a turn refused because the session is busy. Every turn publishes its end.
MayPublish(t, kind) ==
    /\ Live(t)
    /\ kind = "start" => \A u \in Turns : stage[u] # "agent"

Follows(kind) ==
    CASE kind = "start"   -> log = <<>>
      [] kind = "text"    -> (log = <<>> \/ stage[record] = "agent") /\ Len(log) < MaxLog - 1
      [] kind = "done"    -> TRUE
      [] kind = "error"   -> log = <<>> \/ stage[record] = "agent"
      [] kind = "aborted" -> stage[record] = "agent"

\* turn_start has number 0, what a turn shows is numbered from 1.
Numbered(t, kind) ==
    [type |-> kind, turn |-> t,
     n |-> IF log # <<>> THEN Last(log).n + 1 ELSE IF kind = "start" THEN 0 ELSE 1]

AfterEvent(t, kind) ==
    [stage EXCEPT ![t] = IF kind \in Terminal THEN "settled"
                         ELSE IF kind = "start" THEN "agent" ELSE @]

\* Fans an event of the record's turn out and folds it into the log. A
\* subscriber whose buffer is full is dropped, and its connection closed
\* where it can be; the log may become too large to replay.
Publish(kind) ==
    /\ record # None /\ MayPublish(record, kind) /\ Follows(kind)
    /\ stage' = AfterEvent(record, kind)
    /\ log' = Append(log, Numbered(record, kind))
    /\ \E slow \in SUBSET subs[record], large \in BOOLEAN :
         /\ IF slow = {} /\ ~large THEN UNCHANGED faults ELSE Fault
         /\ overflowed' = (overflowed \/ large)
         /\ LET gone == IF kind \in Terminal THEN subs[record] ELSE slow IN
            /\ conns' = Closed(Sent(conns, subs[record] \ slow, Numbered(record, kind)), gone)
            /\ subs' = [subs EXCEPT ![record] = @ \ gone]
    /\ UNCHANGED <<record, current, tab>>

\* A turn whose record was replaced publishes to nobody.
PublishUnseen(t, kind) ==
    /\ t # record /\ kind # "text" /\ MayPublish(t, kind)
    /\ stage' = AfterEvent(t, kind)
    /\ UNCHANGED <<record, log, overflowed, subs, conns, current, tab, faults>>

\* execute() has returned or failed: the POST's response ends.
EndTurn(t) ==
    /\ stage[t] = "settled"
    /\ stage' = [stage EXCEPT ![t] = "over"]
    /\ conns' = [c \in Conns |->
                   IF conns[c].turn = t /\ conns[c].stage = "open"
                   THEN [conns[c] EXCEPT !.stage = "ended"] ELSE conns[c]]
    /\ UNCHANGED <<record, log, overflowed, subs, current, tab, faults>>

\* Two minutes after its terminal event a record is released.
Expire ==
    /\ record # None /\ ~Live(record)
    /\ record' = None /\ log' = <<>> /\ overflowed' = FALSE
    /\ UNCHANGED <<stage, subs, conns, current, tab, faults>>

----------------------------------------------------------------------------
(* Faults *)

\* The hub lives in memory: a restart loses the record and every turn.
Restart ==
    /\ Fault
    /\ record' = None /\ log' = <<>> /\ overflowed' = FALSE
    /\ stage' = [t \in Turns |-> IF stage[t] = "unused" THEN "unused" ELSE "over"]
    /\ subs' = [t \in Turns |-> {}]
    /\ conns' = [c \in Conns |-> IF c # current THEN Free
                                 ELSE IF conns[c].stage \in {"asked", "open"}
                                 THEN [conns[c] EXCEPT !.stage = "broken", !.wire = <<>>]
                                 ELSE conns[c]]
    /\ UNCHANGED <<current, tab>>

\* What is lost after the end of a response is lost by a cut before it, too.
Cut(how) ==
    /\ Fault
    /\ current # None /\ conns[current].stage \in {"asked", "open"}
    /\ conns' = [conns EXCEPT ![current].stage = how, ![current].wire = <<>>]
    /\ UNCHANGED <<hubVars, current, tab>>

\* The connection breaks, or its request is refused.
Break == Cut("broken") /\ subs' = Detached

\* It dies without a sign: the server still writes to it.
Silence == Cut("silent") /\ UNCHANGED subs

----------------------------------------------------------------------------
(* The tab *)

\* On screen are the bubbles before and what was published of the timeline,
\* the bubble that is being written.
Shown(s) == s.older \o SubSeq(s.bubble, 1, s.shown)
Unshown(s) == Range(SubSeq(s.bubble, s.shown + 1, Len(s.bubble)))

\* The timeline is published, or its timer is cancelled without that.
Flushed(s) == [s EXCEPT !.shown = Len(s.bubble), !.flush = FALSE]
Cancelled(s) == [s EXCEPT !.flush = FALSE, !.cut = @ \cup Unshown(s)]

\* A new bubble, which drops what was not published of the one before; the
\* timer goes on, for the new one.
BeginTurn(s) ==
    [s EXCEPT !.older = Shown(s), !.bubble = <<>>, !.shown = 0, !.dated = TRUE,
              !.cut = @ \cup Unshown(s), !.active = @ + 1]

Idle(s) == [s EXCEPT !.active = 0, !.sending = FALSE, !.live = FALSE]

Appended(s, e) == [s EXCEPT !.bubble = Append(@, <<e.turn, e.n>>), !.flush = TRUE]

\* The end of a turn folds the pending text in and publishes the bubble.
FinishTurn(s, e) ==
    LET b == Flushed(Appended(s, e)) IN
    IF s.active <= 1 THEN Idle(b) ELSE [b EXCEPT !.active = @ - 1]

\* An error does so too, unless the turn was stopped or has begun no bubble.
FailTurn(s, e) == Idle(IF e.type = "error" /\ s.dated THEN Flushed(s) ELSE Cancelled(s))

\* The reducer, for live and replayed events alike.
Apply(s, e) ==
    CASE e.type = "start" ->
           IF s.steered THEN [s EXCEPT !.steered = FALSE, !.active = 1] ELSE BeginTurn(s)
      [] e.type = "text" -> Appended(s, e)
      [] e.type = "done" -> FinishTurn(s, e)
      [] OTHER           -> FailTurn(s, e)

\* Mutant of ResetForReplay: the replay is appended to what is shown.
ResetNothing(s) == [s EXCEPT !.active = 0, !.steered = FALSE, !.cut = {}]

\* The bubbles leave the screen at once; the timer, if it runs, goes on.
ResetForReplay(s) ==
    [s EXCEPT !.active = 0, !.steered = FALSE, !.older = <<>>, !.bubble = <<>>,
              !.shown = 0, !.dated = FALSE, !.cut = {}]

\* The reducer over the events of a baseline, in their order.
ApplyAll(s, events) ==
    LET after[i \in 0..Len(events)] ==
            IF i = 0 THEN s ELSE Apply(after[i - 1], events[i])
    IN  after[Len(events)]

Replay(s, f) ==
    [ApplyAll(ResetForReplay(s), f.events) EXCEPT !.sending = f.live, !.live = f.live]

HandleEvent(s, f) ==
    IF f.type = "resume" THEN Replay(s, f)
    ELSE IF f.type \in Kinds THEN Apply(s, f)
    ELSE Idle(s)

\* One frame of the current connection; the end of the turn aborts it.
Deliver(c) ==
    /\ c = current /\ conns[c].wire # <<>>
    /\ LET f == Head(conns[c].wire) IN
       /\ tab' = HandleEvent(tab, f)
       /\ IF f.type \in Terminal /\ ~tab'.live
          THEN Abort
          ELSE /\ conns' = [conns EXCEPT ![c].wire = Tail(@)]
               /\ UNCHANGED <<current, subs>>
    /\ UNCHANGED <<hubVars, faults>>

\* Mutant of ScheduleResume: the attempts are not limited.
ScheduleAlways(s) ==
    IF s.timer \/ ~s.sending THEN s ELSE [s EXCEPT !.attempts = @ + 1, !.timer = TRUE]

\* Mutant of ScheduleResume: a stream that cannot be resumed spins on.
ScheduleForever(s) ==
    IF s.timer \/ ~s.sending \/ s.attempts >= MaxAttempts THEN s
    ELSE [s EXCEPT !.attempts = @ + 1, !.timer = TRUE]

ScheduleResume(s) ==
    IF s.timer \/ ~s.sending THEN s
    ELSE IF s.attempts >= MaxAttempts THEN Idle(s)
    ELSE [s EXCEPT !.attempts = @ + 1, !.timer = TRUE]

\* The response ended or failed: onTransportError, then onTransportEnd.
TransportEnds(c) ==
    /\ c = current
    /\ \/ conns[c].stage = "ended" /\ conns[c].wire = <<>>
       \/ conns[c].stage = "broken"
    /\ tab' = ScheduleResume([tab EXCEPT !.live = FALSE])
    /\ current' = None
    /\ conns' = [conns EXCEPT ![c] = Free]
    /\ UNCHANGED <<hubVars, subs, faults>>

\* The user sends a message: whatever stream there was is aborted, with the
\* timer of its text, and its bubbles are cleared, though not the timeline.
Send ==
    /\ ~tab.sending
    /\ Cardinality(Unused) > Cardinality(Posts)
    /\ tab' = [tab EXCEPT !.sending = TRUE, !.live = TRUE, !.timer = FALSE,
                          !.attempts = 0, !.older = <<>>, !.shown = 0,
                          !.flush = FALSE,
                          !.cut = @ \cup Range(tab.older \o tab.bubble)]
    /\ Open("post")
    /\ UNCHANGED <<hubVars, faults>>

\* While a reply streams, a message steers it, in a bubble of its own.
Steer ==
    /\ tab.sending
    /\ Fault
    /\ tab' = [BeginTurn(tab) EXCEPT !.active = 1, !.steered = TRUE]
    /\ UNCHANGED <<hubVars, subs, conns, current>>

\* ensureAttached, at an open session and at a wake-up.
Probe ==
    /\ ~tab.sending /\ ~tab.live
    /\ tab' = [tab EXCEPT !.live = TRUE]
    /\ Open("probe")
    /\ UNCHANGED <<hubVars, faults>>

\* The timer of a scheduled resume.
Retry ==
    /\ tab.timer
    /\ tab' = [tab EXCEPT !.timer = FALSE, !.live = TRUE]
    /\ Open("attach")
    /\ UNCHANGED <<hubVars, faults>>

\* The network is back: retryNow, with a new budget of attempts.
Online ==
    /\ Fault
    /\ tab.sending /\ ~tab.live
    /\ tab' = [tab EXCEPT !.timer = FALSE, !.live = TRUE, !.attempts = 0]
    /\ Open("attach")
    /\ UNCHANGED hubVars

\* Nothing has arrived for a minute, not even a ping: the transport is aborted,
\* and with it the timer of the text.
CheckAlive ==
    /\ tab.live /\ tab.sending
    /\ current # None /\ conns[current].stage \in {"asked", "silent"}
    /\ Abort
    /\ tab' = ScheduleResume([Cancelled(tab) EXCEPT !.live = FALSE])
    /\ UNCHANGED <<hubVars, faults>>

\* The timer of the throttled update: the timeline comes on screen.
Flush ==
    /\ tab.flush
    /\ tab' = Flushed(tab)
    /\ UNCHANGED <<hubVars, subs, conns, current, faults>>

Next ==
    \/ Flush \/ Send \/ Steer \/ Probe \/ Retry \/ Online \/ CheckAlive
    \/ ForeignPost \/ Expire \/ Restart \/ Break \/ Silence
    \/ \E c \in Conns : \/ HandlePost(c) \/ HandleGet(c) \/ Deliver(c)
                        \/ TransportEnds(c) \/ Forget(c)
    \/ \E t \in Turns : EndTurn(t) \/ \E k \in Kinds : PublishUnseen(t, k)
    \/ \E k \in Kinds : Publish(k)

Spec == Init /\ [][Next]_vars

\* What the server, the network and the timers owe: requests are served,
\* turns end, frames and ends of responses arrive, timers fire.
Progress ==
    \/ Flush \/ Retry
    \/ current # None /\ conns[current].stage = "silent" /\ CheckAlive
    \/ \E c \in Conns : HandlePost(c) \/ HandleGet(c) \/ Deliver(c) \/ TransportEnds(c)
    \/ \E t \in Turns : EndTurn(t) \/ \E k \in Kinds : PublishUnseen(t, k)
    \/ \E k \in Kinds : Publish(k)

FairSpec == Spec /\ WF_vars(Progress)

----------------------------------------------------------------------------
(* Properties *)

Piece == Turns \X (1..MaxLog)

Event == [type : Kinds, turn : Turns, n : 0..MaxLog]

Frame ==
    Event \cup [type : {"idle", "resume_unavailable"}]
          \cup [type : {"resume"}, turn : Turns, live : BOOLEAN, events : Seq(Event)]

Conn ==
    [stage : {"free", "asked", "open", "ended", "broken", "silent"},
     kind : {"post", "attach", "probe"}, turn : Turns \cup {None}, wire : Seq(Frame)]

Tab ==
    [sending : BOOLEAN, live : BOOLEAN, timer : BOOLEAN, attempts : 0..MaxAttempts,
     active : 0..1, steered : BOOLEAN, older : Seq(Piece), bubble : Seq(Piece),
     shown : Nat, dated : BOOLEAN, flush : BOOLEAN, cut : SUBSET Piece]

\* Every variable has its type.
TypeOK ==
    /\ record \in Turns \cup {None} /\ stage \in [Turns -> Stages]
    /\ log \in Seq(Event) /\ Len(log) <= MaxLog /\ \A e \in Range(log) : e.turn = record
    /\ overflowed \in BOOLEAN
    /\ subs \in [Turns -> SUBSET Conns]
    /\ conns \in [Conns -> Conn] /\ current \in Conns \cup {None}
    /\ tab \in Tab /\ tab.shown <= Len(tab.bubble)
    /\ faults \in 0..MaxFaults

\* What the tab shows of a turn is in the order of its stream, without a
\* repetition, and what is missing before a piece on screen is what the tab
\* dropped itself when a bubble, a message or an abort cut its text off: the
\* fence of openTransport, the baseline of attach and the reset before a
\* replay together see to it.
ShowsTheStream ==
    LET p == Shown(tab) IN
    /\ \A i, j \in DOMAIN p : i < j /\ p[i][1] = p[j][1] => p[i][2] < p[j][2]
    /\ \A e \in Range(p) : \A m \in 1..(e[2] - 1) : <<e[1], m>> \in Range(p) \cup tab.cut

\* A connection the server keeps open for a follower is fed by the record of
\* the session, and that record will still get events: nobody is left on
\* keepalives (begin and publish close the subscribers they let go).
FollowersAreFed ==
    \A c \in Conns :
        /\ conns[c].stage = "open" /\ conns[c].kind # "post" =>
              record # None /\ Live(record) /\ c \in subs[record]
        /\ \A t \in Turns : c \in subs[t] => record = t /\ Live(t)

\* A spinning tab is waiting for something that can still happen: a live
\* transport or the timer of the next attempt, never both and never neither.
SpinnerHasCause ==
    tab.sending => (tab.timer # (tab.live /\ current # None))

ReplaysAnother(t) ==
    /\ current # None /\ conns[current].wire # <<>>
    /\ LET f == Head(conns[current].wire) IN f.type = "resume" /\ f.turn # t

\* What of a turn is on screen, and what is once its timer has fired.
Of(t, s) == {e \in Range(Shown(s)) : e[1] = t}
Due(t, s) == Of(t, IF s.flush THEN Flushed(s) ELSE s)

\* What is due of a turn stays due or is cut off, what is on screen of it is
\* at most blank until the timer fires, and what comes late comes after it.
Keeps(t) ==
    /\ Due(t, tab) \subseteq Due(t, tab') \cup tab'.cut
    /\ tab'.sending => Of(t, tab) \subseteq Due(t, tab')
    /\ \A e \in Of(t, tab), f \in Due(t, tab') \ Due(t, tab) : e[2] < f[2] \/ f \in tab.cut

\* While the tab waits for a reply, what is on screen of a turn is taken back
\* only by the replay of another turn, never by a replay of its own: the
\* baseline is never behind what a connection has delivered.
NothingTakenBack ==
    [][tab.sending => \A t \in Turns : Keeps(t) \/ ReplaysAnother(t)]_tab

\* The spinner ends: with the turn, with the record, or with the attempts.
SpinnerEnds == []<>~tab.sending
============================================================================
