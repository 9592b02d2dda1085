------------------------------ MODULE Monitor ------------------------------
(***************************************************************************)
(* Live supervision of one running attempt, in both directions: the exam   *)
(* page reports what it observes, keeping what it cannot send in a queue   *)
(* that survives the page (proctor.js), each event becomes a row           *)
(* (proctoring.log_event), the rows are pushed to a proctor's browser      *)
(* (admin.proctor_alerts_stream), and what the proctor writes back is      *)
(* handed out by the page's heartbeat (student.heartbeat).                 *)
(*                                                                         *)
(* Every event of the model is one that alerts.  A row gets its id when it *)
(* is flushed and is visible when it is committed, in any order, as on     *)
(* PostgreSQL and MySQL; SQLite has one writer at a time and is the case   *)
(* in which no two rows are open together.                                 *)
(***************************************************************************)
EXTENDS Naturals, Sequences, FiniteSets, FiniteSetsExt

CONSTANTS
    Event,      \* what the page observes
    Message,    \* what the proctor writes
    MaxBeats,   \* bound: heartbeats that are on their way together
    MaxLost,    \* bound: requests, answers and commits that fail
    MaxBreaks,  \* bound: streams that break, pages that are left or reloaded
    MaxRows     \* bound: rows

ASSUME BoundAssumption == MaxBeats \in Nat /\ MaxLost \in Nat /\ MaxBreaks \in Nat /\ MaxRows \in Nat

VARIABLES
    attempt,  \* its status
    event,    \* where the page has got to with each event
    log,      \* proctoring_events by id
    online,   \* isOnline of the exam page
    message,  \* the row of each proctor_messages
    beat,     \* each heartbeat, and the messages it carries
    stream,   \* the proctor's EventSource: open?, last_id, Last-Event-ID
    ghost     \* what the properties remember; no code reads it

Beat == 1 .. MaxBeats

monitorVars == <<attempt, event, log, online, message, beat, stream, ghost>>

(* An event is unseen, on its way, filed once its row is flushed, and done *)
(* when its answer is here; or queued, then taken out of the queue by a    *)
(* flush; a page that goes away leaves it lost.                            *)
EventState == {"unseen", "posted", "filed", "done", "queued", "taken", "lost"}
Row == [of : Event, state : {"open", "kept", "gone"}]
Idle == [at |-> "idle", carries |-> {}, page |-> TRUE]
BeatState == [at : {"idle", "loaded", "answer"}, carries : SUBSET Message, page : BOOLEAN]

(* ghost: shown counts the pushes of each row, read and unread the         *)
(* answers with each message that reached the page and those that did not, *)
(* resent the times an event was sent again; twice are messages that two   *)
(* heartbeats carry, late the rows committed behind the stream, and before *)
(* those a stream without a Last-Event-ID has passed over.                 *)
MonitorTypeOK ==
    /\ attempt \in {"in_progress", "ended"}
    /\ event \in [Event -> EventState]
    /\ log \in Seq(Row)
    /\ online \in BOOLEAN
    /\ message \in [Message -> {"none", "pending", "delivered"}]
    /\ beat \in [Beat -> BeatState]
    /\ stream \in [open : BOOLEAN, cursor : Nat, last : Nat]
    /\ ghost \in [lost : 0 .. MaxLost, breaks : 0 .. MaxBreaks, shown : Seq(Nat),
                  read : [Message -> Nat], unread : [Message -> Nat],
                  resent : [Event -> Nat], twice : SUBSET Message,
                  late : SUBSET Nat, before : SUBSET Nat]

MonitorInit ==
    /\ attempt = "in_progress"
    /\ event = [e \in Event |-> "unseen"] /\ log = <<>> /\ online = TRUE
    /\ message = [m \in Message |-> "none"]
    /\ beat = [h \in Beat |-> Idle]
    /\ stream = [open |-> FALSE, cursor |-> 0, last |-> 0]
    /\ ghost = [lost |-> 0, breaks |-> 0, shown |-> <<>>,
                read |-> [m \in Message |-> 0], unread |-> [m \in Message |-> 0],
                resent |-> [e \in Event |-> 0], twice |-> {}, late |-> {}, before |-> {}]

Running == attempt = "in_progress"
Fails == ghost.lost < MaxLost
Breaks == ghost.breaks < MaxBreaks
Failed(g) == [g EXCEPT !.lost = @ + 1]
Broken(g) == [g EXCEPT !.breaks = @ + 1]

----------------------------------------------------------------------------
(* The page reports.                                                       *)

(* reportEvent, when something is seen or an event of a flush has its turn.*)
Report(e) ==
    /\ event[e] = "taken" \/ (event[e] = "unseen" /\ Running)
    /\ event' = [event EXCEPT ![e] = "posted"]
    /\ UNCHANGED <<attempt, log, online, message, beat, stream, ghost>>

(* log_event: the row is flushed, and has its id.                          *)
File(e) ==
    /\ event[e] = "posted" /\ Running /\ Len(log) < MaxRows
    /\ event' = [event EXCEPT ![e] = "filed"]
    /\ log' = Append(log, [of |-> e, state |-> "open"])
    /\ ghost' = [ghost EXCEPT !.shown = Append(@, 0)]
    /\ UNCHANGED <<attempt, online, message, beat, stream>>

(* An attempt that has ended records nothing more; the answer says ok.     *)
FileNothing(e) ==
    /\ event[e] = "posted" /\ ~Running
    /\ event' = [event EXCEPT ![e] = "done"]
    /\ UNCHANGED <<attempt, log, online, message, beat, stream, ghost>>

(* How far the proctor's browser has got.                                  *)
Position == IF stream.open THEN stream.cursor ELSE stream.last

Commit(i) ==
    /\ log[i].state = "open"
    /\ log' = [log EXCEPT ![i].state = "kept"]
    /\ ghost' = IF i < Position THEN [ghost EXCEPT !.late = @ \cup {i}] ELSE ghost
    /\ UNCHANGED <<attempt, event, online, message, beat, stream>>

(* A commit that fails, or a worker that dies: the id is never used.       *)
Abort(i) ==
    /\ log[i].state = "open" /\ Fails
    /\ log' = [log EXCEPT ![i].state = "gone"]
    /\ ghost' = Failed(ghost)
    /\ UNCHANGED <<attempt, event, online, message, beat, stream>>

RowOf(e) == Max({i \in DOMAIN log : log[i].of = e})

(* Mutant: an error page is an answer.                                     *)
AnsweredAnyhow(e) ==
    /\ event[e] = "filed" /\ log[RowOf(e)].state # "open"
    /\ event' = [event EXCEPT ![e] = "done"]
    /\ UNCHANGED <<attempt, log, online, message, beat, stream, ghost>>

Answered(e) ==
    /\ event[e] = "filed" /\ log[RowOf(e)].state = "kept"
    /\ event' = [event EXCEPT ![e] = "done"]
    /\ UNCHANGED <<attempt, log, online, message, beat, stream, ghost>>

(* reportEvent's catch: no answer, or one that is no JSON, queues it again.*)
(* An outage that is under way is one loss, whatever it takes with it.     *)
Unanswered(e) ==
    /\ \/ event[e] \in {"posted", "filed"} /\ online /\ Fails
          /\ ghost' = [Failed(ghost) EXCEPT !.resent[e] = @ + 1]
       \/ event[e] \in {"posted", "filed"} /\ ~online
          /\ ghost' = [ghost EXCEPT !.resent[e] = @ + 1]
       \/ event[e] = "filed" /\ log[RowOf(e)].state = "gone" /\ UNCHANGED ghost
    /\ event' = [event EXCEPT ![e] = "queued"]
    /\ UNCHANGED <<attempt, log, online, message, beat, stream>>

(* Mutant: the queue stays stored until it has been sent.                  *)
NothingTaken(ev) == ev

(* flushPendingEvents: the stored queue is emptied, then sent one by one.  *)
Flushed(ev) == [e \in Event |-> IF ev[e] = "queued" THEN "taken" ELSE ev[e]]

(* The page is loaded again: what it had taken or sent is forgotten, what  *)
(* is queued is flushed, and answers still to come find nobody.            *)
Reload ==
    /\ Running /\ Breaks
    /\ event' = [e \in Event |->
                    IF event[e] \in {"taken", "posted", "filed"} THEN "lost"
                    ELSE IF event[e] = "queued" THEN "taken" ELSE event[e]]
    /\ online' = TRUE
    /\ beat' = [h \in Beat |-> [beat[h] EXCEPT !.page = beat[h].at = "idle"]]
    /\ ghost' = Broken(ghost)
    /\ UNCHANGED <<attempt, log, message, stream>>

----------------------------------------------------------------------------
(* The proctor writes, the heartbeat hands out.                            *)

(* send_proctor_message, to a running attempt.                             *)
Write(m) ==
    /\ message[m] = "none" /\ Running
    /\ message' = [message EXCEPT ![m] = "pending"]
    /\ UNCHANGED <<attempt, event, log, online, beat, stream, ghost>>

(* handleOnline: after an outage the queue is flushed.                     *)
BackOnline ==
    /\ online' = TRUE
    /\ event' = IF online THEN event ELSE Flushed(event)

Unheard == {m \in Message : message[m] = "pending"}

(* heartbeat, with nothing to hand out: it only shows that the page is     *)
(* connected.                                                              *)
EmptyBeat ==
    /\ Unheard = {} /\ Running /\ ~online
    /\ BackOnline
    /\ UNCHANGED <<attempt, log, message, beat, stream, ghost>>

(* heartbeat, to the query; also pinged by the online and offline events.  *)
LoadBeat(h) ==
    /\ beat[h].at = "idle" /\ (\A k \in 1 .. h - 1 : beat[k].at # "idle") /\ Running /\ Unheard # {}
    /\ beat' = [beat EXCEPT ![h] = [at |-> "loaded", carries |-> Unheard, page |-> TRUE]]
    /\ UNCHANGED <<attempt, event, log, online, message, stream, ghost>>

(* Mutant: what is handed out is not marked.                               *)
NotMarked(carried) == message

Marked(carried) ==
    [m \in Message |-> IF m \in carried THEN "delivered" ELSE message[m]]

CommitBeat(h) ==
    /\ beat[h].at = "loaded"
    /\ beat' = [beat EXCEPT ![h].at = "answer"]
    /\ message' = Marked(beat[h].carries)
    /\ ghost' = [ghost EXCEPT !.twice = @ \cup
                    {m \in beat[h].carries : message[m] = "delivered"}]
    /\ UNCHANGED <<attempt, event, log, online, stream>>

CountIn(count, set) == [m \in Message |-> IF m \in set THEN count[m] + 1 ELSE count[m]]

(* showProctorMessages.                                                    *)
BeatAnswered(h) ==
    /\ beat[h].at = "answer" /\ beat[h].page
    /\ beat' = [beat EXCEPT ![h] = Idle]
    /\ BackOnline
    /\ ghost' = [ghost EXCEPT !.read = CountIn(@, beat[h].carries)]
    /\ UNCHANGED <<attempt, log, message, stream>>

(* The answer is lost or late (HEARTBEAT_TIMEOUT_MS), or its page is gone. *)
BeatUnanswered(h) ==
    /\ beat[h].at = "answer"
    /\ \/ beat[h].page /\ Fails /\ online' = FALSE
          /\ ghost' = [Failed(ghost) EXCEPT !.unread = CountIn(@, beat[h].carries)]
       \/ ~beat[h].page /\ UNCHANGED online
          /\ ghost' = [ghost EXCEPT !.unread = CountIn(@, beat[h].carries)]
    /\ beat' = [beat EXCEPT ![h] = Idle]
    /\ UNCHANGED <<attempt, event, log, message, stream>>

(* A heartbeat that does not get through at all: handleOffline.            *)
NoConnection ==
    /\ online /\ Running /\ Fails
    /\ online' = FALSE
    /\ ghost' = Failed(ghost)
    /\ UNCHANGED <<attempt, event, log, message, beat, stream>>

----------------------------------------------------------------------------
(* The alerts are pushed.                                                  *)

Kept == {i \in DOMAIN log : log[i].state = "kept"}

(* Mutant: a new connection starts at the newest event.                    *)
StartAtEnd(last) == IF Kept = {} THEN 0 ELSE Max(Kept)

(* A connection goes on from the Last-Event-ID; without one it starts at   *)
(* the newest event.  An attempt that has ended alerts nobody: its stream  *)
(* is not followed further.                                                *)
StartAt(last) == IF last # 0 THEN last ELSE IF Kept = {} THEN 0 ELSE Max(Kept)

Connect ==
    /\ ~stream.open /\ Running
    /\ stream' = [stream EXCEPT !.open = TRUE, !.cursor = StartAt(stream.last)]
    /\ ghost' = IF stream.last = 0
                THEN [ghost EXCEPT !.before = @ \cup (1 .. stream'.cursor)] ELSE ghost
    /\ UNCHANGED <<attempt, event, log, online, message, beat>>

(* get_live_alerts_since: only an attempt that is in progress alerts.      *)
Alerts(last) == IF Running THEN {i \in Kept : i > last} ELSE {}

Pushed(ids) == [i \in DOMAIN ghost.shown |->
                    IF i \in ids THEN ghost.shown[i] + 1 ELSE ghost.shown[i]]

(* One poll: the browser gets what was found, in the order of the ids, and *)
(* all of it unless the stream breaks on the way.                          *)
Poll ==
    LET found == Alerts(stream.cursor) IN
    /\ stream.open /\ found # {}
    /\ stream' = [open |-> TRUE, cursor |-> Max(found), last |-> Max(found)]
    /\ ghost' = [ghost EXCEPT !.shown = Pushed(found)]
    /\ UNCHANGED <<attempt, event, log, online, message, beat>>

PollBreaks(reached) ==
    LET got == {i \in Alerts(stream.cursor) : i <= reached} IN
    /\ stream.open /\ reached \in Alerts(stream.cursor) /\ Breaks
    /\ stream' = [stream EXCEPT !.open = FALSE, !.last = reached]
    /\ ghost' = [Broken(ghost) EXCEPT !.shown = Pushed(got)]
    /\ UNCHANGED <<attempt, event, log, online, message, beat>>

(* PROCTOR_ALERT_STREAM_SECONDS are over, or the proctor opens another     *)
(* page of the site, which starts without a Last-Event-ID.                 *)
Disconnect ==
    /\ stream.open /\ Breaks /\ Running
    /\ stream' \in {[stream EXCEPT !.open = FALSE], [stream EXCEPT !.open = FALSE, !.last = 0]}
    /\ ghost' = Broken(ghost)
    /\ UNCHANGED <<attempt, event, log, online, message, beat>>

End ==
    /\ Running
    /\ attempt' = "ended"
    /\ UNCHANGED <<event, log, online, message, beat, stream, ghost>>

PageStep(e) == Report(e) \/ File(e) \/ FileNothing(e) \/ Answered(e) \/ Unanswered(e)
RowStep(i) == Commit(i) \/ Abort(i)
BeatStep(h) == LoadBeat(h) \/ CommitBeat(h) \/ BeatAnswered(h) \/ BeatUnanswered(h)

MonitorNext ==
    \/ \E e \in Event : PageStep(e)
    \/ \E i \in DOMAIN log : RowStep(i) \/ PollBreaks(i)
    \/ \E m \in Message : Write(m)
    \/ \E h \in Beat : BeatStep(h)
    \/ Reload \/ EmptyBeat \/ NoConnection \/ Connect \/ Poll \/ Disconnect \/ End

(* The page arms its next heartbeat after every one, and a request that    *)
(* has reached the server is worked on and answered.                       *)
Fairness ==
    /\ WF_monitorVars(\E h \in Beat : LoadBeat(h)) /\ WF_monitorVars(\E h \in Beat : CommitBeat(h))
    /\ WF_monitorVars(\E h \in Beat : BeatAnswered(h) \/ (BeatUnanswered(h) /\ ~beat[h].page))
    /\ WF_monitorVars(EmptyBeat)

MonitorSpec == MonitorInit /\ [][MonitorNext]_monitorVars /\ Fairness

----------------------------------------------------------------------------

(* proctor_alerts_stream promises that "a reconnect never re-delivers or   *)
(* skips an alert".  No row is pushed twice.  A row of the running attempt *)
(* that is behind the stream has been pushed, except one that a connection *)
(* without a Last-Event-ID has passed over (the first one of a page, and   *)
(* any one of a page that has not yet had an alert), and, where commits    *)
(* are not in the order of the ids, one that was committed too late.       *)
AlertsResume ==
    /\ \A i \in DOMAIN log : ghost.shown[i] <= 1
    /\ \A i \in Kept : i <= Position /\ Running =>
           ghost.shown[i] = 1 \/ i \in ghost.before \/ i \in ghost.late

(* ProctorMessage promises "each message show exactly once": one that is   *)
(* marked was shown or is on its way, unless the answer that carried it    *)
(* did not reach the page; and only one that two heartbeats have loaded    *)
(* before either had marked it is shown again.                             *)
MessagesShowOnce ==
    \A m \in Message :
        /\ message[m] = "delivered" =>
               \/ ghost.read[m] > 0 \/ ghost.unread[m] > 0
               \/ \E h \in Beat : m \in beat[h].carries
        /\ ghost.read[m] > 1 => m \in ghost.twice

(* An event that the page has seen is recorded once.  It is recorded again *)
(* only when an answer had been lost, and it is missing only when the page *)
(* went away with it or the attempt ended first.                           *)
EventsCountedOnce ==
    \A e \in Event :
        LET kept == Cardinality({i \in Kept : log[i].of = e}) IN
        /\ kept <= 1 + ghost.resent[e]
        /\ event[e] = "done" /\ Running => kept >= 1

Queued == {e \in Event : event[e] = "queued"}

(* Under a fair page: a message that waits is handed out, and what is      *)
(* queued in an outage is sent once it is over, while the attempt runs.    *)
AllGetsThrough ==
    /\ \A m \in Message : message[m] = "pending" ~> message[m] = "delivered" \/ ~Running
    /\ Queued # {} /\ ~online ~> Queued = {} \/ ~Running
=============================================================================
