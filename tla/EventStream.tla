----------------------------- MODULE EventStream -----------------------------
(***************************************************************************)
(* The evidence stream of one run: eventStream of httpapi/handler.go, the  *)
(* batches of eventsAfter (postgres/repository.go), and the run page that  *)
(* loads the ledger and then follows it with a native EventSource          *)
(* (apps/web/src/components/product-pages.tsx).                            *)
(*                                                                         *)
(* A run's events are numbered 1, 2, ... in the order in which they are    *)
(* committed (LedgerConsistent of module RunEvidence), so the table is its *)
(* length.  Runs are terminal from their creation, so run.complete is      *)
(* always sent at the end of the replay.  Heartbeats are left out: the     *)
(* browser ignores them.                                                   *)
(***************************************************************************)
EXTENDS Naturals, Sequences, FiniteSets

CONSTANTS
    MaxEvents,    \* bound: events the run ever has
    BatchSize,    \* rows of one eventsAfter query, 100 in the code
    MaxFailures   \* bound: database errors and lost connections

ASSUME StreamConstants ==
    /\ MaxEvents \in Nat /\ MaxFailures \in Nat
    /\ BatchSize \in Nat \ {0}

VARIABLES
    stored,        \* events in run_events
    handler,       \* where the stream handler stands, "none" without one
    cursor,        \* its lastSequence
    batch,         \* the batch it read: the first and last event and the high water
    completeSent,  \* its completeSent
    opened,        \* history: the events stored when it read its first batch
    wire,          \* the frames written and not yet received
    source,        \* external: the browser's EventSource, and the page before it has one
    lastId,        \* the EventSource's last event ID
    shown,         \* the persisted events in the page's ledger, by sequence number
    streamState,   \* what the page says of the stream
    failures       \* failures so far

server == <<handler, cursor, batch, completeSent, opened>>
page == <<source, lastId, shown, streamState>>
vars == <<stored, server, wire, page, failures>>

Event(n) == [kind |-> "event", seq |-> n]
Frame(kind) == [kind |-> kind, seq |-> 0]
Frames == [kind : {"event", "open", "complete", "error"}, seq : 0..MaxEvents]
Upto(a, b) == [i \in 1..(b - a) |-> Event(a + i)]

TypeOK ==
    /\ stored \in 0..MaxEvents
    /\ handler \in {"none", "opening", "reading", "writing", "complete", "idle"}
    /\ cursor \in 0..MaxEvents
    /\ batch \in [after : 0..MaxEvents, last : 0..MaxEvents, highWater : 0..MaxEvents]
    /\ completeSent \in BOOLEAN
    /\ opened \in 0..MaxEvents
    /\ wire \in Seq(Frames)
    /\ source \in {"loading", "seeded", "connecting", "open", "closed"}
    /\ lastId \in 0..MaxEvents
    /\ shown \subseteq 1..MaxEvents
    /\ streamState \in {"connecting", "live", "reconnecting"}
    /\ failures \in 0..MaxFailures
    /\ handler # "none" => source \in {"connecting", "open"}

NoBatch == [after |-> 0, last |-> 0, highWater |-> 0]

Init ==
    /\ stored \in 1..MaxEvents
    /\ handler = "none" /\ cursor = 0 /\ batch = NoBatch
    /\ completeSent = FALSE /\ opened = 0
    /\ wire = <<>>
    /\ source = "loading" /\ lastId = 0 /\ shown = {} /\ streamState = "connecting"
    /\ failures = 0

-----------------------------------------------------------------------------
(* The ledger and the page.                                                 *)

\* ProcessStripeWebhook commits one more event (module RunEvidence).
AppendEvent ==
    /\ stored < MaxEvents
    /\ stored' = stored + 1
    /\ UNCHANGED <<server, wire, page, failures>>

\* The page loads the run and its events as JSON, and then opens an EventSource.
Load ==
    /\ source = "loading"
    /\ shown' = 1..stored
    /\ source' = "connecting" /\ streamState' = "connecting"
    /\ UNCHANGED <<stored, server, wire, lastId, failures>>

\* The run cannot be loaded: the page shows seeded evidence and follows nothing.
LoadFails ==
    /\ source = "loading"
    /\ source' = "seeded"
    /\ UNCHANGED <<stored, server, wire, lastId, shown, streamState, failures>>

ConnectFromStart ==
    /\ source = "connecting" /\ handler = "none" /\ wire = <<>>
    /\ handler' = "opening" /\ cursor' = 0
    /\ completeSent' = FALSE
    /\ UNCHANGED <<stored, batch, opened, wire, page, failures>>

\* A request with Last-Event-ID, at first and again after every loss.
Connect ==
    /\ source = "connecting" /\ handler = "none" /\ wire = <<>>
    /\ handler' = "opening" /\ cursor' = lastId
    /\ completeSent' = FALSE
    /\ UNCHANGED <<stored, batch, opened, wire, page, failures>>

(* The page receives a frame.  The open stream sets the state, an event is  *)
(* added unless it is there, and the page listens to no other frame.        *)
Deliver ==
    /\ wire # <<>>
    /\ wire' = Tail(wire)
    /\ LET frame == Head(wire) IN
       \/ /\ frame.kind = "open"
          /\ source' = "open" /\ streamState' = "live"
          /\ UNCHANGED <<lastId, shown>>
       \/ /\ frame.kind = "event"
          /\ lastId' = frame.seq /\ shown' = shown \cup {frame.seq}
          /\ UNCHANGED <<source, streamState>>
       \/ /\ frame.kind \in {"complete", "error"}
          /\ UNCHANGED page
    /\ UNCHANGED <<stored, server, failures>>

\* The EventSource has lost its connection: it says so and will try again.
Reconnecting == source' = "connecting" /\ streamState' = "reconnecting" /\ UNCHANGED <<lastId, shown>>

\* The handler has returned and everything it wrote is received.
EndOfStream ==
    /\ source = "open" /\ handler = "none" /\ wire = <<>>
    /\ Reconnecting
    /\ UNCHANGED <<stored, server, wire, failures>>

-----------------------------------------------------------------------------
(* The handler.                                                             *)

\* eventsAfter: the rows after the cursor, and the highest sequence number.
Batch ==
    [after |-> cursor, highWater |-> stored,
     last |-> IF stored < cursor + BatchSize THEN stored ELSE cursor + BatchSize]

ReadWithoutPolling ==
    /\ handler \in {"opening", "reading"}
    /\ batch' = Batch
    /\ handler' = "writing"
    /\ opened' = IF handler = "opening" THEN stored ELSE opened
    /\ wire' = IF handler = "opening" THEN <<Frame("open")>> ELSE wire
    /\ UNCHANGED <<stored, cursor, completeSent, page, failures>>

(* The first batch is read before the response starts, the others by the    *)
(* loops and the poll ticks.  The handler also refuses a cursor beyond the  *)
(* high water, which a browser never sends: LedgerPrefix bounds its cursor. *)
Read ==
    /\ handler \in {"opening", "reading", "idle"}
    /\ batch' = Batch
    /\ handler' = "writing"
    /\ opened' = IF handler = "opening" THEN stored ELSE opened
    /\ wire' = IF handler = "opening" THEN <<Frame("open")>> ELSE wire
    /\ UNCHANGED <<stored, cursor, completeSent, page, failures>>

WriteToHighWater ==
    /\ handler = "writing"
    /\ wire' = wire \o Upto(batch.after, batch.last)
    /\ cursor' = batch.highWater
    /\ handler' = IF batch.last - batch.after = BatchSize THEN "reading"
                  ELSE IF completeSent THEN "idle" ELSE "complete"
    /\ UNCHANGED <<stored, batch, completeSent, opened, page, failures>>

WriteOneBatch ==
    /\ handler = "writing"
    /\ wire' = wire \o Upto(batch.after, batch.last)
    /\ cursor' = batch.last
    /\ handler' = IF completeSent THEN "idle" ELSE "complete"
    /\ UNCHANGED <<stored, batch, completeSent, opened, page, failures>>

(* writeEventBatch and the flush.  A full batch may not be the last: it is  *)
(* followed by another read, at once.                                       *)
WriteBatch ==
    /\ handler = "writing"
    /\ wire' = wire \o Upto(batch.after, batch.last)
    /\ cursor' = batch.last
    /\ handler' = IF batch.last - batch.after = BatchSize THEN "reading"
                  ELSE IF completeSent THEN "idle" ELSE "complete"
    /\ UNCHANGED <<stored, batch, completeSent, opened, page, failures>>

SendComplete ==
    /\ handler = "complete"
    /\ wire' = Append(wire, Frame("complete"))
    /\ completeSent' = TRUE
    /\ handler' = "idle"
    /\ UNCHANGED <<stored, cursor, batch, opened, page, failures>>

-----------------------------------------------------------------------------
(* What goes wrong.                                                         *)

Fails == failures < MaxFailures /\ failures' = failures + 1

OpenFailsWithoutReturn ==
    /\ handler = "opening"
    /\ Fails
    /\ handler' = "writing"
    /\ source' = "closed" /\ streamState' = "reconnecting"
    /\ UNCHANGED <<stored, cursor, batch, completeSent, opened, wire, lastId, shown>>

(* The first read fails, or the session is no longer valid: an error status *)
(* and no stream.  An EventSource gives up for good on any status but 200,  *)
(* and onerror is called as for a lost connection.                          *)
OpenFails ==
    /\ handler = "opening"
    /\ Fails
    /\ handler' = "none"
    /\ source' = "closed" /\ streamState' = "reconnecting"
    /\ UNCHANGED <<stored, cursor, batch, completeSent, opened, wire, lastId, shown>>

\* A later read fails: stream.error, and the handler returns.
ReadFails ==
    /\ handler \in {"reading", "idle"}
    /\ Fails
    /\ wire' = Append(wire, Frame("error"))
    /\ handler' = "none"
    /\ UNCHANGED <<stored, cursor, batch, completeSent, opened, page>>

(* The connection breaks, a write times out or the API process ends: what   *)
(* is on the wire is lost, and the handler returns.                         *)
Drop ==
    /\ handler # "none" \/ wire # <<>>
    /\ Fails
    /\ handler' = "none" /\ wire' = <<>>
    /\ Reconnecting
    /\ UNCHANGED <<stored, cursor, batch, completeSent, opened>>

-----------------------------------------------------------------------------
Handler == Read \/ WriteBatch \/ SendComplete
Page == Load \/ Connect \/ Deliver \/ EndOfStream
Failure == LoadFails \/ OpenFails \/ ReadFails \/ Drop

Next == AppendEvent \/ Handler \/ Page \/ Failure

Spec == Init /\ [][Next]_vars

(* The handler's ticker and the browser's retry timer keep firing, and the  *)
(* network delivers what it does not lose.  No evidence need arrive.        *)
FairSpec == Spec /\ WF_vars(Handler) /\ WF_vars(Load \/ Connect) /\ WF_vars(Deliver \/ EndOfStream)
-----------------------------------------------------------------------------
EventFrames == {i \in DOMAIN wire : wire[i].kind = "event"}

(* The event frames on the wire are, in order, those from the browser's     *)
(* last event ID to the handler's cursor: a reconnect neither replays an    *)
(* acknowledged event nor skips one (packages/contracts/openapi.yaml).      *)
ResumesExactly ==
    handler # "none" \/ wire # <<>> =>
        /\ lastId <= cursor
        /\ {wire[i].seq : i \in EventFrames} = (lastId + 1)..cursor
        /\ \A i, j \in EventFrames : i < j => wire[i].seq < wire[j].seq

(* The page's ledger has no gap and nothing that is not stored, whatever    *)
(* was loaded, replayed, lost and replayed again.                           *)
LedgerPrefix ==
    /\ shown = 1..Cardinality(shown) /\ Cardinality(shown) <= stored
    /\ lastId <= stored

(* run.complete follows all the evidence that was stored when the stream    *)
(* was opened: what the page has not received is on the wire before it.  A  *)
(* connection carries run.complete at most once.                            *)
CompleteAfterReplay ==
    \A i \in DOMAIN wire : wire[i].kind = "complete" =>
        /\ \A n \in (lastId + 1)..opened : \E k \in EventFrames : k < i /\ wire[k].seq = n
        /\ \A j \in DOMAIN wire : wire[j].kind = "complete" => i = j

(* Every stored event is shown by a page that follows the run, although     *)
(* connections break and reads fail, unless an error status closes its      *)
(* EventSource.                                                             *)
EveryEventShown ==
    \A n \in 1..MaxEvents :
        stored >= n ~> n \in shown \/ source \in {"seeded", "closed"}

(* docs/STATE.md: honest connecting/live/reconnecting status.  A page that  *)
(* says it is reconnecting has an EventSource that will.                    *)
HonestStatus == streamState = "reconnecting" => source # "closed"
=============================================================================
