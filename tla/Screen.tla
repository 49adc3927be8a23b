------------------------------- MODULE Screen -------------------------------
(***************************************************************************)
(* The shared screen reader of one iOS device, internal/iosscreen/stream.go: *)
(* the pump of a stream holds a connection to the device's WebDriverAgent  *)
(* and publishes frames, viewers subscribe, wait for frames and leave, a  *)
(* timer stops the stream some time after the last viewer left, and a new  *)
(* or lost endpoint stops it at once.  Stopping is two things: the stream  *)
(* is marked closed, and the context of its pump is canceled, which ends   *)
(* the pump when it next looks.                                            *)
(*                                                                         *)
(* Controller.mu guards the map of streams, stream.mu each stream; both    *)
(* appear where a step holds one across another step.  sync.Cond queues a  *)
(* waiter before it unlocks, and the broadcast for a canceled context is   *)
(* made without the lock.  Streams nobody refers to are garbage, and their *)
(* numbers are used again.                                                 *)
(***************************************************************************)
EXTENDS Integers, FiniteSets

CONSTANTS
    Viewers,        \* requests that watch the device's screen
    MaxStreams,     \* bound on the streams somebody refers to
    MaxFired        \* bound on the idle callbacks of a stream under way

ASSUME ScreenAssumption ==
    /\ IsFiniteSet(Viewers)
    /\ MaxStreams \in Nat
    /\ MaxFired \in Nat \ {0}

VARIABLES
    listed,         \* c.streams[id]
    stream,         \* stream[k]: the k-th stream
    viewer          \* viewer[v]: the request v and its Sub

vars == <<listed, stream, viewer>>

None == 0
Streams == 1..MaxStreams

\* pump: its goroutine reads the device ("on"), and may still do so when it has
\* been canceled; idle: the field s.idle is set; armed: that timer has not fired
\* yet; fired, closing and leaving: callbacks that have to take s.mu, to cancel
\* the pump of the stream they closed, and to take c.mu to leave the map.
NewStream == [st |-> "open", pump |-> "on", refs |-> 0, idle |-> FALSE, armed |-> FALSE,
              fired |-> 0, closing |-> 0, leaving |-> 0]
Away == [pc |-> "out", s |-> None, fresh |-> FALSE, gone |-> FALSE]
Leaving == [Away EXCEPT !.pc = "leave"]

\* fresh: the stream has a frame newer than the viewer's last; gone: the context
\* of Next has ended.
TypeOK ==
    /\ listed \in Streams \cup {None}
    /\ stream \in [Streams -> [st : {"open", "failing", "closed"},
                               pump : {"on", "canceled", "off"},
                               refs : (-Cardinality(Viewers))..Cardinality(Viewers),
                               idle : BOOLEAN, armed : BOOLEAN, fired : 0..MaxFired,
                               closing : 0..MaxFired, leaving : 0..MaxFired]]
    /\ viewer \in [Viewers -> [pc : {"out", "join", "next", "checked", "wait",
                                     "leave"},
                               s : Streams \cup {None}, fresh : BOOLEAN,
                               gone : BOOLEAN]]

Init ==
    /\ listed = None
    /\ stream = [k \in Streams |-> [NewStream EXCEPT !.st = "closed", !.pump = "off"]]
    /\ viewer = [v \in Viewers |-> Away]

\* c.mu is held from the lookup in Subscribe to its end, s.mu by a viewer that
\* has found nothing new until it is queued on the condition.
MapFree == \A v \in Viewers : viewer[v].pc # "join"
Free(k) == \A v \in Viewers : ~(viewer[v].pc = "checked" /\ viewer[v].s = k)

Joined(v) == viewer[v].pc \in {"next", "checked", "wait"}
Watched(k) == \E v \in Viewers : Joined(v) /\ viewer[v].s = k
Open(k) == stream[k].st # "closed"
Reads(k) == stream[k].pump = "on"
Found == \E k \in Streams : listed = k /\ Open(k)
Unused(k) ==
    /\ ~Open(k)
    /\ stream[k].pump = "off"
    /\ listed # k
    /\ ~stream[k].armed
    /\ stream[k].fired = 0
    /\ stream[k].closing = 0
    /\ stream[k].leaving = 0
    /\ \A v \in Viewers : viewer[v].s # k

\* The viewers after cond.Broadcast on stream k.
Broadcast(k) ==
    [v \in Viewers |-> IF viewer[v].pc = "wait" /\ viewer[v].s = k
                       THEN [viewer[v] EXCEPT !.pc = "next"] ELSE viewer[v]]

-----------------------------------------------------------------------------
(* A viewer: Subscribe, Next and Close                                     *)

\* The listed stream, or a new one with a pump of its own if there is none or it
\* is closed, whether the pump of that one has been stopped yet or not.
Subscribe(v) ==
    /\ viewer[v].pc = "out"
    /\ MapFree
    /\ Free(listed)
    /\ \/ /\ Found
          /\ viewer' = [viewer EXCEPT ![v].pc = "join", ![v].s = listed]
          /\ UNCHANGED <<listed, stream>>
       \/ /\ ~Found
          /\ \E k \in Streams :
                /\ Unused(k)
                /\ \A j \in Streams : Unused(j) => k <= j
                /\ stream' = [stream EXCEPT ![k] = NewStream]
                /\ listed' = k
                /\ viewer' = [viewer EXCEPT ![v].pc = "join", ![v].s = k]

\* Variant: the timer is stopped but the field keeps it.
Join_KeepsIdle(v) ==
    LET k == viewer[v].s
    IN  /\ viewer[v].pc = "join"
        /\ Free(k)
        /\ stream' = [stream EXCEPT ![k].refs = @ + 1, ![k].armed = FALSE]
        /\ \E seen \in BOOLEAN :
              viewer' = [viewer EXCEPT ![v].pc = "next", ![v].fresh = seen]
        /\ UNCHANGED listed

\* The stream may have been closed since it was found.
Join(v) ==
    LET k == viewer[v].s
    IN  /\ viewer[v].pc = "join"
        /\ Free(k)
        /\ stream' = [stream EXCEPT ![k].refs = @ + 1, ![k].idle = FALSE, ![k].armed = FALSE]
        /\ \E seen \in BOOLEAN :
              viewer' = [viewer EXCEPT ![v].pc = "next", ![v].fresh = seen]
        /\ UNCHANGED listed

\* One round of the loop of Next that finds no frame, up to the wait.
Look(v) ==
    LET w == viewer[v]
    IN  /\ w.pc = "next"
        /\ ~w.fresh
        /\ Free(w.s)
        /\ viewer' = [viewer EXCEPT ![v] =
              IF w.gone \/ stream[w.s].st # "open" THEN Leaving
              ELSE [w EXCEPT !.pc = "checked"]]
        /\ UNCHANGED <<listed, stream>>

Sleep(v) ==
    /\ viewer[v].pc = "checked"
    /\ viewer' = [viewer EXCEPT ![v].pc = "wait"]
    /\ UNCHANGED <<listed, stream>>

\* Frame takes the frame there is and leaves.
Latest(v) ==
    /\ viewer[v].pc = "next"
    /\ Free(viewer[v].s)
    /\ viewer' = [viewer EXCEPT ![v] = Leaving]
    /\ UNCHANGED <<listed, stream>>

\* The frame is taken and written to the client, however slow it is; iosMJPEG asks
\* for the next one, Frame leaves.
Write(v) ==
    /\ viewer[v].pc = "next"
    /\ viewer[v].fresh
    /\ Free(viewer[v].s)
    /\ \/ viewer' = [viewer EXCEPT ![v].fresh = FALSE]
       \/ viewer' = [viewer EXCEPT ![v] = Leaving]
    /\ UNCHANGED <<listed, stream>>

\* The client disconnects, or Frame's 8 s are over; it takes no more frames.
Disconnect(v) ==
    /\ Joined(v)
    /\ ~viewer[v].gone
    /\ viewer' = [viewer EXCEPT ![v].gone = TRUE, ![v].fresh = FALSE]
    /\ UNCHANGED <<listed, stream>>

\* The function Next gave to context.AfterFunc broadcasts without the lock: it is
\* lost if the viewer is not waiting yet.
Tell(v) ==
    /\ viewer[v].gone
    /\ viewer[v].pc = "wait"
    /\ viewer' = Broadcast(viewer[v].s)
    /\ UNCHANGED <<listed, stream>>

\* Variant: the viewer is not uncounted.
Leave_Counted(v) ==
    /\ viewer[v].pc = "leave"
    /\ MapFree
    /\ Free(listed)
    /\ viewer' = [viewer EXCEPT ![v] = Away]
    /\ UNCHANGED <<listed, stream>>

\* Close: whatever stream is listed by now has one viewer less, and its timer
\* starts if that was the last.  (The code lets go of c.mu before it takes s.mu;
\* a stream stopped in between is a stream it left just before.)
Leave(v) ==
    LET k == listed
        last == stream[k].refs <= 1 /\ ~stream[k].idle
    IN  /\ viewer[v].pc = "leave"
        /\ MapFree
        /\ Free(k)
        /\ viewer' = [viewer EXCEPT ![v] = Away]
        /\ stream' = IF k = None THEN stream
                     ELSE [stream EXCEPT ![k].refs = @ - 1,
                                         ![k].idle = @ \/ last,
                                         ![k].armed = @ \/ last]
        /\ UNCHANGED listed

-----------------------------------------------------------------------------
(* The pump                                                                *)

\* What the pump reports does not open a closed stream again.
Report(k, st) == stream' = [stream EXCEPT ![k].st = IF @ = "closed" THEN @ ELSE st]

\* A frame that it has read when it is canceled is published, too.
Publish(k) ==
    /\ stream[k].pump # "off"
    /\ Free(k)
    /\ Report(k, "open")
    /\ viewer' = [v \in Viewers |-> IF Joined(v) /\ viewer[v].s = k
                                    THEN [Broadcast(k)[v] EXCEPT !.fresh = ~viewer[v].gone]
                                    ELSE viewer[v]]
    /\ UNCHANGED listed

\* Variant: nobody is told of the error.
Fail_Silent(k) ==
    /\ stream[k].pump # "off"
    /\ Free(k)
    /\ Report(k, "failing")
    /\ UNCHANGED <<listed, viewer>>

\* The connection broke, could not be made, or was silent for 10 s; the pump may
\* be canceled after it has looked and before it says so.
Fail(k) ==
    /\ stream[k].pump # "off"
    /\ Free(k)
    /\ Report(k, "failing")
    /\ viewer' = Broadcast(k)
    /\ UNCHANGED listed

\* It sees that its context is canceled, and closes the connection.
PumpEnds(k) ==
    /\ stream[k].pump = "canceled"
    /\ stream' = [stream EXCEPT ![k].pump = "off"]
    /\ UNCHANGED <<listed, viewer>>

-----------------------------------------------------------------------------
(* The end of a stream                                                     *)

Fire(k) ==
    /\ stream[k].armed
    /\ stream[k].fired + stream[k].closing + stream[k].leaving < MaxFired
    /\ stream' = [stream EXCEPT ![k].armed = FALSE, ![k].fired = @ + 1]
    /\ UNCHANGED <<listed, viewer>>

\* stopIfIdle, under s.mu: somebody came back, or the stream is closed.  Its
\* pump goes on until the next step.
StopIfIdle(k) ==
    /\ stream[k].fired > 0
    /\ Free(k)
    /\ IF stream[k].refs > 0
       THEN /\ stream' = [stream EXCEPT ![k].fired = @ - 1, ![k].idle = FALSE]
            /\ UNCHANGED viewer
       ELSE /\ stream' = [stream EXCEPT ![k].fired = @ - 1, ![k].st = "closed",
                                        ![k].closing = @ + 1]
            /\ viewer' = Broadcast(k)
    /\ UNCHANGED listed

\* stopIfIdle, without a lock: whatever happened since, this pump is canceled.
Cancel(k) ==
    /\ stream[k].closing > 0
    /\ stream' = [stream EXCEPT ![k].closing = @ - 1, ![k].leaving = @ + 1,
                                ![k].pump = IF @ = "on" THEN "canceled" ELSE @]
    /\ UNCHANGED <<listed, viewer>>

\* Variant: without looking at what is listed.
Unlist_Any(k) ==
    /\ stream[k].leaving > 0
    /\ MapFree
    /\ stream' = [stream EXCEPT ![k].leaving = @ - 1]
    /\ listed' = None
    /\ UNCHANGED viewer

\* stopIfIdle, under c.mu: another stream may have taken its place.
Unlist(k) ==
    /\ stream[k].leaving > 0
    /\ MapFree
    /\ stream' = [stream EXCEPT ![k].leaving = @ - 1, ![k].refs = 0, ![k].idle = FALSE]
    /\ listed' = IF listed = k THEN None ELSE listed
    /\ UNCHANGED viewer

\* The stream k, stopped: a callback of its own may have closed it before.
Stopped(k) == [stream[k] EXCEPT !.st = "closed", !.refs = 0, !.idle = FALSE, !.armed = FALSE,
                                !.pump = IF @ = "on" THEN "canceled" ELSE @]

\* Variant: the waiting viewers are not told.
StopStream_Silent ==
    /\ listed' = None
    /\ stream' = IF listed = None THEN stream ELSE [stream EXCEPT ![listed] = Stopped(listed)]
    /\ UNCHANGED viewer

\* Closed and canceled while c.mu is held, so no new stream comes in between.
StopStream ==
    /\ listed' = None
    /\ stream' = IF listed = None THEN stream ELSE [stream EXCEPT ![listed] = Stopped(listed)]
    /\ viewer' = Broadcast(listed)

\* Set and Unset: WebDriverAgent came up, was replaced, or went away.
Configure ==
    /\ MapFree
    /\ Free(listed)
    /\ StopStream

-----------------------------------------------------------------------------
\* What a viewer does on its own account once it has subscribed; a slow client
\* may never be done with a frame.
ViewerStep(v) ==
    \/ Join(v)
    \/ Look(v)
    \/ Sleep(v)
    \/ Leave(v)

Next ==
    \/ \E v \in Viewers : \/ Subscribe(v)
                          \/ ViewerStep(v)
                          \/ Latest(v)
                          \/ Write(v)
                          \/ Disconnect(v)
                          \/ Tell(v)
    \/ \E k \in Streams : \/ Publish(k)
                          \/ Fail(k)
                          \/ PumpEnds(k)
                          \/ Fire(k)
                          \/ StopIfIdle(k)
                          \/ Cancel(k)
                          \/ Unlist(k)
    \/ Configure

\* A goroutine that needs a mutex gets it in the end (sync.Mutex hands itself
\* to a starving one), hence strong fairness.  The pump of an open stream
\* publishes or, at the latest after the 10 s of the stall timer and 5 s of
\* backoff, fails: nothing says which, and a pump that fails may do so for ever.
\* One that is canceled sees it: its request and its backoff both watch the
\* context.  Nothing is asked of Tell.
Fairness ==
    /\ \A v \in Viewers : SF_vars(ViewerStep(v))
    /\ \A k \in Streams : SF_vars(stream[k].st = "open" /\ (Publish(k) \/ Fail(k)))
    /\ \A k \in Streams : SF_vars(Fire(k) \/ StopIfIdle(k))
    /\ \A k \in Streams : WF_vars(Cancel(k)) /\ WF_vars(PumpEnds(k))

Spec == Init /\ [][Next]_vars /\ Fairness

-----------------------------------------------------------------------------
(* Properties                                                              *)

\* No reader is lost: the one that new viewers find is the only one that goes on,
\* and any other that still reads the device has the callback which closed it on
\* the way to cancel it, whichever of a subscription, an idle stop and a new
\* endpoint comes first.  A lost one would read the device for ever: only what is
\* listed can be stopped.  "poligon reads each device exactly once" (stream.go:19)
\* is more than the code does: between closing an idle stream and canceling its
\* pump, a subscription starts the next.
NoLostReader == \A k \in Streams : Reads(k) /\ listed # k => stream[k].closing > 0

\* A viewer whose client is gone returns and closes its subscription, even if
\* the broadcast for its context fell between its check and its wait.
GoneViewersReturn ==
    \A v \in Viewers : viewer[v].gone \/ viewer[v].pc = "leave" ~> viewer[v].pc = "out"

\* No viewer sleeps on a stream that has been stopped: it would wake up never.
StoppedStreamsWake ==
    \A v \in Viewers : viewer[v].pc = "wait" => Open(viewer[v].s)

\* A stream nobody watches stops reading the device, connection and all, unless
\* somebody comes back.
UnwatchedStreamsStop ==
    \A k \in Streams :
        stream[k].pump # "off" /\ ~Watched(k) ~> stream[k].pump = "off" \/ Watched(k)
=============================================================================
