---------------------------- MODULE ScreenProofs ----------------------------
(***************************************************************************)
(* Proofs about Screen, for any number of viewers, streams and idle        *)
(* callbacks: no pump reads on unknown to the map and to the callback that *)
(* closed its stream, nobody sleeps on a stream that has been stopped, and *)
(* the state stays typed, the viewers a stream counts included.            *)
(***************************************************************************)
EXTENDS Screen, FiniteSetTheorems, TLAPS

Stream == [st : {"open", "failing", "closed"}, pump : {"on", "canceled", "off"}, refs : Int,
           idle : BOOLEAN, armed : BOOLEAN, fired : Nat, closing : Nat, leaving : Nat]

Typed ==
    /\ listed \in Streams \cup {None}
    /\ stream \in [Streams -> Stream]

\* A pump that reads is that of the listed stream, or a callback is about to
\* cancel it; and only a closed stream has a callback on its way out of the map:
\* without that, stopIfIdle could take a stream that reads on from the map.
Known(k) ==
    /\ Reads(k) => stream[k].closing > 0 \/ (Open(k) /\ listed = k)
    /\ stream[k].closing > 0 \/ stream[k].leaving > 0 => ~Open(k)

IInv == Typed /\ \A k \in Streams : Known(k)

\* A new stream is typed and closed streams stay on record.
LEMMA NewStreamTyped ==
    NewStream \in Stream /\ [NewStream EXCEPT !.st = "closed", !.pump = "off"] \in Stream
<1>1. NewStream \in Stream
  BY DEF NewStream, Stream
<1> QED
  BY <1>1 DEF Stream

\* Initially there is no stream.
LEMMA InitIInv == Init => IInv
<1> SUFFICES ASSUME Init PROVE IInv
  OBVIOUS
<1> USE DEF Init
<1>1. Typed
  BY NewStreamTyped DEF Typed, None
<1>2. \A k \in Streams : /\ stream[k].pump = "off" /\ stream[k].closing = 0
                         /\ stream[k].leaving = 0
  BY DEF NewStream
<1> QED
  BY <1>1, <1>2 DEF IInv, Known, Reads

\* The steps of a viewer after it has found its stream leave the map alone, and
\* of the streams they change nothing but counts and timers.
Alike(r, q) ==
    r.st = q.st /\ r.pump = q.pump /\ r.closing = q.closing /\ r.leaving = q.leaving

Counting ==
    /\ listed' = listed
    /\ stream' \in [Streams -> Stream]
    /\ \A k \in Streams : Alike(stream'[k], stream[k])

LEMMA CountingKeeps == IInv /\ Counting => IInv'
  BY DEF IInv, Typed, Known, Open, Reads, Counting, Alike

LEMMA ViewersCount ==
  ASSUME IInv, NEW v \in Viewers,
         Join(v) \/ Look(v) \/ Sleep(v) \/ Leave(v) \/ Latest(v) \/ Write(v)
           \/ Disconnect(v) \/ Tell(v)
  PROVE  Counting
<1> stream \in [Streams -> Stream]
  BY DEF IInv, Typed
<1>1. CASE Join(v)
  <2> DEFINE j == viewer[v].s
  <2>1. stream' = [stream EXCEPT ![j].refs = @ + 1, ![j].idle = FALSE, ![j].armed = FALSE]
    BY <1>1 DEF Join
  <2>2. ASSUME NEW k \in Streams
        PROVE  stream'[k] \in Stream /\ Alike(stream'[k], stream[k])
    BY <2>1 DEF Stream, Alike
  <2> QED
    BY <1>1, <2>1, <2>2 DEF Join, Counting
<1>2. CASE Leave(v)
  <2> DEFINE last == stream[listed].refs <= 1 /\ ~stream[listed].idle
  <2>1. CASE listed = None
    BY <1>2, <2>1 DEF Leave, Counting, Alike
  <2>2. CASE listed # None
    <3> HIDE DEF last
    <3>1. stream' = [stream EXCEPT ![listed].refs = @ - 1,
                                   ![listed].idle = @ \/ last, ![listed].armed = @ \/ last]
      BY <1>2, <2>2 DEF Leave, last
    <3>2. ASSUME NEW k \in Streams
          PROVE  stream'[k] \in Stream /\ Alike(stream'[k], stream[k])
      BY <3>1 DEF Stream, Alike
    <3> QED
      BY <1>2, <3>1, <3>2 DEF Leave, Counting
  <2> QED
    BY <2>1, <2>2
<1>3. CASE Look(v) \/ Sleep(v) \/ Latest(v) \/ Write(v) \/ Disconnect(v) \/ Tell(v)
  BY <1>3 DEF Look, Sleep, Latest, Write, Disconnect, Tell, Counting, Alike
<1> QED
  BY <1>1, <1>2, <1>3

\* A new stream takes the place in the map of a closed one only: the pump of that
\* one reads on at most until its callback cancels it.
LEMMA SubscribeKeeps == ASSUME IInv, NEW v \in Viewers, Subscribe(v) PROVE IInv'
<1> USE DEF IInv, Typed
<1>1. CASE UNCHANGED <<listed, stream>>
  BY <1>1 DEF Known, Reads, Open
<1>2. CASE ~Found /\ \E k \in Streams : stream' = [stream EXCEPT ![k] = NewStream] /\ listed' = k
  <2>1. PICK k \in Streams : stream' = [stream EXCEPT ![k] = NewStream] /\ listed' = k
    BY <1>2
  <2>2. \A j \in Streams : Reads(j) => stream[j].closing > 0
    BY <1>2 DEF Found, Known
  <2>3. Typed'
    BY <2>1, NewStreamTyped
  <2>4. Known(k)'
    BY <2>1 DEF Known, Open, Reads, NewStream
  <2>5. \A j \in Streams : j # k => Known(j)'
    BY <2>1, <2>2 DEF Known, Open, Reads
  <2> QED
    BY <2>3, <2>4, <2>5
<1> QED
  BY <1>1, <1>2 DEF Subscribe

\* Steps that change one stream and leave the map alone.
LEMMA OneStreamKeeps ==
  ASSUME IInv, NEW k \in Streams, NEW r \in Stream,
         stream' = [stream EXCEPT ![k] = r], listed' = listed,
         r.pump = "on" => r.closing > 0 \/ (r.st # "closed" /\ listed = k),
         r.closing > 0 \/ r.leaving > 0 => r.st = "closed"
  PROVE  IInv'
<1> USE DEF IInv, Typed
<1>1. Typed'
  OBVIOUS
<1>2. stream'[k] = r /\ \A j \in Streams : j # k => stream'[j] = stream[j]
  OBVIOUS
<1>3. Known(k)'
  BY <1>2 DEF Known, Reads, Open
<1>4. \A j \in Streams : j # k => Known(j)'
  BY <1>2 DEF Known, Reads, Open
<1> QED
  BY <1>1, <1>3, <1>4

\* What the pump, a timer and a callback make of their stream.
LEMMA PumpKeeps == ASSUME IInv, NEW k \in Streams, Publish(k) \/ Fail(k) PROVE IInv'
<1> USE DEF IInv, Typed
<1>1. PICK s \in {"open", "failing"} :
        stream' = [stream EXCEPT ![k].st = IF @ = "closed" THEN @ ELSE s]
  BY DEF Publish, Fail, Report
<1> DEFINE r == [stream[k] EXCEPT !.st = IF @ = "closed" THEN @ ELSE s]
<1>2. stream' = [stream EXCEPT ![k] = r] /\ listed' = listed
  BY <1>1 DEF Publish, Fail
<1>3. /\ r \in Stream /\ r.pump = stream[k].pump /\ r.closing = stream[k].closing
      /\ r.leaving = stream[k].leaving /\ (r.st = "closed" <=> stream[k].st = "closed")
  BY DEF Stream
<1>4. Known(k)
  OBVIOUS
<1> HIDE DEF r
<1> QED
  BY <1>2, <1>3, <1>4, OneStreamKeeps DEF Known, Reads, Open

LEMMA PumpEndsKeeps == ASSUME IInv, NEW k \in Streams, PumpEnds(k) PROVE IInv'
<1> USE DEF IInv, Typed
<1> DEFINE r == [stream[k] EXCEPT !.pump = "off"]
<1>1. stream' = [stream EXCEPT ![k] = r] /\ listed' = listed
  BY DEF PumpEnds
<1>2. /\ r \in Stream /\ r.pump = "off" /\ r.closing = stream[k].closing
      /\ r.leaving = stream[k].leaving /\ r.st = stream[k].st
  BY DEF Stream
<1>3. Known(k)
  OBVIOUS
<1> HIDE DEF r
<1> QED
  BY <1>1, <1>2, <1>3, OneStreamKeeps DEF Known, Open

\* A fired timer changes no state of the stream.
LEMMA FireKeeps == ASSUME IInv, NEW k \in Streams, Fire(k) PROVE IInv'
<1>1. stream \in [Streams -> Stream]
  BY DEF IInv, Typed
<1>2. ASSUME NEW j \in Streams
      PROVE  stream'[j] \in Stream /\ Alike(stream'[j], stream[j])
  BY <1>1 DEF Fire, Stream, Alike
<1>3. Counting
  BY <1>1, <1>2 DEF Fire, Counting
<1> QED
  BY <1>3, CountingKeeps

\* An idle callback closes its stream before it may cancel the pump.
LEMMA StopIfIdleKeeps == ASSUME IInv, NEW k \in Streams, StopIfIdle(k) PROVE IInv'
<1> USE DEF IInv, Typed
<1>1. CASE stream[k].refs > 0
  <2>1. stream' = [stream EXCEPT ![k].fired = @ - 1, ![k].idle = FALSE] /\ listed' = listed
    BY <1>1 DEF StopIfIdle
  <2>2. stream[k].fired - 1 \in Nat
    BY DEF StopIfIdle, Stream
  <2>3. ASSUME NEW j \in Streams
        PROVE  stream'[j] \in Stream /\ Alike(stream'[j], stream[j])
    <3>1. CASE j = k
      <4>1. stream'[k] = [stream[k] EXCEPT !.fired = @ - 1, !.idle = FALSE]
        BY <2>1
      <4>2. stream[k] \in Stream
        OBVIOUS
      <4>3. [stream[k] EXCEPT !.fired = @ - 1, !.idle = FALSE] \in Stream
        BY <2>2, <4>2 DEF Stream
      <4>4. Alike([stream[k] EXCEPT !.fired = @ - 1, !.idle = FALSE], stream[k])
        BY <4>2 DEF Stream, Alike
      <4> QED
        BY <3>1, <4>1, <4>3, <4>4
    <3>2. CASE j # k
      BY <2>1, <3>2 DEF Alike
    <3> QED
      BY <3>1, <3>2
  <2>4. Counting
    BY <2>1, <2>3 DEF Counting
  <2> QED
    BY <2>4, CountingKeeps
<1>2. CASE ~(stream[k].refs > 0)
  <2> DEFINE r == [stream[k] EXCEPT !.fired = @ - 1, !.st = "closed", !.closing = @ + 1]
  <2>1. stream' = [stream EXCEPT ![k] = r] /\ listed' = listed
    BY <1>2 DEF StopIfIdle
  <2>2. stream[k].fired - 1 \in Nat /\ stream[k].closing + 1 \in Nat /\ stream[k].closing + 1 > 0
    BY DEF StopIfIdle, Stream
  <2>3. r \in Stream /\ r.st = "closed" /\ r.closing > 0
    BY <2>2 DEF Stream
  <2> HIDE DEF r
  <2> QED
    BY <2>1, <2>3, OneStreamKeeps
<1> QED
  BY <1>1, <1>2

\* ... and cancels the pump before it may leave the map,
LEMMA CancelKeeps == ASSUME IInv, NEW k \in Streams, Cancel(k) PROVE IInv'
<1> USE DEF IInv, Typed
<1> DEFINE r == [stream[k] EXCEPT !.closing = @ - 1, !.leaving = @ + 1,
                                  !.pump = IF @ = "on" THEN "canceled" ELSE @]
<1>1. stream' = [stream EXCEPT ![k] = r] /\ listed' = listed
  BY DEF Cancel
<1>2. stream[k].closing - 1 \in Nat /\ stream[k].leaving + 1 \in Nat /\ ~Open(k)
  BY DEF Cancel, Stream, Known
<1>3. r \in Stream /\ r.st = "closed" /\ r.pump # "on"
  BY <1>2 DEF Stream, Open
<1> HIDE DEF r
<1> QED
  BY <1>1, <1>3, OneStreamKeeps

\* ... from which it takes only itself, closed by then.
LEMMA UnlistKeeps == ASSUME IInv, NEW k \in Streams, Unlist(k) PROVE IInv'
<1> USE DEF IInv, Typed
<1>1. /\ stream' = [stream EXCEPT ![k].leaving = @ - 1, ![k].refs = 0, ![k].idle = FALSE]
      /\ listed' = IF listed = k THEN None ELSE listed
  BY DEF Unlist
<1>2. stream[k].leaving - 1 \in Nat /\ ~Open(k) /\ (Reads(k) => stream[k].closing > 0)
  BY DEF Unlist, Stream, Known
<1>3. stream'[k] = [st |-> stream[k].st, pump |-> stream[k].pump, refs |-> 0, idle |-> FALSE,
                    armed |-> stream[k].armed, fired |-> stream[k].fired,
                    closing |-> stream[k].closing, leaving |-> stream[k].leaving - 1]
  BY <1>1 DEF Stream
<1>4. stream'[k] \in Stream
  BY <1>2, <1>3 DEF Stream
<1>5. \A j \in Streams : j # k => stream'[j] = stream[j]
  BY <1>1
<1>6. Typed'
  BY <1>1, <1>4, <1>5
<1>7. Known(k)'
  BY <1>2, <1>3 DEF Known, Reads, Open
<1>8. \A j \in Streams : j # k => Known(j)'
  BY <1>1, <1>5 DEF Known, Reads, Open
<1> QED
  BY <1>6, <1>7, <1>8

\* A new or lost endpoint cancels the pump of the stream it takes from the map.
LEMMA ConfigureKeeps == IInv /\ Configure => IInv'
<1> SUFFICES ASSUME IInv, Configure PROVE IInv'
  OBVIOUS
<1> USE DEF IInv, Typed
<1>1. listed' = None
  BY DEF Configure, StopStream
<1>2. CASE listed = None
  BY <1>1, <1>2 DEF Configure, StopStream, Known, Reads, Open
<1>3. CASE listed # None
  <2>1. stream' = [stream EXCEPT ![listed] = Stopped(listed)]
    BY <1>3 DEF Configure, StopStream
  <2>2. PICK p \in {"canceled", "off"} :
          Stopped(listed) =
            [st |-> "closed", pump |-> p, refs |-> 0, idle |-> FALSE, armed |-> FALSE,
             fired |-> stream[listed].fired, closing |-> stream[listed].closing,
             leaving |-> stream[listed].leaving]
    <3> DEFINE p == IF stream[listed].pump = "on" THEN "canceled" ELSE stream[listed].pump
    <3>1. stream[listed] \in Stream
      BY <1>3
    <3>2. p \in {"canceled", "off"}
      BY <3>1 DEF Stream
    <3>3. Stopped(listed) = [stream[listed] EXCEPT !.st = "closed", !.refs = 0, !.idle = FALSE,
                                                   !.armed = FALSE, !.pump = p]
      BY DEF Stopped
    <3> HIDE DEF p
    <3> QED
      BY <3>1, <3>2, <3>3 DEF Stream
  <2>3. Stopped(listed) \in Stream
    BY <1>3, <2>2 DEF Stream
  <2>4. Typed'
    BY <1>1, <2>1, <2>3
  <2>5. \A j \in Streams : j # listed => stream'[j] = stream[j]
    BY <2>1
  <2>6. stream'[listed].st = "closed" /\ stream'[listed].pump # "on"
    BY <1>3, <2>1, <2>2
  <2>8. \A j \in Streams : j # listed => Known(j)'
    BY <1>1, <2>5 DEF Known, Reads, Open
  <2> QED
    BY <2>4, <2>6, <2>8 DEF Known, Reads, Open
<1> QED
  BY <1>2, <1>3

LEMMA NextIInv == IInv /\ [Next]_vars => IInv'
<1> SUFFICES ASSUME IInv, [Next]_vars PROVE IInv'
  OBVIOUS
<1>1. ASSUME NEW v \in Viewers, Subscribe(v) PROVE IInv'
  BY <1>1, SubscribeKeeps
<1>2. ASSUME NEW v \in Viewers,
             ViewerStep(v) \/ Latest(v) \/ Write(v) \/ Disconnect(v) \/ Tell(v)
      PROVE  IInv'
  <2>1. Counting
    BY <1>2, ViewersCount DEF ViewerStep
  <2> QED
    BY <2>1, CountingKeeps
<1>3. ASSUME NEW k \in Streams, Publish(k) \/ Fail(k) PROVE IInv'
  BY <1>3, PumpKeeps
<1>4. ASSUME NEW k \in Streams, Fire(k) \/ PumpEnds(k) PROVE IInv'
  BY <1>4, FireKeeps, PumpEndsKeeps
<1>5. ASSUME NEW k \in Streams, StopIfIdle(k) \/ Cancel(k) \/ Unlist(k) PROVE IInv'
  BY <1>5, StopIfIdleKeeps, CancelKeeps, UnlistKeeps
<1>7. CASE Configure
  BY <1>7, ConfigureKeeps
<1>8. CASE UNCHANGED vars
  BY <1>8 DEF vars, IInv, Typed, Known, Open, Reads
<1> QED
  BY <1>1, <1>2, <1>3, <1>4, <1>5, <1>7, <1>8 DEF Next

\* At every moment a pump that goes on is the listed stream's, which the next
\* viewer, endpoint or timer can reach, or the callback that closed its stream has
\* yet to cancel it, however many viewers, replacements and idle stops there are.
THEOREM ReadersAreKnown == Spec => []NoLostReader
<1>1. IInv => NoLostReader
  BY DEF IInv, Known, NoLostReader
<1> QED
  BY InitIInv, NextIInv, <1>1, PTL DEF Spec

-----------------------------------------------------------------------------
(* The viewers, and the bounds on what a stream counts                     *)

ViewerType == [pc : {"out", "join", "next", "checked", "wait", "leave"},
               s : Streams \cup {None}, fresh : BOOLEAN, gone : BOOLEAN]

\* A viewer that has the map locked is about to join the listed stream, and one
\* that has found nothing new holds the lock of its stream, so nobody can stop
\* that one before the viewer sleeps.
ViewersKnow ==
    /\ viewer \in [Viewers -> ViewerType]
    /\ \A v \in Viewers : /\ viewer[v].pc = "join" => listed # None /\ viewer[v].s = listed
                          /\ Joined(v) => viewer[v].s # None
                          /\ viewer[v].pc \in {"checked", "wait"} => Open(viewer[v].s)

\* A viewer that left another stream may take one from the count of the listed
\* one, but then it is outside: the listed stream counts no fewer than minus the
\* viewers outside, and no more than those that are not.
Outside == {v \in Viewers : viewer[v].pc \in {"out", "join"}}
CountsFit ==
    listed # None => stream[listed].refs + Cardinality(Outside) \in 0..Cardinality(Viewers)

Bounded ==
    \A k \in Streams : /\ stream[k].refs \in (-Cardinality(Viewers))..Cardinality(Viewers)
                       /\ stream[k].fired + stream[k].closing + stream[k].leaving <= MaxFired

\* The steps of the pump, the timer and the callbacks of one stream.
StreamStep(k) ==
    Publish(k) \/ Fail(k) \/ PumpEnds(k) \/ Fire(k) \/ StopIfIdle(k) \/ Cancel(k) \/ Unlist(k)

ViewInv == IInv /\ ViewersKnow /\ CountsFit /\ Bounded

LEMMA Numbers ==
    /\ IsFiniteSet(Viewers) /\ Cardinality(Viewers) \in Nat
    /\ MaxStreams \in Nat /\ MaxFired \in Nat \ {0} /\ None \notin Streams
BY ScreenAssumption, FS_CardinalityType DEF None, Streams

LEMMA ViewInit ==
    ASSUME Init
    PROVE  ViewInv
<1>1. IInv
    BY InitIInv
<1>2. ViewersKnow
    BY DEF Init, Away, ViewersKnow, ViewerType, Joined
<1>3. CountsFit
    BY DEF Init, CountsFit
<1>4. Bounded
    <2>1. \A k \in Streams : /\ stream[k].refs = 0 /\ stream[k].fired = 0
                             /\ stream[k].closing = 0 /\ stream[k].leaving = 0
        BY DEF Init, NewStream
    <2>2. QED
        BY <2>1, Numbers DEF Bounded
<1>5. QED
    BY <1>1, <1>2, <1>3, <1>4 DEF ViewInv

\* What a viewer's own step makes of it.
LEMMA ViewerSteps ==
    ASSUME ViewInv, NEW v \in Viewers,
           Subscribe(v) \/ ViewerStep(v) \/ Latest(v) \/ Write(v) \/ Disconnect(v)
    PROVE  \E w \in ViewerType :
              /\ viewer' = [viewer EXCEPT ![v] = w]
              /\ w.pc = "join" => Subscribe(v) /\ listed' # None /\ w.s = listed'
              /\ w.pc \in {"next", "checked", "wait"} => w.s = viewer[v].s /\ w.s # None
              /\ w.pc \in {"checked", "wait"} => Open(w.s)
              /\ \/ Subscribe(v) /\ viewer[v].pc = "out" /\ w.pc = "join"
                 \/ Join(v) /\ viewer[v].pc = "join" /\ w.pc = "next"
                 \/ Leave(v) /\ viewer[v].pc = "leave" /\ w.pc = "out"
                 \/ /\ ~Subscribe(v) /\ ~Join(v) /\ ~Leave(v)
                    /\ viewer[v].pc \notin {"out", "join"} /\ w.pc \notin {"out", "join"}
<1>0. /\ viewer \in [Viewers -> ViewerType] /\ viewer[v] \in ViewerType
      /\ listed \in Streams \cup {None} /\ None \notin Streams
      /\ viewer[v].pc = "join" => listed # None /\ viewer[v].s = listed
      /\ Joined(v) => viewer[v].s # None
      /\ viewer[v].pc \in {"checked", "wait"} => Open(viewer[v].s)
    BY Numbers DEF ViewInv, IInv, Typed, ViewersKnow
<1>1. Leaving \in ViewerType /\ Leaving.pc = "leave" /\ Away \in ViewerType /\ Away.pc = "out"
    BY DEF Leaving, Away, ViewerType
<1> DEFINE pc == viewer[v].pc
<1>2. CASE Subscribe(v)
    <2> DEFINE w == [viewer[v] EXCEPT !.pc = "join", !.s = listed']
    <2>1. viewer' = [viewer EXCEPT ![v] = w] /\ pc = "out" /\ listed' \in Streams
        BY <1>0, <1>2 DEF Subscribe, Found
    <2>2. w \in ViewerType /\ w.pc = "join" /\ w.s = listed'
        BY <1>0, <2>1 DEF ViewerType
    <2>3. QED
        BY <1>0, <1>2, <2>1, <2>2
<1>3. CASE Join(v)
    <2>1. PICK seen \in BOOLEAN : viewer' = [viewer EXCEPT ![v].pc = "next", ![v].fresh = seen]
        BY <1>3 DEF Join
    <2> DEFINE w == [viewer[v] EXCEPT !.pc = "next", !.fresh = seen]
    <2>2. viewer' = [viewer EXCEPT ![v] = w] /\ pc = "join"
        BY <1>0, <1>3, <2>1 DEF Join
    <2>3. w \in ViewerType /\ w.pc = "next" /\ w.s = viewer[v].s
        BY <1>0 DEF ViewerType
    <2>4. ~Subscribe(v)
        BY <2>2 DEF Subscribe
    <2>5. QED
        BY <1>0, <1>3, <2>2, <2>3, <2>4
<1>4. CASE Leave(v)
    <2>1. viewer' = [viewer EXCEPT ![v] = Away] /\ pc = "leave"
        BY <1>4 DEF Leave
    <2>2. ~Subscribe(v) /\ ~Join(v)
        BY <2>1 DEF Subscribe, Join
    <2>3. QED
        BY <1>1, <1>4, <2>1, <2>2
<1>5. ASSUME NEW w \in ViewerType, viewer' = [viewer EXCEPT ![v] = w],
             pc \in {"next", "checked", "wait"},
             w.pc \in {"next", "checked", "wait", "leave"},
             w.pc # "leave" => w.s = viewer[v].s,
             w.pc \in {"checked", "wait"} => Open(w.s)
      PROVE  \E x \in ViewerType :
              /\ viewer' = [viewer EXCEPT ![v] = x]
              /\ x.pc = "join" => Subscribe(v) /\ listed' # None /\ x.s = listed'
              /\ x.pc \in {"next", "checked", "wait"} => x.s = viewer[v].s /\ x.s # None
              /\ x.pc \in {"checked", "wait"} => Open(x.s)
              /\ \/ Subscribe(v) /\ viewer[v].pc = "out" /\ x.pc = "join"
                 \/ Join(v) /\ viewer[v].pc = "join" /\ x.pc = "next"
                 \/ Leave(v) /\ viewer[v].pc = "leave" /\ x.pc = "out"
                 \/ /\ ~Subscribe(v) /\ ~Join(v) /\ ~Leave(v)
                    /\ viewer[v].pc \notin {"out", "join"} /\ x.pc \notin {"out", "join"}
    <2>1. ~Subscribe(v) /\ ~Join(v) /\ ~Leave(v)
        BY <1>5 DEF Subscribe, Join, Leave
    <2>2. QED
        BY <1>0, <1>5, <2>1 DEF Joined
<1>6. CASE viewer' = [viewer EXCEPT ![v] = Leaving] /\ pc = "next"
    BY <1>1, <1>5, <1>6
<1>7. CASE Look(v) /\ viewer' # [viewer EXCEPT ![v] = Leaving]
    <2> DEFINE w == [viewer[v] EXCEPT !.pc = "checked"]
    <2>1. viewer' = [viewer EXCEPT ![v] = w] /\ pc = "next" /\ stream[viewer[v].s].st = "open"
        BY <1>7 DEF Look
    <2>2. w \in ViewerType /\ w.pc = "checked" /\ w.s = viewer[v].s /\ Open(w.s)
        BY <1>0, <2>1 DEF ViewerType, Open
    <2>3. QED
        BY <1>5, <2>1, <2>2
<1>8. CASE Sleep(v)
    <2> DEFINE w == [viewer[v] EXCEPT !.pc = "wait"]
    <2>1. viewer' = [viewer EXCEPT ![v] = w] /\ pc = "checked"
        BY <1>0, <1>8 DEF Sleep
    <2>2. w \in ViewerType /\ w.pc = "wait" /\ w.s = viewer[v].s
        BY <1>0 DEF ViewerType
    <2>3. QED
        BY <1>0, <1>5, <2>1, <2>2
<1>9. CASE Write(v) /\ viewer' # [viewer EXCEPT ![v] = Leaving]
    <2> DEFINE w == [viewer[v] EXCEPT !.fresh = FALSE]
    <2>1. viewer' = [viewer EXCEPT ![v] = w] /\ pc = "next"
        BY <1>0, <1>9 DEF Write
    <2>2. w \in ViewerType /\ w.pc = "next" /\ w.s = viewer[v].s
        BY <1>0, <2>1 DEF ViewerType
    <2>3. QED
        BY <1>5, <2>1, <2>2
<1>10. CASE Disconnect(v)
    <2> DEFINE w == [viewer[v] EXCEPT !.gone = TRUE, !.fresh = FALSE]
    <2>1. viewer' = [viewer EXCEPT ![v] = w] /\ pc \in {"next", "checked", "wait"}
        BY <1>0, <1>10 DEF Disconnect, Joined
    <2>2. w \in ViewerType /\ w.pc = pc /\ w.s = viewer[v].s
        BY <1>0 DEF ViewerType
    <2>3. QED
        BY <1>0, <1>5, <2>1, <2>2
<1>11. CASE Latest(v)
    BY <1>6, <1>11 DEF Latest
<1>12. QED
    BY <1>2, <1>3, <1>4, <1>6, <1>7, <1>8, <1>9, <1>10, <1>11 DEF ViewerStep, Look, Write

\* What a viewer's own step makes of the streams: open ones stay open.
LEMMA ViewerLeavesOpen ==
    ASSUME ViewInv, NEW v \in Viewers,
           Subscribe(v) \/ ViewerStep(v) \/ Latest(v) \/ Write(v) \/ Disconnect(v)
    PROVE  /\ \A k \in Streams : Open(k) => Open(k)'
           /\ (Subscribe(v) /\ MapFree) \/ UNCHANGED listed
<1>1. CASE Subscribe(v)
    <2>1. stream \in [Streams -> Stream]
        BY DEF ViewInv, IInv, Typed
    <2>2. UNCHANGED stream \/ \E k \in Streams : stream' = [stream EXCEPT ![k] = NewStream]
        BY <1>1 DEF Subscribe
    <2>3. \A k \in Streams : Open(k) => Open(k)'
        BY <2>1, <2>2 DEF Open, NewStream
    <2>4. QED
        BY <1>1, <2>3 DEF Subscribe
<1>2. CASE ~Subscribe(v)
    <2>1. Counting
        BY <1>2, ViewersCount DEF ViewInv, ViewerStep
    <2>2. QED
        BY <2>1 DEF Counting, Alike, Open
<1>3. QED
    BY <1>1, <1>2

LEMMA ViewersKnowTheirs ==
    ASSUME ViewInv, NEW v \in Viewers,
           Subscribe(v) \/ ViewerStep(v) \/ Latest(v) \/ Write(v) \/ Disconnect(v)
    PROVE  ViewersKnow'
<1>0. ViewersKnow
    BY DEF ViewInv
<1>1. PICK w \in ViewerType :
        /\ viewer' = [viewer EXCEPT ![v] = w]
        /\ w.pc = "join" => listed' # None /\ w.s = listed'
        /\ w.pc \in {"next", "checked", "wait"} => w.s # None
        /\ w.pc \in {"checked", "wait"} => Open(w.s)
    BY ViewerSteps
<1>2. viewer' \in [Viewers -> ViewerType]
    BY <1>0, <1>1 DEF ViewersKnow
<1>3. ASSUME NEW u \in Viewers
      PROVE  /\ viewer'[u].pc = "join" => listed' # None /\ viewer'[u].s = listed'
             /\ Joined(u)' => viewer'[u].s # None
             /\ viewer'[u].pc \in {"checked", "wait"} => Open(viewer[u].s)'
    <2>1. CASE u = v
        <3>1. viewer'[u] = w
            BY <1>0, <1>1, <2>1 DEF ViewersKnow
        <3>2. w.pc \in {"checked", "wait"} => w.s \in Streams
            BY <1>1 DEF ViewerType
        <3>3. w.pc \in {"checked", "wait"} => Open(w.s)'
            BY <1>1, <3>2, ViewerLeavesOpen
        <3>4. QED
            BY <1>1, <3>1, <3>3 DEF Joined, Open
    <2>2. CASE u # v
        <3>1. viewer'[u] = viewer[u]
            BY <1>0, <1>1, <2>2 DEF ViewersKnow
        <3>2. viewer[u].pc \in {"checked", "wait"} => viewer[u].s \in Streams /\ Open(viewer[u].s)
            BY <1>0 DEF ViewersKnow, ViewerType, Joined
        <3>3. viewer[u].pc \in {"checked", "wait"} => stream'[viewer[u].s].st # "closed"
            BY <3>2, ViewerLeavesOpen DEF Open
        <3>4. viewer[u].pc = "join" => UNCHANGED listed
            BY ViewerLeavesOpen DEF MapFree
        <3>5. QED
            BY <1>0, <3>1, <3>3, <3>4 DEF ViewersKnow, Joined, Open
    <2>3. QED
        BY <2>1, <2>2
<1>4. QED
    BY <1>2, <1>3 DEF ViewersKnow

\* A broadcast wakes those that wait on the stream, and nobody else.
LEMMA Woken ==
    ASSUME ViewersKnow, NEW k
    PROVE  /\ Broadcast(k) \in [Viewers -> ViewerType]
           /\ \A v \in Viewers :
                /\ Broadcast(k)[v].s = viewer[v].s
                /\ \/ Broadcast(k)[v].pc = viewer[v].pc
                   \/ viewer[v].pc = "wait" /\ Broadcast(k)[v].pc = "next"
                /\ Broadcast(k)[v].pc = "wait" => viewer[v].s # k
BY DEF ViewersKnow, Broadcast, ViewerType

\* The steps of the pump, the timers and the endpoint change no viewer but for
\* waking it, and a stream they stop has nobody left who waits or is about to.
LEMMA OthersWake ==
    ASSUME ViewInv,
           \/ \E v \in Viewers : Tell(v)
           \/ \E k \in Streams : StreamStep(k)
           \/ Configure
           \/ UNCHANGED vars
    PROVE  /\ viewer' \in [Viewers -> ViewerType]
           /\ \A v \in Viewers :
                /\ viewer'[v].s = viewer[v].s
                /\ \/ viewer'[v].pc = viewer[v].pc
                   \/ viewer[v].pc = "wait" /\ viewer'[v].pc = "next"
                /\ viewer[v].pc = "join" => UNCHANGED listed
                /\ viewer'[v].pc \in {"checked", "wait"} => stream'[viewer[v].s].st # "closed"
<1> DEFINE Woke == /\ viewer' \in [Viewers -> ViewerType]
                   /\ \A v \in Viewers :
                        /\ viewer'[v].s = viewer[v].s
                        /\ \/ viewer'[v].pc = viewer[v].pc
                           \/ viewer[v].pc = "wait" /\ viewer'[v].pc = "next"
           Kept == \A v \in Viewers : viewer[v].pc = "join" => UNCHANGED listed
           Wakes == \A v \in Viewers :
                       viewer'[v].pc \in {"checked", "wait"} => stream'[viewer[v].s].st # "closed"
<1>0. /\ ViewersKnow /\ viewer \in [Viewers -> ViewerType]
      /\ stream \in [Streams -> Stream]
      /\ \A v \in Viewers : viewer[v].pc \in {"checked", "wait"}
                                => viewer[v].s \in Streams /\ Open(viewer[v].s)
    BY DEF ViewInv, IInv, Typed, ViewersKnow, ViewerType, Joined
<1>1. ASSUME Woke, Kept, \A j \in Streams : Open(j) => Open(j)'
      PROVE  Woke /\ Kept /\ Wakes
    BY <1>0, <1>1 DEF Open
<1>2. ASSUME NEW v \in Viewers, Tell(v)
      PROVE  Woke /\ Kept /\ Wakes
    <2>1. viewer' = Broadcast(viewer[v].s) /\ UNCHANGED <<listed, stream>>
        BY <1>2 DEF Tell
    <2>2. QED
        BY <1>0, <1>1, <2>1, Woken DEF Open
<1>3. ASSUME NEW k \in Streams, Publish(k)
      PROVE  Woke /\ Kept /\ Wakes
    <2>1. /\ stream' = [stream EXCEPT ![k].st = IF @ = "closed" THEN @ ELSE "open"]
          /\ UNCHANGED listed
          /\ viewer' = [v \in Viewers |-> IF Joined(v) /\ viewer[v].s = k
                                          THEN [Broadcast(k)[v] EXCEPT !.fresh = ~viewer[v].gone]
                                          ELSE viewer[v]]
        BY <1>3 DEF Publish, Report
    <2>2. \A v \in Viewers : viewer[v].gone \in BOOLEAN /\ Broadcast(k)[v] \in ViewerType
        BY <1>0, Woken DEF ViewerType
    <2>3. ASSUME NEW v \in Viewers, NEW b \in BOOLEAN
          PROVE  LET w == [Broadcast(k)[v] EXCEPT !.fresh = b]
                 IN  w \in ViewerType /\ w.s = viewer[v].s /\ w.pc = Broadcast(k)[v].pc
        BY <1>0, <2>2, Woken DEF ViewerType
    <2>4. ASSUME NEW v \in Viewers
          PROVE  /\ viewer'[v] \in ViewerType /\ viewer'[v].s = viewer[v].s
                 /\ viewer'[v].pc \in {viewer[v].pc, Broadcast(k)[v].pc}
        BY <1>0, <2>1, <2>2, <2>3
    <2>5. viewer' \in [Viewers -> ViewerType]
        BY <2>1, <2>4
    <2>6. Woke
        BY <1>0, <2>4, <2>5, Woken
    <2>7. \A j \in Streams : Open(j) => Open(j)'
        BY <1>0, <2>1 DEF Open, Stream
    <2>8. QED
        BY <1>1, <2>1, <2>6, <2>7
<1>4. ASSUME NEW k \in Streams, Fail(k)
      PROVE  Woke /\ Kept /\ Wakes
    <2>1. /\ stream' = [stream EXCEPT ![k].st = IF @ = "closed" THEN @ ELSE "failing"]
          /\ UNCHANGED listed
          /\ viewer' = Broadcast(k)
        BY <1>4 DEF Fail, Report
    <2>2. \A j \in Streams : Open(j) => Open(j)'
        BY <1>0, <2>1 DEF Open, Stream
    <2>3. QED
        BY <1>0, <1>1, <2>1, <2>2, Woken
<1>5. ASSUME NEW k \in Streams, PumpEnds(k) \/ Fire(k) \/ Cancel(k) \/ Unlist(k)
      PROVE  Woke /\ Kept /\ Wakes
    <2>1. UNCHANGED viewer /\ (UNCHANGED listed \/ MapFree)
        BY <1>5 DEF PumpEnds, Fire, Cancel, Unlist
    <2>2. ASSUME NEW j \in Streams
          PROVE  stream'[j].st = stream[j].st
        <3>1. CASE Fire(k)
            BY <1>0, <3>1 DEF Fire, Stream
        <3>2. CASE Unlist(k)
            BY <1>0, <3>2 DEF Unlist, Stream
        <3>3. CASE Cancel(k)
            BY <1>0, <3>3 DEF Cancel, Stream
        <3>4. CASE PumpEnds(k)
            BY <1>0, <3>4 DEF PumpEnds, Stream
        <3>5. QED
            BY <1>5, <3>1, <3>2, <3>3, <3>4
    <2>3. QED
        BY <1>0, <1>1, <2>1, <2>2 DEF Open, MapFree
<1>6. ASSUME NEW k \in Streams, StopIfIdle(k)
      PROVE  Woke /\ Kept /\ Wakes
    <2>1. UNCHANGED listed /\ Free(k)
        BY <1>6 DEF StopIfIdle
    <2>2. CASE stream[k].refs > 0
        <3>1. /\ UNCHANGED viewer
              /\ stream' = [stream EXCEPT ![k].fired = @ - 1, ![k].idle = FALSE]
            BY <1>6, <2>2 DEF StopIfIdle
        <3>2. ASSUME NEW j \in Streams
              PROVE  stream'[j].st = stream[j].st
            BY <1>0, <3>1 DEF Stream
        <3>3. QED
            BY <1>0, <1>1, <2>1, <3>1, <3>2 DEF Open
    <2>3. CASE ~(stream[k].refs > 0)
        <3>1. viewer' = Broadcast(k)
            BY <1>6, <2>3 DEF StopIfIdle
        <3>2. \A j \in Streams : j # k => stream'[j] = stream[j]
            BY <1>0, <1>6, <2>3 DEF StopIfIdle
        <3>3. ASSUME NEW v \in Viewers, viewer'[v].pc \in {"checked", "wait"}
              PROVE  stream'[viewer[v].s].st # "closed"
            <4>1. viewer[v].pc \in {"checked", "wait"}
                BY <1>0, <3>1, <3>3, Woken
            <4>2. viewer[v].s # k
                BY <1>0, <2>1, <3>1, <3>3, Woken DEF Free
            <4>3. QED
                BY <1>0, <3>2, <4>1, <4>2 DEF Open
        <3>4. QED
            BY <1>0, <2>1, <3>1, <3>3, Woken
    <2>4. QED
        BY <2>2, <2>3
<1>7. CASE Configure
    <2>1. viewer' = Broadcast(listed) /\ MapFree /\ Free(listed)
        BY <1>7 DEF Configure, StopStream
    <2>2. \A j \in Streams : j # listed => stream'[j] = stream[j]
        BY <1>0, <1>7 DEF Configure, StopStream
    <2>3. ASSUME NEW v \in Viewers, viewer'[v].pc \in {"checked", "wait"}
          PROVE  stream'[viewer[v].s].st # "closed"
        <3>1. viewer[v].pc \in {"checked", "wait"}
            BY <1>0, <2>1, <2>3, Woken
        <3>2. viewer[v].s # listed
            BY <1>0, <2>1, <2>3, Woken DEF Free
        <3>3. QED
            BY <1>0, <2>2, <3>1, <3>2 DEF Open
    <2>4. QED
        BY <1>0, <2>1, <2>3, Woken DEF MapFree
<1>8. CASE UNCHANGED vars
    BY <1>0, <1>1, <1>8 DEF vars, Open
<1>9. QED
    BY <1>2, <1>3, <1>4, <1>5, <1>6, <1>7, <1>8 DEF StreamStep

LEMMA OutsideSize ==
    /\ IsFiniteSet(Outside) /\ Cardinality(Outside) \in 0..Cardinality(Viewers)
    /\ Cardinality(Outside') \in 0..Cardinality(Viewers)
<1>1. Outside \subseteq Viewers /\ Outside' \subseteq Viewers
    BY DEF Outside
<1>2. QED
    BY <1>1, Numbers, FS_Subset, FS_CardinalityType

\* A viewer that comes in is counted, one that leaves is not any more.
LEMMA ViewersAreCounted ==
    ASSUME ViewInv, NEW v \in Viewers,
           Subscribe(v) \/ ViewerStep(v) \/ Latest(v) \/ Write(v) \/ Disconnect(v)
    PROVE  CountsFit'
<1>0. /\ stream \in [Streams -> Stream] /\ listed \in Streams \cup {None} /\ CountsFit
      /\ viewer \in [Viewers -> ViewerType]
      /\ viewer[v].pc = "join" => listed # None /\ viewer[v].s = listed
    BY DEF ViewInv, IInv, Typed, ViewersKnow
<1>1. PICK w \in ViewerType :
        /\ viewer' = [viewer EXCEPT ![v] = w]
        /\ \/ Subscribe(v) /\ viewer[v].pc = "out" /\ w.pc = "join"
           \/ Join(v) /\ viewer[v].pc = "join" /\ w.pc = "next"
           \/ Leave(v) /\ viewer[v].pc = "leave" /\ w.pc = "out"
           \/ /\ ~Subscribe(v) /\ ~Join(v) /\ ~Leave(v)
              /\ viewer[v].pc \notin {"out", "join"} /\ w.pc \notin {"out", "join"}
    BY ViewerSteps
<1>2. viewer'[v] = w /\ \A u \in Viewers : u # v => viewer'[u] = viewer[u]
    BY <1>0, <1>1
<1>3. CASE Subscribe(v) /\ w.pc = "join" /\ viewer[v].pc = "out"
    <2>1. Outside' = Outside
        BY <1>2, <1>3 DEF Outside
    <2>2. CASE UNCHANGED <<listed, stream>>
        BY <1>0, <2>1, <2>2 DEF CountsFit
    <2>3. ASSUME NEW k \in Streams, stream' = [stream EXCEPT ![k] = NewStream], listed' = k
          PROVE  CountsFit'
        <3>1. stream'[listed'].refs = 0
            BY <1>0, <2>3 DEF NewStream
        <3>2. QED
            BY <3>1, OutsideSize DEF CountsFit
    <2>4. QED
        BY <1>3, <2>2, <2>3 DEF Subscribe
<1>4. CASE Join(v) /\ w.pc = "next" /\ viewer[v].pc = "join"
    <2>1. v \in Outside /\ Outside' = Outside \ {v}
        BY <1>2, <1>4 DEF Outside
    <2>2. Cardinality(Outside') = Cardinality(Outside) - 1
        BY <2>1, OutsideSize, FS_RemoveElement
    <2>3. /\ listed' = listed /\ listed \in Streams
          /\ stream' = [stream EXCEPT ![listed].refs = @ + 1, ![listed].idle = FALSE,
                                      ![listed].armed = FALSE]
        BY <1>0, <1>4 DEF Join
    <2>4. stream'[listed].refs = stream[listed].refs + 1 /\ stream[listed].refs \in Int
        BY <1>0, <2>3 DEF Stream
    <2>5. stream'[listed].refs + Cardinality(Outside')
            = stream[listed].refs + Cardinality(Outside)
        BY <2>2, <2>4, OutsideSize
    <2>6. QED
        BY <1>0, <2>3, <2>5 DEF CountsFit
<1>5. CASE Leave(v) /\ w.pc = "out" /\ viewer[v].pc = "leave"
    <2>1. v \notin Outside /\ Outside' = Outside \cup {v}
        BY <1>2, <1>5 DEF Outside
    <2>2. Cardinality(Outside') = Cardinality(Outside) + 1
        BY <2>1, OutsideSize, FS_AddElement
    <2>3. CASE listed = None
        BY <1>5, <2>3 DEF Leave, CountsFit
    <2>4. CASE listed # None
        <3> DEFINE last == stream[listed].refs <= 1 /\ ~stream[listed].idle
        <3>1. /\ listed' = listed /\ listed \in Streams
              /\ stream' = [stream EXCEPT ![listed].refs = @ - 1, ![listed].idle = @ \/ last,
                                          ![listed].armed = @ \/ last]
            BY <1>0, <1>5, <2>4 DEF Leave
        <3> HIDE DEF last
        <3>2. stream'[listed].refs = stream[listed].refs - 1 /\ stream[listed].refs \in Int
            BY <1>0, <3>1 DEF Stream
        <3>3. stream'[listed].refs + Cardinality(Outside')
                = stream[listed].refs + Cardinality(Outside)
            BY <2>2, <3>2, OutsideSize
        <3>4. QED
            BY <1>0, <3>1, <3>3 DEF CountsFit
    <2>5. QED
        BY <2>3, <2>4
<1>6. CASE /\ ~Subscribe(v) /\ ~Join(v) /\ ~Leave(v)
           /\ viewer[v].pc \notin {"out", "join"} /\ w.pc \notin {"out", "join"}
    <2>1. Outside' = Outside
        BY <1>2, <1>6 DEF Outside
    <2>2. UNCHANGED <<listed, stream>>
        BY <1>6 DEF ViewerStep, Look, Sleep, Latest, Write, Disconnect
    <2>3. QED
        BY <1>0, <2>1, <2>2 DEF CountsFit
<1>7. QED
    BY <1>1, <1>3, <1>4, <1>5, <1>6

LEMMA OthersCountNobody ==
    ASSUME ViewInv,
           \/ \E v \in Viewers : Tell(v)
           \/ \E k \in Streams : StreamStep(k)
           \/ Configure
           \/ UNCHANGED vars
    PROVE  CountsFit'
<1>0. /\ stream \in [Streams -> Stream] /\ listed \in Streams \cup {None} /\ CountsFit
    BY DEF ViewInv, IInv, Typed
<1>1. Outside' = Outside
    BY OthersWake DEF Outside
<1>2. ASSUME listed' # None
      PROVE  listed' = listed /\ stream'[listed].refs = stream[listed].refs
    <2>1. ASSUME NEW k \in Streams, Publish(k) \/ Fail(k)
          PROVE  listed' = listed /\ stream'[listed].refs = stream[listed].refs
        <3>1. PICK s \in {"open", "failing"} :
                stream' = [stream EXCEPT ![k].st = IF @ = "closed" THEN @ ELSE s]
            BY <2>1 DEF Publish, Fail, Report
        <3>2. QED
            BY <1>0, <1>2, <2>1, <3>1 DEF Publish, Fail, Stream
    <2>2. ASSUME NEW k \in Streams, PumpEnds(k) \/ Fire(k) \/ Cancel(k)
          PROVE  listed' = listed /\ stream'[listed].refs = stream[listed].refs
        BY <1>0, <1>2, <2>2 DEF PumpEnds, Fire, Cancel, Stream
    <2>3. ASSUME NEW k \in Streams, StopIfIdle(k)
          PROVE  listed' = listed /\ stream'[listed].refs = stream[listed].refs
        <3>1. \/ stream' = [stream EXCEPT ![k].fired = @ - 1, ![k].idle = FALSE]
              \/ stream' = [stream EXCEPT ![k].fired = @ - 1, ![k].st = "closed",
                                          ![k].closing = @ + 1]
            BY <2>3 DEF StopIfIdle
        <3>2. listed' = listed /\ listed \in Streams
            BY <1>0, <1>2, <2>3 DEF StopIfIdle
        <3>3. stream'[listed].refs = stream[listed].refs
            BY <1>0, <3>1, <3>2 DEF Stream
        <3>4. QED
            BY <3>2, <3>3
    <2>4. ASSUME NEW k \in Streams, Unlist(k)
          PROVE  listed' = listed /\ stream'[listed].refs = stream[listed].refs
        <3>1. listed # k /\ listed' = listed
            BY <1>2, <2>4 DEF Unlist
        <3>2. QED
            BY <1>0, <1>2, <2>4, <3>1 DEF Unlist
    <2>5. ~Configure
        BY <1>2 DEF Configure, StopStream
    <2>6. QED
        BY <2>1, <2>2, <2>3, <2>4, <2>5 DEF StreamStep, Tell, vars
<1>3. QED
    BY <1>0, <1>1, <1>2 DEF CountsFit

\* A viewer is counted in or out by the listed stream only.
LEMMA OthersAreNotCounted ==
    ASSUME ViewInv, [Next]_vars, NEW j \in Streams, j # listed'
    PROVE  stream'[j].refs \in {0, stream[j].refs}
<1>0. stream \in [Streams -> Stream] /\ listed \in Streams \cup {None}
    BY DEF ViewInv, IInv, Typed
<1>1. ASSUME NEW v \in Viewers, Subscribe(v)
      PROVE  stream'[j].refs \in {0, stream[j].refs}
    BY <1>0, <1>1 DEF Subscribe
<1>2. ASSUME NEW v \in Viewers, Join(v)
      PROVE  stream'[j].refs \in {0, stream[j].refs}
    <2>1. viewer[v].s = listed /\ listed' = listed
        BY <1>2 DEF Join, ViewInv, ViewersKnow
    <2>2. QED
        BY <1>0, <1>2, <2>1 DEF Join
<1>3. ASSUME NEW v \in Viewers, Leave(v)
      PROVE  stream'[j].refs \in {0, stream[j].refs}
    BY <1>0, <1>3 DEF Leave
<1>4. ASSUME NEW k \in Streams, Publish(k) \/ Fail(k)
      PROVE  stream'[j].refs \in {0, stream[j].refs}
    <2>1. PICK s \in {"open", "failing"} :
            stream' = [stream EXCEPT ![k].st = IF @ = "closed" THEN @ ELSE s]
        BY <1>4 DEF Publish, Fail, Report
    <2>2. QED
        BY <1>0, <2>1 DEF Stream
<1>5. ASSUME NEW k \in Streams, PumpEnds(k) \/ Fire(k) \/ Cancel(k)
      PROVE  stream'[j].refs \in {0, stream[j].refs}
    BY <1>0, <1>5 DEF PumpEnds, Fire, Cancel, Stream
<1>6. ASSUME NEW k \in Streams, StopIfIdle(k)
      PROVE  stream'[j].refs \in {0, stream[j].refs}
    <2>1. \/ stream' = [stream EXCEPT ![k].fired = @ - 1, ![k].idle = FALSE]
          \/ stream' = [stream EXCEPT ![k].fired = @ - 1, ![k].st = "closed",
                                      ![k].closing = @ + 1]
        BY <1>6 DEF StopIfIdle
    <2>2. QED
        BY <1>0, <2>1 DEF Stream
<1>7. ASSUME NEW k \in Streams, Unlist(k)
      PROVE  stream'[j].refs \in {0, stream[j].refs}
    BY <1>0, <1>7 DEF Unlist, Stream
<1>8. ASSUME Configure
      PROVE  stream'[j].refs \in {0, stream[j].refs}
    BY <1>0, <1>8 DEF Configure, StopStream, Stopped, Stream
<1>9. QED
    BY <1>1, <1>2, <1>3, <1>4, <1>5, <1>6, <1>7, <1>8 DEF Next, ViewerStep, vars, Look, Sleep,
       Latest, Write, Disconnect, Tell

\* A timer that fires, and a callback that closes its stream, stay one.
Callbacks(r) == r.fired + r.closing + r.leaving

LEMMA CallbacksFit ==
    ASSUME ViewInv, [Next]_vars, NEW j \in Streams
    PROVE  Callbacks(stream'[j]) <= MaxFired
<1>0. /\ stream \in [Streams -> Stream] /\ listed \in Streams \cup {None}
      /\ stream[j] \in Stream /\ Callbacks(stream[j]) <= MaxFired
      /\ stream[j].fired \in Nat /\ stream[j].closing \in Nat /\ stream[j].leaving \in Nat
      /\ MaxFired \in Nat
    BY Numbers DEF ViewInv, IInv, Typed, Bounded, Stream, Callbacks
<1> DEFINE Same == /\ stream'[j].fired = stream[j].fired
                   /\ stream'[j].closing = stream[j].closing
                   /\ stream'[j].leaving = stream[j].leaving
<1>1. Same => Callbacks(stream'[j]) <= MaxFired
    BY <1>0 DEF Callbacks
<1>2. ASSUME NEW v \in Viewers, Subscribe(v)
      PROVE  Callbacks(stream'[j]) <= MaxFired
    <2>1. stream' = stream \/ \E k \in Streams : stream' = [stream EXCEPT ![k] = NewStream]
        BY <1>2 DEF Subscribe
    <2>2. Callbacks(NewStream) <= MaxFired
        BY <1>0 DEF NewStream, Callbacks
    <2>3. QED
        BY <1>0, <2>1, <2>2
<1>3. ASSUME NEW v \in Viewers, Join(v)
      PROVE  Same
    BY <1>0, <1>3 DEF Join, Stream
<1>4. ASSUME NEW v \in Viewers, Leave(v)
      PROVE  Same
    <2> DEFINE last == stream[listed].refs <= 1 /\ ~stream[listed].idle
    <2>1. \/ stream' = stream
          \/ stream' = [stream EXCEPT ![listed].refs = @ - 1, ![listed].idle = @ \/ last,
                                      ![listed].armed = @ \/ last]
        BY <1>4 DEF Leave
    <2> HIDE DEF last
    <2>2. QED
        BY <1>0, <2>1 DEF Stream
<1>5. ASSUME NEW k \in Streams, Publish(k) \/ Fail(k)
      PROVE  Same
    <2>1. PICK s \in {"open", "failing"} :
            stream' = [stream EXCEPT ![k].st = IF @ = "closed" THEN @ ELSE s]
        BY <1>5 DEF Publish, Fail, Report
    <2>2. QED
        BY <1>0, <2>1 DEF Stream
<1>6. ASSUME NEW k \in Streams, PumpEnds(k)
      PROVE  Same
    BY <1>0, <1>6 DEF PumpEnds, Stream
<1>7. ASSUME NEW k \in Streams, k # j, Fire(k) \/ StopIfIdle(k) \/ Cancel(k) \/ Unlist(k)
      PROVE  Same
    <2>1. CASE Fire(k) \/ Cancel(k) \/ Unlist(k)
        BY <1>0, <1>7, <2>1 DEF Fire, Cancel, Unlist
    <2>2. CASE StopIfIdle(k)
        <3>1. \/ stream' = [stream EXCEPT ![k].fired = @ - 1, ![k].idle = FALSE]
              \/ stream' = [stream EXCEPT ![k].fired = @ - 1, ![k].st = "closed",
                                          ![k].closing = @ + 1]
            BY <2>2 DEF StopIfIdle
        <3>2. QED
            BY <1>0, <1>7, <3>1
    <2>3. QED
        BY <1>7, <2>1, <2>2
<1>8. ASSUME Fire(j)
      PROVE  Callbacks(stream'[j]) <= MaxFired
    <2>1. /\ stream'[j] = [stream[j] EXCEPT !.armed = FALSE, !.fired = @ + 1]
          /\ Callbacks(stream[j]) < MaxFired
        BY <1>0, <1>8 DEF Fire, Callbacks
    <2>2. Callbacks(stream'[j]) = Callbacks(stream[j]) + 1 /\ Callbacks(stream[j]) \in Nat
        BY <1>0, <2>1 DEF Stream, Callbacks
    <2>3. QED
        BY <1>0, <2>1, <2>2
<1>9. ASSUME StopIfIdle(j)
      PROVE  Callbacks(stream'[j]) <= MaxFired
    <2>1. \/ stream'[j] = [stream[j] EXCEPT !.fired = @ - 1, !.idle = FALSE]
          \/ stream'[j] = [stream[j] EXCEPT !.fired = @ - 1, !.st = "closed", !.closing = @ + 1]
        BY <1>0, <1>9 DEF StopIfIdle
    <2>2. CASE stream'[j] = [stream[j] EXCEPT !.fired = @ - 1, !.idle = FALSE]
        <3>1. Callbacks(stream'[j]) = Callbacks(stream[j]) - 1 /\ Callbacks(stream[j]) \in Nat
            BY <1>0, <2>2 DEF Stream, Callbacks
        <3>2. QED
            BY <1>0, <3>1
    <2>3. CASE stream'[j] = [stream[j] EXCEPT !.fired = @ - 1, !.st = "closed", !.closing = @ + 1]
        <3>1. Callbacks(stream'[j]) = Callbacks(stream[j])
            BY <1>0, <2>3 DEF Stream, Callbacks
        <3>2. QED
            BY <1>0, <3>1
    <2>4. QED
        BY <2>1, <2>2, <2>3
<1>10. ASSUME Cancel(j) \/ Unlist(j)
       PROVE  Callbacks(stream'[j]) <= MaxFired
    <2>1. CASE Cancel(j)
        <3>1. stream'[j] = [stream[j] EXCEPT !.closing = @ - 1, !.leaving = @ + 1,
                                             !.pump = IF @ = "on" THEN "canceled" ELSE @]
            BY <1>0, <2>1 DEF Cancel
        <3>2. Callbacks(stream'[j]) = Callbacks(stream[j])
            BY <1>0, <3>1 DEF Stream, Callbacks
        <3>3. QED
            BY <1>0, <3>2
    <2>2. CASE Unlist(j)
        <3>1. stream'[j] = [stream[j] EXCEPT !.leaving = @ - 1, !.refs = 0, !.idle = FALSE]
            BY <1>0, <2>2 DEF Unlist
        <3>2. Callbacks(stream'[j]) = Callbacks(stream[j]) - 1 /\ Callbacks(stream[j]) \in Nat
            BY <1>0, <3>1 DEF Stream, Callbacks
        <3>3. QED
            BY <1>0, <3>2
    <2>3. QED
        BY <1>10, <2>1, <2>2
<1>11. ASSUME Configure
       PROVE  Same
    BY <1>0, <1>11 DEF Configure, StopStream, Stopped, Stream
<1>12. QED
    BY <1>0, <1>1, <1>2, <1>3, <1>4, <1>5, <1>6, <1>7, <1>8, <1>9, <1>10, <1>11 DEF Next,
       ViewerStep, vars, Look, Sleep, Latest, Write, Disconnect, Tell

LEMMA ViewStep ==
    ASSUME ViewInv, [Next]_vars
    PROVE  ViewInv'
<1>1. IInv'
    BY NextIInv DEF ViewInv
<1>2. ASSUME NEW v \in Viewers,
             Subscribe(v) \/ ViewerStep(v) \/ Latest(v) \/ Write(v) \/ Disconnect(v)
      PROVE  ViewersKnow' /\ CountsFit'
    BY <1>2, ViewersKnowTheirs, ViewersAreCounted
<1>3. ASSUME \/ \E v \in Viewers : Tell(v)
             \/ \E k \in Streams : StreamStep(k)
             \/ Configure
             \/ UNCHANGED vars
      PROVE  ViewersKnow' /\ CountsFit'
    <2>1. ViewersKnow'
        <3>1. ViewersKnow
            BY DEF ViewInv
        <3>2. viewer' \in [Viewers -> ViewerType]
            BY <1>3, OthersWake
        <3>3. ASSUME NEW v \in Viewers
              PROVE  /\ viewer'[v].pc = "join" => listed' # None /\ viewer'[v].s = listed'
                     /\ Joined(v)' => viewer'[v].s # None
                     /\ viewer'[v].pc \in {"checked", "wait"} => Open(viewer[v].s)'
            BY <1>3, <3>1, OthersWake DEF ViewersKnow, Joined, Open
        <3>4. QED
            BY <3>2, <3>3 DEF ViewersKnow
    <2>2. QED
        BY <1>3, <2>1, OthersCountNobody
<1>4. ViewersKnow' /\ CountsFit'
    BY <1>2, <1>3 DEF Next, StreamStep
<1>5. Bounded'
    <2>1. ASSUME NEW j \in Streams
          PROVE  stream'[j].refs \in (-Cardinality(Viewers))..Cardinality(Viewers)
        <3>1. CASE j = listed'
            <4>1. stream'[j].refs \in Int
                BY <1>1 DEF IInv, Typed, Stream
            <4>2. stream'[j].refs + Cardinality(Outside') \in 0..Cardinality(Viewers)
                BY <1>4, <3>1, Numbers DEF CountsFit
            <4>3. QED
                BY <4>1, <4>2, OutsideSize, Numbers
        <3>2. CASE j # listed'
            BY <3>2, OthersAreNotCounted, Numbers DEF ViewInv, Bounded
        <3>3. QED
            BY <3>1, <3>2
    <2>2. QED
        BY <2>1, CallbacksFit DEF Bounded, Callbacks
<1>6. QED
    BY <1>1, <1>4, <1>5 DEF ViewInv

\* What the viewers know and what the streams count holds from the start and
\* through every step, whoever has which lock.
THEOREM ViewInvariant == Spec => []ViewInv
<1>1. Init => ViewInv
    BY ViewInit
<1>2. ViewInv /\ [Next]_vars => ViewInv'
    BY ViewStep
<1>3. QED
    BY <1>1, <1>2, PTL DEF Spec

\* Every variable stays in its set; a stream counts no more viewers than there
\* are, nor ever fewer than minus that, though viewers of an earlier stream are
\* taken from the count of the one that replaced it.
THEOREM Typing == Spec => []TypeOK
<1>1. ViewInv => TypeOK
    <2> SUFFICES ASSUME ViewInv
                 PROVE  TypeOK
        OBVIOUS
    <2>1. /\ listed \in Streams \cup {None} /\ stream \in [Streams -> Stream] /\ Bounded
          /\ viewer \in [Viewers -> ViewerType]
        BY DEF ViewInv, IInv, Typed, ViewersKnow
    <2>2. ASSUME NEW k \in Streams
          PROVE  /\ stream[k].fired \in 0..MaxFired /\ stream[k].closing \in 0..MaxFired
                 /\ stream[k].leaving \in 0..MaxFired
        BY <2>1, Numbers DEF Stream, Bounded
    <2>3. \A k \in Streams :
            stream[k] \in [st : {"open", "failing", "closed"},
                           pump : {"on", "canceled", "off"},
                           refs : (-Cardinality(Viewers))..Cardinality(Viewers),
                           idle : BOOLEAN, armed : BOOLEAN, fired : 0..MaxFired,
                           closing : 0..MaxFired, leaving : 0..MaxFired]
        BY <2>1, <2>2 DEF Stream, Bounded
    <2>4. QED
        BY <2>1, <2>3 DEF TypeOK, ViewerType
<1>2. QED
    BY <1>1, ViewInvariant, PTL

\* Whichever of a viewer's check, an idle stop, a failing pump and a new endpoint
\* comes first, nobody is left asleep on a stream that is closed.
THEOREM SleepersAreWoken == Spec => []StoppedStreamsWake
<1>1. ViewInv => StoppedStreamsWake
    BY DEF ViewInv, ViewersKnow, StoppedStreamsWake
<1>2. QED
    BY <1>1, ViewInvariant, PTL
=============================================================================
