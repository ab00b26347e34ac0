-------------------------- MODULE GatewayLedger_proofs --------------------------
(***************************************************************************)
(* Proofs about the two ways a verdict leaves the harness.                 *)
(*                                                                         *)
(* Gateway, for every number of connections, every capacity and every      *)
(* bound: its type invariant, that no client queue is left behind in the   *)
(* dispatcher's registry, and that the console never goes back to an       *)
(* earlier verdict, across reconnects too.                                 *)
(*                                                                         *)
(* Ledger, for every number of deployers, keepers, entries and files: its  *)
(* type invariant, that no incident is lost, and that the chain is         *)
(* unbroken.                                                               *)
(***************************************************************************)
EXTENDS Gateway, Ledger, CommonLemmas


-----------------------------------------------------------------------------
(***************************************************************************)
(* Sequences of verdicts, as they are in the harness's queue and on the    *)
(* wire, and the verdicts of the frames in a client's queue.               *)
(***************************************************************************)
Verdicts == 0 .. LastVerdict

\* Every verdict of S was reached no later than every verdict of T.
NoLater(S, T) == \A x \in S, y \in T : x <= y

\* The frames are in the order in which display_loop made them.
InTurn(verdicts) == \A i, j \in 1 .. Len(verdicts) : i < j => verdicts[i] <= verdicts[j]

\* The verdicts that are on their way.
ContentsOf(verdicts) == {verdicts[i] : i \in 1 .. Len(verdicts)}

\* A queue display_loop or the broadcaster has emptied.
LEMMA OfNothing == InTurn(<<>>) /\ ContentsOf(<<>>) = {}
<1>1. Len(<<>>) = 0
  OBVIOUS
<1> QED BY <1>1 DEF InTurn, ContentsOf

\* A frame put at the end, as put_nowait and send_text do.
LEMMA OfAppended ==
  ASSUME NEW s \in Seq(Verdicts), NEW x \in Verdicts
  PROVE  /\ Append(s, x) \in Seq(Verdicts)
         /\ Len(Append(s, x)) = Len(s) + 1
         /\ ContentsOf(Append(s, x)) = ContentsOf(s) \cup {x}
         /\ InTurn(s) /\ NoLater(ContentsOf(s), {x}) => InTurn(Append(s, x))
<1> DEFINE t == Append(s, x)
           n == Len(s)
<1>1. n \in Nat /\ t \in Seq(Verdicts) /\ Len(t) = n + 1 /\ t[n + 1] = x
      /\ \A i \in 1 .. n : t[i] = s[i] /\ s[i] \in Verdicts
  BY AppendProperties, LenProperties, ElementOfSeq
<1> HIDE DEF t
<1>2. ContentsOf(t) = ContentsOf(s) \cup {x}
  <2>1. ASSUME NEW i \in 1 .. n + 1 PROVE t[i] \in ContentsOf(s) \cup {x}
    <3>1. i \in 1 .. n \/ i = n + 1
      BY <1>1
    <3> QED BY <1>1, <3>1 DEF ContentsOf
  <2>2. ASSUME NEW i \in 1 .. n PROVE s[i] \in ContentsOf(t)
    <3>1. i \in 1 .. Len(t) /\ s[i] = t[i]
      BY <1>1
    <3> QED BY <3>1 DEF ContentsOf
  <2>3. x \in ContentsOf(t)
    <3>1. n + 1 \in 1 .. Len(t)
      BY <1>1
    <3> QED BY <1>1, <3>1 DEF ContentsOf
  <2> QED BY <1>1, <2>1, <2>2, <2>3 DEF ContentsOf
<1>3. ASSUME InTurn(s), NoLater(ContentsOf(s), {x}) PROVE InTurn(t)
  <2>1. SUFFICES ASSUME NEW i \in 1 .. n + 1, NEW j \in 1 .. n + 1, i < j PROVE t[i] <= t[j]
    BY <1>1 DEF InTurn
  <2>2. i \in 1 .. n /\ t[i] = s[i] /\ s[i] \in ContentsOf(s)
    BY <1>1, <2>1 DEF ContentsOf
  <2>3. CASE j = n + 1
    BY <1>1, <1>3, <2>2, <2>3 DEF NoLater
  <2>4. CASE j # n + 1
    <3>1. j \in 1 .. n /\ t[j] = s[j]
      BY <1>1, <2>4
    <3> QED BY <1>3, <2>1, <2>2, <3>1 DEF InTurn
  <2> QED BY <2>3, <2>4
<1> QED BY <1>1, <1>2, <1>3 DEF t

\* The first frame taken away, as get_nowait and recv do.
LEMMA OfTaken ==
  ASSUME NEW s \in Seq(Verdicts), s # <<>>
  PROVE  /\ Head(s) \in Verdicts /\ Head(s) \in ContentsOf(s)
         /\ Tail(s) \in Seq(Verdicts) /\ Len(Tail(s)) = Len(s) - 1
         /\ ContentsOf(Tail(s)) \subseteq ContentsOf(s)
         /\ InTurn(s) => InTurn(Tail(s)) /\ NoLater({Head(s)}, ContentsOf(Tail(s)))
<1> DEFINE t == Tail(s)
           n == Len(s)
<1>1. /\ n \in Nat \ {0} /\ t \in Seq(Verdicts) /\ Len(t) = n - 1
      /\ Head(s) = s[1] /\ \A i \in 1 .. n - 1 : t[i] = s[i + 1]
      /\ \A i \in 1 .. n : s[i] \in Verdicts
  BY HeadTailProperties, LenProperties, ElementOfSeq, EmptySeq
<1> HIDE DEF t
<1>2. s[1] \in Verdicts /\ s[1] \in ContentsOf(s)
  <2>1. 1 \in 1 .. n
    BY <1>1
  <2> QED BY <1>1, <2>1 DEF ContentsOf
<1>3. ASSUME NEW i \in 1 .. n - 1 PROVE t[i] \in ContentsOf(s) /\ i + 1 \in 1 .. n
  <2>1. i + 1 \in 1 .. n /\ t[i] = s[i + 1]
    BY <1>1
  <2> QED BY <2>1 DEF ContentsOf
<1>4. ASSUME InTurn(s) PROVE InTurn(t) /\ NoLater({s[1]}, ContentsOf(t))
  <2>1. ASSUME NEW i \in 1 .. n - 1, NEW j \in 1 .. n - 1, i < j PROVE t[i] <= t[j]
    <3>1. i + 1 \in 1 .. n /\ j + 1 \in 1 .. n /\ i + 1 < j + 1
      BY <1>1, <2>1
    <3> QED BY <1>1, <1>4, <3>1 DEF InTurn
  <2>2. ASSUME NEW i \in 1 .. n - 1 PROVE s[1] <= t[i]
    <3>1. 1 \in 1 .. n /\ i + 1 \in 1 .. n /\ 1 < i + 1
      BY <1>1
    <3> QED BY <1>1, <1>4, <3>1 DEF InTurn
  <2> QED BY <1>1, <2>1, <2>2 DEF InTurn, NoLater, ContentsOf
<1>5. ContentsOf(t) \subseteq ContentsOf(s)
  BY <1>1, <1>3 DEF ContentsOf
<1> QED BY <1>1, <1>2, <1>4, <1>5 DEF t

\* The last frame, which is the one the broadcaster keeps of those it has drained.
LEMMA OfLast ==
  ASSUME NEW s \in Seq(Verdicts), s # <<>>
  PROVE  /\ Last(s) \in Verdicts /\ Last(s) \in ContentsOf(s)
<1>1. Len(s) \in Nat \ {0} /\ \A i \in 1 .. Len(s) : s[i] \in Verdicts
  BY LenProperties, ElementOfSeq, EmptySeq
<1>2. Len(s) \in 1 .. Len(s)
  BY <1>1
<1> QED BY <1>1, <1>2 DEF Last, ContentsOf

\* The verdicts the frames of a client's queue carry.
VerdictsOf(queue) == [i \in 1 .. Len(queue) |-> queue[i].verdict]

\* A frame carries its verdict, and is routine.
LEMMA FrameCarries ==
  /\ \A f \in Frames : f.verdict \in Verdicts /\ ~f.critical
  /\ \A v \in Verdicts : FrameOf(v) \in Frames /\ FrameOf(v).verdict = v
BY DEF Frames, FrameOf, Verdicts

\* A queue of frames is a sequence of verdicts.
LEMMA QueueVerdicts ==
  ASSUME NEW queue \in Seq(Frames)
  PROVE  VerdictsOf(queue) \in Seq(Verdicts) /\ Len(VerdictsOf(queue)) = Len(queue)
<1>1. Len(queue) \in Nat /\ \A i \in 1 .. Len(queue) : queue[i] \in Frames
  BY LenProperties, ElementOfSeq
<1> QED BY <1>1, FrameCarries DEF VerdictsOf

\* A frame put at the end of a client's queue puts its verdict at the end.
LEMMA QueueAppended ==
  ASSUME NEW queue \in Seq(Frames), NEW v \in Verdicts
  PROVE  /\ Append(queue, FrameOf(v)) \in Seq(Frames)
         /\ Len(Append(queue, FrameOf(v))) = Len(queue) + 1
         /\ VerdictsOf(Append(queue, FrameOf(v))) = Append(VerdictsOf(queue), v)
<1> DEFINE more == Append(queue, FrameOf(v))
           n == Len(queue)
           a == VerdictsOf(more)
           s == VerdictsOf(queue)
           b == Append(s, v)
<1>1. FrameOf(v) \in Frames /\ FrameOf(v).verdict = v
  BY FrameCarries
<1>2. n \in Nat /\ more \in Seq(Frames) /\ Len(more) = n + 1 /\ more[n + 1] = FrameOf(v)
      /\ \A i \in 1 .. n : more[i] = queue[i]
  BY <1>1, AppendProperties, LenProperties
<1> HIDE DEF more
<1>3. s \in Seq(Verdicts) /\ Len(s) = n
  BY QueueVerdicts
<1>4. \A i \in 1 .. n : s[i] = queue[i].verdict
  BY DEF VerdictsOf
<1>5. a \in Seq(Verdicts) /\ Len(a) = n + 1
  BY <1>2, QueueVerdicts
<1>6. \A i \in 1 .. n + 1 : a[i] = more[i].verdict
  BY <1>2 DEF VerdictsOf
<1> HIDE DEF s, a, n
<1>7. b \in Seq(Verdicts) /\ Len(b) = n + 1 /\ b[n + 1] = v /\ \A i \in 1 .. n : b[i] = s[i]
  <2>1. /\ b \in Seq(Verdicts) /\ Len(b) = Len(s) + 1 /\ b[Len(s) + 1] = v
        /\ \A i \in 1 .. Len(s) : b[i] = s[i]
    BY <1>3, AppendProperties
  <2> QED BY <1>3, <2>1
<1> HIDE DEF b
<1>8. ASSUME NEW i \in 1 .. n + 1 PROVE a[i] = b[i]
  <2>1. CASE i = n + 1
    BY <1>1, <1>2, <1>6, <1>7, <2>1
  <2>2. CASE i # n + 1
    <3>1. i \in 1 .. n
      BY <1>2, <2>2
    <3> QED BY <1>2, <1>4, <1>6, <1>7, <3>1
  <2> QED BY <2>1, <2>2
<1>9. a = b
  BY <1>5, <1>7, <1>8, SeqEqual
<1> QED BY <1>2, <1>9 DEF a, b, s, more, n

\* The first frame of a client's queue carries the first of its verdicts.
LEMMA QueueTaken ==
  ASSUME NEW queue \in Seq(Frames), queue # <<>>
  PROVE  /\ Tail(queue) \in Seq(Frames) /\ Len(Tail(queue)) = Len(queue) - 1
         /\ VerdictsOf(queue) # <<>>
         /\ Head(VerdictsOf(queue)) = Head(queue).verdict
         /\ VerdictsOf(Tail(queue)) = Tail(VerdictsOf(queue))
<1> DEFINE rest == Tail(queue)
           n == Len(queue)
           s == VerdictsOf(queue)
           a == VerdictsOf(rest)
           b == Tail(s)
<1>1. n \in Nat \ {0} /\ rest \in Seq(Frames) /\ Len(rest) = n - 1 /\ Head(queue) = queue[1]
      /\ \A i \in 1 .. n - 1 : rest[i] = queue[i + 1]
  BY HeadTailProperties, LenProperties, EmptySeq
<1> HIDE DEF rest
<1>2. s \in Seq(Verdicts) /\ Len(s) = n
  BY QueueVerdicts
<1>3. \A i \in 1 .. n : s[i] = queue[i].verdict
  BY DEF VerdictsOf
<1>4. a \in Seq(Verdicts) /\ Len(a) = n - 1
  BY <1>1, QueueVerdicts
<1>5. \A i \in 1 .. n - 1 : a[i] = rest[i].verdict
  BY <1>1 DEF VerdictsOf
<1> HIDE DEF s, a, n
<1>6. s # <<>>
  BY <1>1, <1>2
<1>7. b \in Seq(Verdicts) /\ Len(b) = n - 1 /\ Head(s) = s[1]
      /\ \A i \in 1 .. n - 1 : b[i] = s[i + 1]
  <2>1. /\ b \in Seq(Verdicts) /\ Len(b) = Len(s) - 1 /\ Head(s) = s[1]
        /\ \A i \in 1 .. Len(s) - 1 : b[i] = s[i + 1]
    BY <1>2, <1>6, HeadTailProperties
  <2> QED BY <1>2, <2>1
<1> HIDE DEF b
<1>8. ASSUME NEW i \in 1 .. n - 1 PROVE a[i] = b[i]
  <2>1. i + 1 \in 1 .. n
    BY <1>1
  <2> QED BY <1>1, <1>3, <1>5, <1>7, <2>1
<1>9. a = b
  BY <1>1, <1>4, <1>7, <1>8, SeqEqual
<1>10. Head(s) = Head(queue).verdict
  <2>1. 1 \in 1 .. n
    BY <1>1
  <2> QED BY <1>1, <1>3, <1>7, <2>1
<1> QED BY <1>1, <1>6, <1>9, <1>10 DEF a, b, s, rest, n

-----------------------------------------------------------------------------
(***************************************************************************)
(* Types.                                                                  *)
(***************************************************************************)
Boxes == [queue : Seq(Frames), drops : {0}, criticalDrops : {0}]

Handlers == [at : {"none", "accepted", "open", "closing", "gone"}, id : Conns]

\* A send loop that polls or sends has a queue, one that sends has a payload.
Senders ==
  {s \in [at : {"none", "start", "poll", "send", "ended"},
          box : 0 .. MaxConns, payload : {None} \cup Verdicts] :
     /\ s.at \in {"poll", "send"} => s.box # 0
     /\ s.at = "send" => s.payload # None}

Consoles == [at : {"away", "open"}, conn : 0 .. MaxConns, latest : {None} \cup Verdicts,
             fresh : BOOLEAN, connected : BOOLEAN, ever : BOOLEAN]

\* The harness, its queue and the broadcaster.
UpstreamTyped ==
  /\ verdict \in Verdicts
  /\ pipe \in Seq(Verdicts) /\ Len(pipe) <= PipeCapacity
  /\ pending \in {None} \cup Verdicts
  /\ losses \in 0 .. MaxLosses

\* The dispatcher, the handlers and the send loops.
ServerTyped ==
  /\ registry \in [Conns -> 0 .. MaxConns]
  /\ box \in [Conns -> Boxes]
  /\ \A c \in Conns : Len(box[c].queue) <= Capacity
  /\ handler \in [Conns -> Handlers]
  /\ sender \in [Conns -> Senders]

\* The connections and the console.
LinkTyped ==
  /\ wire \in [Conns -> Seq(Verdicts)]
  /\ \A c \in Conns : Len(wire[c]) <= WireCapacity
  /\ alive \in [Conns -> BOOLEAN]
  /\ client \in Consoles
  /\ client.at = "open" => client.conn # 0

\* TypeOK, and what a loop or the console has at each place.
Typed == UpstreamTyped /\ ServerTyped /\ LinkTyped

\* Typed says no less than TypeOK.
LEMMA GatewayTyped == Typed => TypeOK
<1> SUFFICES ASSUME Typed PROVE TypeOK
  OBVIOUS
<1>1. \A c \in Conns : /\ box[c].queue \in Seq(Frames) /\ Len(box[c].queue) <= Capacity
                       /\ box[c].drops = 0 /\ box[c].criticalDrops = 0
  BY DEF Typed, ServerTyped, Boxes
<1>2. \A c \in Conns : wire[c] \in Seq(0 .. LastVerdict) /\ Len(wire[c]) <= WireCapacity
  BY DEF Typed, LinkTyped, Verdicts
<1>3. \A c \in Conns :
       /\ box[c].queue \in Seq(Frames) /\ Len(box[c].queue) <= Capacity
       /\ box[c].drops = 0 /\ box[c].criticalDrops = 0
       /\ wire[c] \in Seq(0 .. LastVerdict) /\ Len(wire[c]) <= WireCapacity
  BY <1>1, <1>2
<1> QED BY <1>3 DEF TypeOK, Typed, UpstreamTyped, ServerTyped, LinkTyped, Verdicts, Handlers,
                   Senders, Consoles

\* What a broadcast leaves of a client's queue and its counters.
AfterBroadcast(b, v) == [Push(b, FrameOf(v)) EXCEPT !.drops = 0, !.criticalDrops = 0]

\* PriorityClientQueue.push of a routine frame puts it at the end or refuses it.
LEMMA RoutinePush ==
  ASSUME NEW b \in Boxes, Len(b.queue) <= Capacity, NEW v \in Verdicts
  PROVE  /\ AfterBroadcast(b, v) \in Boxes
         /\ Len(AfterBroadcast(b, v).queue) <= Capacity
         /\ \/ AfterBroadcast(b, v).queue = b.queue
            \/ AfterBroadcast(b, v).queue = Append(b.queue, FrameOf(v))
<1> DEFINE frame == FrameOf(v)
           new == AfterBroadcast(b, v)
           pushed == Push(b, frame)
<1>1. /\ b.queue \in Seq(Frames) /\ Len(b.queue) \in Nat /\ Capacity \in Nat
      /\ frame \in Frames /\ ~frame.critical
      /\ b = [queue |-> b.queue, drops |-> b.drops, criticalDrops |-> b.criticalDrops]
  BY CapacityAssumption, LenProperties, FrameCarries DEF Boxes
<1>2. new = [pushed EXCEPT !.drops = 0, !.criticalDrops = 0]
  BY DEF AfterBroadcast
<1> HIDE DEF frame, new
<1>3. CASE Len(b.queue) < Capacity
  <2> DEFINE more == Append(b.queue, frame)
  <2>1. pushed = [b EXCEPT !.queue = more]
    BY <1>1, <1>3 DEF Push, Accept
  <2>2. more \in Seq(Frames) /\ Len(more) = Len(b.queue) + 1
    BY <1>1, AppendProperties
  <2> HIDE DEF more, pushed
  <2>3. pushed = [queue |-> more, drops |-> b.drops, criticalDrops |-> b.criticalDrops]
    BY <1>1, <2>1
  <2>4. new = [queue |-> more, drops |-> 0, criticalDrops |-> 0]
    BY <1>2, <2>3
  <2>5. new \in Boxes /\ new.queue = more /\ Len(new.queue) <= Capacity
    <3>1. Len(more) <= Capacity
      BY <1>1, <1>3, <2>2
    <3>2. new \in Boxes
      BY <2>2, <2>4 DEF Boxes
    <3> QED BY <2>4, <3>1, <3>2
  <2> QED BY <2>5 DEF more, frame, new
<1>4. CASE Len(b.queue) >= Capacity
  <2>1. pushed = [b EXCEPT !.drops = @ + 1]
    BY <1>1, <1>4 DEF Push, Refuse
  <2> HIDE DEF pushed
  <2>2. pushed = [queue |-> b.queue, drops |-> b.drops + 1, criticalDrops |-> b.criticalDrops]
    BY <1>1, <2>1
  <2>3. new = [queue |-> b.queue, drops |-> 0, criticalDrops |-> 0]
    BY <1>2, <2>2
  <2> QED BY <1>1, <2>3 DEF Boxes, new
<1> QED BY <1>1, <1>3, <1>4

\* The queue register_client makes.
LEMMA EmptyIsBox == EmptyBox \in Boxes /\ Len(EmptyBox.queue) <= Capacity /\ EmptyBox.queue = <<>>
<1>1. <<>> \in Seq(Frames) /\ Len(<<>>) = 0
  OBVIOUS
<1> QED BY <1>1, CapacityAssumption DEF EmptyBox, Boxes

\* The queue a send loop has taken a frame from.
LEMMA PoppedIsBox ==
  ASSUME NEW b \in Boxes, b.queue # <<>>, Len(b.queue) <= Capacity
  PROVE  /\ Popped(b) \in Boxes /\ Len(Popped(b).queue) <= Capacity
         /\ Popped(b).queue = Tail(b.queue)
<1>1. b = [queue |-> b.queue, drops |-> 0, criticalDrops |-> 0] /\ b.queue \in Seq(Frames)
  BY DEF Boxes
<1>2. Tail(b.queue) \in Seq(Frames) /\ Len(Tail(b.queue)) = Len(b.queue) - 1
      /\ Len(b.queue) \in Nat
  BY <1>1, QueueTaken, LenProperties
<1>3. Popped(b) = [queue |-> Tail(b.queue), drops |-> 0, criticalDrops |-> 0]
  BY <1>1, SMTT(30) DEF Popped
<1> QED BY <1>2, <1>3, CapacityAssumption DEF Boxes

\* The gateway before anything has happened.
LEMMA TypedInit == Init => Typed
<1> SUFFICES ASSUME Init PROVE Typed
  OBVIOUS
<1>1. <<>> \in Seq(Verdicts) /\ Len(<<>>) = 0 /\ 0 \in Verdicts
      /\ 0 \in 0 .. MaxConns /\ 0 \in 0 .. MaxLosses
  BY BoundsAssumption DEF Verdicts
<1>2. UpstreamTyped
  BY <1>1, PipeCapacityAssumption DEF Init, UpstreamTyped
<1>3. ServerTyped
  BY <1>1, EmptyIsBox DEF Init, ServerTyped, Handlers, Senders
<1>4. LinkTyped
  BY <1>1, WireCapacityAssumption DEF Init, LinkTyped, Consoles
<1> QED BY <1>2, <1>3, <1>4 DEF Typed

\* display_loop and broadcast_telemetry_loop keep to the capacity of their queue.
LEMMA UpstreamStep == Typed /\ [Next]_vars => UpstreamTyped'
<1> SUFFICES ASSUME Typed, [Next]_vars PROVE UpstreamTyped'
  OBVIOUS
<1> USE DEF Typed
<1>1. CASE Decide
  BY <1>1, BoundsAssumption DEF Decide, UpstreamTyped, Verdicts
<1>2. CASE Publish
  <2>1. verdict \in Verdicts /\ pipe \in Seq(Verdicts) /\ Len(pipe) <= PipeCapacity
        /\ PipeCapacity \in Nat \ {0} /\ Len(pipe) \in Nat
    BY PipeCapacityAssumption, LenProperties DEF UpstreamTyped
  <2>2. CASE Len(pipe) = PipeCapacity
    <3>1. pipe # <<>>
      BY <2>1, <2>2
    <3>2. Tail(pipe) \in Seq(Verdicts) /\ Len(Tail(pipe)) = Len(pipe) - 1
      BY <2>1, <3>1, OfTaken
    <3>3. pipe' = Append(Tail(pipe), verdict)
      BY <1>2, <2>2 DEF Publish
    <3>4. pipe' \in Seq(Verdicts) /\ Len(pipe') = Len(Tail(pipe)) + 1
      BY <2>1, <3>2, <3>3, OfAppended
    <3>5. Len(pipe') <= PipeCapacity
      BY <2>1, <2>2, <3>2, <3>4
    <3> QED BY <1>2, <3>4, <3>5 DEF Publish, UpstreamTyped
  <2>3. CASE Len(pipe) # PipeCapacity
    <3>1. pipe' = Append(pipe, verdict)
      BY <1>2, <2>3 DEF Publish
    <3>2. pipe' \in Seq(Verdicts) /\ Len(pipe') = Len(pipe) + 1
      BY <2>1, <3>1, OfAppended
    <3>3. Len(pipe') <= PipeCapacity
      BY <2>1, <2>3, <3>2
    <3> QED BY <1>2, <3>2, <3>3 DEF Publish, UpstreamTyped
  <2> QED BY <2>2, <2>3
<1>3. CASE Drain
  <2>1. Last(pipe) \in Verdicts
    BY <1>3, OfLast DEF Drain, UpstreamTyped
  <2>2. <<>> \in Seq(Verdicts) /\ Len(<<>>) = 0
    OBVIOUS
  <2> QED BY <1>3, <2>1, <2>2, PipeCapacityAssumption DEF Drain, UpstreamTyped
<1>4. CASE Broadcast
  BY <1>4 DEF Broadcast, UpstreamTyped
<1>5. ASSUME NEW c \in Conns, Serve(c) \/ SendLoop(c) PROVE UpstreamTyped'
  BY <1>5 DEF Serve, Register, Disconnect, Unregister, HandlerGoes, SendLoop, StartSending,
              PopFrame, Send, LoseFrame, SenderGoes, UpstreamTyped
<1>6. ASSUME NEW c \in Conns, Break(c) PROVE UpstreamTyped'
  BY <1>6, BoundsAssumption DEF Break, UpstreamTyped
<1>7. CASE Consume \/ GrowStale
  BY <1>7 DEF Consume, Connect, Receive, FindBroken, TimeOut, Leave, GrowStale, UpstreamTyped
<1>8. CASE UNCHANGED vars
  BY <1>8 DEF vars, UpstreamTyped
<1> QED BY <1>1, <1>2, <1>3, <1>4, <1>5, <1>6, <1>7, <1>8 DEF Next

\* A step that is none of the server's.
LEMMA ServerKept == ServerTyped /\ UNCHANGED server => ServerTyped'
BY DEF ServerTyped, server

\* A broadcast pushes to the registered queues and resets their counters.
LEMMA BroadcastTyped == Typed /\ Broadcast => ServerTyped'
<1> SUFFICES ASSUME Typed, Broadcast PROVE ServerTyped'
  OBVIOUS
<1>1. pending \in Verdicts /\ ServerTyped
  BY DEF Broadcast, Typed, UpstreamTyped
<1>2. box' = [c \in Conns |-> IF c \in Range(registry) THEN AfterBroadcast(box[c], pending)
                                                        ELSE box[c]]
  BY DEF Broadcast, AfterBroadcast
<1>3. ASSUME NEW c \in Conns PROVE box'[c] \in Boxes /\ Len(box'[c].queue) <= Capacity
  <2>1. box[c] \in Boxes /\ Len(box[c].queue) <= Capacity
    BY <1>1 DEF ServerTyped
  <2>2. /\ AfterBroadcast(box[c], pending) \in Boxes
        /\ Len(AfterBroadcast(box[c], pending).queue) <= Capacity
    BY <1>1, <2>1, RoutinePush
  <2> QED BY <1>2, <2>1, <2>2
<1>4. box' \in [Conns -> Boxes]
  BY <1>2, <1>3
<1>5. UNCHANGED <<registry, handler, sender>>
  BY DEF Broadcast
<1> QED BY <1>1, <1>3, <1>4, <1>5 DEF ServerTyped

\* A handler goes from one await to another.
LEMMA HandlerTyped ==
  ASSUME ServerTyped, NEW c \in Conns, NEW from,
         NEW to \in {"accepted", "open", "closing", "gone"}, HandlerGoes(c, from, to)
  PROVE  /\ handler' \in [Conns -> Handlers]
         /\ handler'[c].at = to /\ handler[c].at = from
         /\ \A d \in Conns : handler'[d].id = handler[d].id
         /\ \A d \in Conns : d # c => handler'[d] = handler[d]
<1>1. handler \in [Conns -> Handlers] /\ handler[c] \in Handlers
  BY DEF ServerTyped
<1>2. handler' = [handler EXCEPT ![c] = [handler[c] EXCEPT !.at = to]] /\ handler[c].at = from
  BY DEF HandlerGoes
<1>3. [handler[c] EXCEPT !.at = to] = [at |-> to, id |-> handler[c].id]
  BY <1>1 DEF Handlers
<1>4. [at |-> to, id |-> handler[c].id] \in Handlers
  BY <1>1 DEF Handlers
<1> QED BY <1>1, <1>2, <1>3, <1>4

\* A send loop is something else.
LEMMA SenderTyped ==
  ASSUME ServerTyped, NEW c \in Conns, NEW s \in Senders, sender' = [sender EXCEPT ![c] = s]
  PROVE  /\ sender' \in [Conns -> Senders]
         /\ sender'[c] = s
         /\ \A d \in Conns : d # c => sender'[d] = sender[d]
BY DEF ServerTyped

\* register_client.
LEMMA RegisterTyped ==
  ASSUME Typed, NEW c \in Conns, Register(c)
  PROVE  ServerTyped'
<1>1. ServerTyped /\ handler[c].id \in Conns /\ sender[c] \in Senders /\ c \in 0 .. MaxConns
  <2>1. ServerTyped /\ handler[c].id \in Conns /\ sender[c] \in Senders
    BY DEF Typed, ServerTyped, Handlers
  <2>2. c \in 0 .. MaxConns
    BY BoundsAssumption DEF Conns
  <2> QED BY <2>1, <2>2
<1>2. handler' \in [Conns -> Handlers]
  BY <1>1, HandlerTyped DEF Register
<1>3. registry' \in [Conns -> 0 .. MaxConns]
  BY <1>1 DEF Register, ServerTyped
<1>4. box' = [box EXCEPT ![c] = EmptyBox]
  BY DEF Register
<1>5. box' \in [Conns -> Boxes] /\ \A d \in Conns : Len(box'[d].queue) <= Capacity
  BY <1>1, <1>4, EmptyIsBox DEF ServerTyped
<1>6. sender' \in [Conns -> Senders]
  <2> DEFINE s == [sender[c] EXCEPT !.at = "start"]
  <2>1. s \in Senders /\ s.at = "start"
    BY <1>1 DEF Senders
  <2>2. sender' = [sender EXCEPT ![c] = s]
    BY DEF Register
  <2> HIDE DEF s
  <2> QED BY <1>1, <2>1, <2>2, SenderTyped
<1> QED BY <1>2, <1>3, <1>5, <1>6 DEF ServerTyped

\* receive_text raises and the send loop is cancelled.
LEMMA DisconnectTyped ==
  ASSUME Typed, NEW c \in Conns, Disconnect(c)
  PROVE  ServerTyped'
<1>1. ServerTyped /\ sender[c] \in Senders
  BY DEF Typed, ServerTyped
<1>2. handler' \in [Conns -> Handlers]
  BY <1>1, HandlerTyped DEF Disconnect
<1>3. sender' \in [Conns -> Senders]
  <2> DEFINE s == [sender[c] EXCEPT !.at = "ended"]
  <2>1. s \in Senders /\ s.at = "ended"
    BY <1>1 DEF Senders
  <2>2. sender' = [sender EXCEPT ![c] = s]
    BY DEF Disconnect
  <2> HIDE DEF s
  <2> QED BY <1>1, <2>1, <2>2, SenderTyped
<1>4. UNCHANGED <<registry, box>>
  BY DEF Disconnect
<1> QED BY <1>1, <1>2, <1>3, <1>4 DEF ServerTyped

\* unregister_client.
LEMMA UnregisterTyped ==
  ASSUME Typed, NEW c \in Conns, Unregister(c)
  PROVE  ServerTyped'
<1>1. ServerTyped /\ 0 \in 0 .. MaxConns
  BY BoundsAssumption DEF Typed
<1>2. handler' \in [Conns -> Handlers]
  BY <1>1, HandlerTyped DEF Unregister
<1>3. registry' \in [Conns -> 0 .. MaxConns]
  BY <1>1 DEF Unregister, ServerTyped
<1>4. UNCHANGED <<box, sender>>
  BY DEF Unregister
<1> QED BY <1>1, <1>2, <1>3, <1>4 DEF ServerTyped

\* A send loop that takes its queue.
LEMMA TakesQueue ==
  ASSUME NEW s \in Senders, NEW at, NEW v
  PROVE  [s EXCEPT !.at = at, !.box = v] = [at |-> at, box |-> v, payload |-> s.payload]
<1> DEFINE x == s.at
           y == s.box
           z == s.payload
<1>1. s = [at |-> x, box |-> y, payload |-> z]
  BY DEF Senders
<1> HIDE DEF x, y, z
<1>2. [s EXCEPT !.at = at] = [at |-> at, box |-> y, payload |-> z]
  BY <1>1
<1>3. [s EXCEPT !.at = at, !.box = v] = [[s EXCEPT !.at = at] EXCEPT !.box = v]
  OBVIOUS
<1>4. [[at |-> at, box |-> y, payload |-> z] EXCEPT !.box = v] = [at |-> at, box |-> v, payload |-> z]
  OBVIOUS
<1>5. [s EXCEPT !.at = at, !.box = v] = [at |-> at, box |-> v, payload |-> z]
  BY <1>2, <1>3, <1>4
<1> QED BY <1>5 DEF x, y, z

\* A send loop that takes or hands over a frame.
LEMMA TakesPayload ==
  ASSUME NEW s \in Senders, NEW at, NEW v
  PROVE  [s EXCEPT !.at = at, !.payload = v] = [at |-> at, box |-> s.box, payload |-> v]
<1> DEFINE x == s.at
           y == s.box
           z == s.payload
<1>1. s = [at |-> x, box |-> y, payload |-> z]
  BY DEF Senders
<1> HIDE DEF x, y, z
<1>2. [s EXCEPT !.at = at] = [at |-> at, box |-> y, payload |-> z]
  BY <1>1
<1>3. [s EXCEPT !.at = at, !.payload = v] = [[s EXCEPT !.at = at] EXCEPT !.payload = v]
  OBVIOUS
<1>4. [[at |-> at, box |-> y, payload |-> z] EXCEPT !.payload = v] = [at |-> at, box |-> y, payload |-> v]
  OBVIOUS
<1>5. [s EXCEPT !.at = at, !.payload = v] = [at |-> at, box |-> y, payload |-> v]
  BY <1>2, <1>3, <1>4
<1> QED BY <1>5 DEF x, y, z

\* A send loop looks its queue up.
LEMMA StartTyped ==
  ASSUME Typed, NEW c \in Conns, StartSending(c)
  PROVE  ServerTyped'
<1> DEFINE q == registry[handler[c].id]
           s == [sender[c] EXCEPT !.at = IF q = 0 THEN "ended" ELSE "poll", !.box = q]
<1>1. ServerTyped /\ sender[c] \in Senders /\ handler[c].id \in Conns
  BY DEF Typed, ServerTyped, Handlers
<1>2. q \in 0 .. MaxConns
  BY <1>1 DEF ServerTyped
<1>3. sender' = [sender EXCEPT ![c] = s]
  BY DEF StartSending
<1> HIDE DEF q
<1>4. s = [at |-> IF q = 0 THEN "ended" ELSE "poll", box |-> q, payload |-> sender[c].payload]
  BY <1>1, TakesQueue
<1>5. s \in Senders
  BY <1>1, <1>2, <1>4 DEF Senders
<1> HIDE DEF s
<1>6. sender' \in [Conns -> Senders]
  BY <1>1, <1>3, <1>5, SenderTyped
<1>7. UNCHANGED <<registry, box, handler>>
  BY DEF StartSending, SenderGoes
<1> QED BY <1>1, <1>6, <1>7 DEF ServerTyped

\* A send loop takes the first frame of its queue.
LEMMA PopTyped ==
  ASSUME Typed, NEW c \in Conns, PopFrame(c)
  PROVE  ServerTyped'
<1> DEFINE q == sender[c].box
           v == Head(box[q].queue).verdict
           s == [sender[c] EXCEPT !.at = "send", !.payload = v]
<1>1. ServerTyped /\ sender[c] \in Senders /\ q \in Conns /\ box[q] \in Boxes
      /\ Len(box[q].queue) <= Capacity
  <2>1. ServerTyped /\ sender[c] \in Senders /\ q \in 0 .. MaxConns /\ q # 0
    BY DEF Typed, ServerTyped, Senders, PopFrame, SenderGoes
  <2>2. q \in Conns
    BY <2>1, BoundsAssumption DEF Conns
  <2> QED BY <2>1, <2>2 DEF ServerTyped
<1>2. box[q].queue # <<>> /\ box[q].queue \in Seq(Frames)
  BY <1>1 DEF PopFrame, Boxes
<1>3. v \in Verdicts /\ v # None
  <2>1. v \in Verdicts
    BY <1>2, FrameCarries, HeadTailProperties
  <2> HIDE DEF v
  <2> QED BY <2>1 DEF Verdicts, None
<1>4. sender' = [sender EXCEPT ![c] = s]
  BY DEF PopFrame
<1>5. box' = [box EXCEPT ![q] = Popped(box[q])]
  BY DEF PopFrame
<1>6. Popped(box[q]) \in Boxes /\ Len(Popped(box[q]).queue) <= Capacity
  BY <1>1, <1>2, PoppedIsBox
<1> HIDE DEF v
<1>7. s = [at |-> "send", box |-> q, payload |-> v]
  BY <1>1, TakesPayload
<1> HIDE DEF q
<1>8. s \in Senders
  <2>1. q \in 0 .. MaxConns /\ q # 0
    BY <1>1, BoundsAssumption DEF Conns
  <2> QED BY <1>3, <1>7, <2>1 DEF Senders
<1> HIDE DEF s
<1>9. sender' \in [Conns -> Senders]
  BY <1>1, <1>4, <1>8, SenderTyped
<1>10. box' \in [Conns -> Boxes] /\ \A d \in Conns : Len(box'[d].queue) <= Capacity
  BY <1>1, <1>5, <1>6 DEF ServerTyped
<1>11. UNCHANGED <<registry, handler>>
  BY DEF PopFrame, SenderGoes
<1> QED BY <1>1, <1>9, <1>10, <1>11 DEF ServerTyped

\* Send and LoseFrame leave the loop without a payload.
LEMMA HandedOver ==
  ASSUME Typed, NEW c \in Conns, NEW at \in {"poll", "ended"}, SenderGoes(c, "send"),
         sender' = [sender EXCEPT ![c].at = at, ![c].payload = None], UNCHANGED box
  PROVE  ServerTyped'
<1> DEFINE s == [sender[c] EXCEPT !.at = at, !.payload = None]
<1>1. ServerTyped /\ sender[c] \in Senders /\ sender[c].box # 0
  <2>1. ServerTyped /\ sender[c] \in Senders /\ sender[c].at = "send"
    BY DEF Typed, ServerTyped, SenderGoes
  <2> QED BY <2>1 DEF Senders
<1>2. sender' = [sender EXCEPT ![c] = s]
  OBVIOUS
<1>3. s = [at |-> at, box |-> sender[c].box, payload |-> None]
  BY <1>1, TakesPayload
<1>4. s \in Senders
  BY <1>1, <1>3 DEF Senders
<1> HIDE DEF s
<1>5. sender' \in [Conns -> Senders]
  BY <1>1, <1>2, <1>4, SenderTyped
<1>6. UNCHANGED <<registry, handler, box>>
  BY DEF SenderGoes
<1> QED BY <1>1, <1>5, <1>6 DEF ServerTyped

\* A connection's handler begins under an identifier, its own or the one before's.
LEMMA ConnectTyped == Typed /\ Connect => ServerTyped'
<1> SUFFICES ASSUME Typed, Connect PROVE ServerTyped'
  OBVIOUS
<1> DEFINE c == client.conn + 1
<1>1. ServerTyped /\ c \in Conns
  BY DEF Typed, Connect
<1>2. PICK i \in Identifiers(c) : handler' = [handler EXCEPT ![c] = [at |-> "accepted", id |-> i]]
  BY DEF Connect
<1> HIDE DEF c
<1>3. i \in Conns
  <2>1. CASE i = c
    BY <1>1, <2>1
  <2>2. CASE i # c
    <3>1. c > 1 /\ i = handler[c - 1].id
      BY <1>2, <2>2 DEF Identifiers
    <3>2. c - 1 \in Conns
      BY <1>1, <3>1, BoundsAssumption DEF Conns
    <3> QED BY <1>1, <3>1, <3>2 DEF ServerTyped, Handlers
  <2> QED BY <2>1, <2>2
<1>4. [at |-> "accepted", id |-> i] \in Handlers
  BY <1>3 DEF Handlers
<1>5. handler' \in [Conns -> Handlers]
  BY <1>1, <1>2, <1>4 DEF ServerTyped
<1>6. UNCHANGED <<registry, box, sender>>
  BY DEF Connect
<1> QED BY <1>1, <1>5, <1>6 DEF ServerTyped

\* The client queues keep to their capacity, whatever the server does.
LEMMA ServerStep == Typed /\ [Next]_vars => ServerTyped'
<1> SUFFICES ASSUME Typed, [Next]_vars PROVE ServerTyped'
  OBVIOUS
<1>1. CASE Decide \/ Publish \/ Drain \/ Receive \/ FindBroken \/ TimeOut \/ GrowStale
  <2>1. UNCHANGED server
    BY <1>1 DEF Decide, Publish, Drain, Receive, FindBroken, TimeOut, Leave, GrowStale
  <2> QED BY <2>1, ServerKept DEF Typed
<1>2. CASE Broadcast
  BY <1>2, BroadcastTyped
<1>3. ASSUME NEW c \in Conns, Serve(c) PROVE ServerTyped'
  BY <1>3, RegisterTyped, DisconnectTyped, UnregisterTyped DEF Serve
<1>4. ASSUME NEW c \in Conns, SendLoop(c) PROVE ServerTyped'
  <2>1. CASE StartSending(c) \/ PopFrame(c)
    BY <2>1, StartTyped, PopTyped
  <2>2. CASE Send(c)
    BY <2>2, HandedOver DEF Send
  <2>3. CASE LoseFrame(c)
    BY <2>3, HandedOver DEF LoseFrame
  <2> QED BY <1>4, <2>1, <2>2, <2>3 DEF SendLoop
<1>5. ASSUME NEW c \in Conns, Break(c) PROVE ServerTyped'
  BY <1>5, ServerKept DEF Break, Typed
<1>6. CASE Connect
  BY <1>6, ConnectTyped
<1>7. CASE UNCHANGED vars
  <2>1. UNCHANGED server
    BY <1>7 DEF vars, server
  <2> QED BY <2>1, ServerKept DEF Typed
<1> QED BY <1>1, <1>2, <1>3, <1>4, <1>5, <1>6, <1>7 DEF Next, Consume

\* A step that nothing on a connection or at the console is changed by.
LEMMA LinkKept == LinkTyped /\ UNCHANGED <<wire, alive, client>> => LinkTyped'
BY DEF LinkTyped

\* A frame is sent when there is room on the wire.
LEMMA SendTyped ==
  ASSUME Typed, NEW c \in Conns, Send(c)
  PROVE  LinkTyped' /\ sender[c].payload \in Verdicts
<1>1. wire[c] \in Seq(Verdicts) /\ Len(wire[c]) < WireCapacity /\ WireCapacity \in Nat
      /\ Len(wire[c]) \in Nat
  BY WireCapacityAssumption, LenProperties DEF Typed, LinkTyped, Send
<1>2. sender[c] \in Senders /\ sender[c].at = "send"
  BY DEF Typed, ServerTyped, Send, SenderGoes
<1>3. sender[c].payload \in Verdicts
  BY <1>2 DEF Senders
<1> DEFINE more == Append(wire[c], sender[c].payload)
<1>4. more \in Seq(Verdicts) /\ Len(more) = Len(wire[c]) + 1
  BY <1>1, <1>3, OfAppended
<1>5. wire' = [wire EXCEPT ![c] = more] /\ UNCHANGED <<alive, client>>
  BY DEF Send, SenderGoes
<1> HIDE DEF more
<1>6. Len(more) <= WireCapacity
  BY <1>1, <1>4
<1>7. wire' \in [Conns -> Seq(Verdicts)] /\ \A d \in Conns : Len(wire'[d]) <= WireCapacity
  BY <1>4, <1>5, <1>6 DEF Typed, LinkTyped
<1> QED BY <1>3, <1>5, <1>7 DEF Typed, LinkTyped

\* The console shows the first frame on the wire.
LEMMA ReceiveTyped ==
  ASSUME Typed, Receive
  PROVE  /\ LinkTyped'
         /\ client.conn \in Conns
         /\ client'.latest = Head(wire[client.conn])
         /\ client'.conn = client.conn
<1> DEFINE c == client.conn
           v == Head(wire[c])
           rest == Tail(wire[c])
<1>1. c \in Conns /\ client \in Consoles /\ client.at = "open"
  BY BoundsAssumption DEF Typed, LinkTyped, Receive, Consoles, Conns
<1>2. wire[c] \in Seq(Verdicts) /\ Len(wire[c]) <= WireCapacity /\ wire[c] # <<>>
      /\ WireCapacity \in Nat /\ Len(wire[c]) \in Nat
  BY <1>1, WireCapacityAssumption, LenProperties DEF Typed, LinkTyped, Receive
<1>3. v \in Verdicts /\ rest \in Seq(Verdicts) /\ Len(rest) = Len(wire[c]) - 1
  BY <1>2, OfTaken
<1>4. wire' = [wire EXCEPT ![c] = rest] /\ UNCHANGED alive
      /\ client' = [client EXCEPT !.latest = v, !.fresh = TRUE]
  BY DEF Receive
<1>5. Len(rest) <= WireCapacity
  BY <1>2, <1>3
<1> HIDE DEF v, rest
<1>6. wire' \in [Conns -> Seq(Verdicts)] /\ \A d \in Conns : Len(wire'[d]) <= WireCapacity
  BY <1>1, <1>3, <1>4, <1>5 DEF Typed, LinkTyped
<1>7. /\ client' \in Consoles /\ client'.latest = v
      /\ client'.conn = client.conn /\ client'.at = client.at
  BY <1>1, <1>3, <1>4 DEF Consoles
<1>8. client.conn # 0 /\ alive \in [Conns -> BOOLEAN]
  BY <1>1 DEF Typed, LinkTyped
<1> QED BY <1>1, <1>4, <1>6, <1>7, <1>8 DEF LinkTyped, v

\* The console gives its connection up and keeps the frame it shows.
LEMMA LeaveTyped ==
  ASSUME Typed, Leave
  PROVE  /\ LinkTyped'
         /\ client.conn \in Conns
         /\ client'.latest = client.latest
         /\ client'.conn = client.conn
<1> DEFINE c == client.conn
<1>1. c \in Conns /\ client \in Consoles
  BY BoundsAssumption DEF Typed, LinkTyped, Leave, Consoles, Conns
<1>2. wire' = [wire EXCEPT ![c] = <<>>] /\ alive' = [alive EXCEPT ![c] = FALSE]
      /\ client' = [client EXCEPT !.at = "away", !.connected = FALSE]
  BY DEF Leave
<1>3. <<>> \in Seq(Verdicts) /\ Len(<<>>) <= WireCapacity
  BY WireCapacityAssumption
<1>4. wire' \in [Conns -> Seq(Verdicts)] /\ \A d \in Conns : Len(wire'[d]) <= WireCapacity
  BY <1>1, <1>2, <1>3 DEF Typed, LinkTyped
<1>5. /\ client' \in Consoles /\ client'.latest = client.latest
      /\ client'.conn = client.conn /\ client'.at = "away"
  BY <1>1, <1>2 DEF Consoles
<1>6. alive' \in [Conns -> BOOLEAN]
  BY <1>2 DEF Typed, LinkTyped
<1> QED BY <1>1, <1>4, <1>5, <1>6 DEF LinkTyped

\* The console opens its next connection and keeps the frame it shows.
LEMMA ConnectLink ==
  ASSUME Typed, Connect
  PROVE  /\ LinkTyped'
         /\ client'.latest = client.latest
         /\ client'.conn = client.conn + 1
         /\ client.conn \in Nat
         /\ client'.conn \in Conns
<1> DEFINE c == client.conn + 1
<1>1. c \in Conns /\ client \in Consoles
  BY DEF Typed, LinkTyped, Connect
<1>2. client' = [client EXCEPT !.at = "open", !.conn = c, !.connected = TRUE, !.ever = TRUE]
      /\ alive' = [alive EXCEPT ![c] = TRUE] /\ UNCHANGED wire
  BY DEF Connect
<1>3. client.conn \in Nat
  BY <1>1, BoundsAssumption DEF Consoles
<1> HIDE DEF c
<1>4. c \in 0 .. MaxConns /\ c # 0
  BY <1>1, BoundsAssumption DEF Conns
<1>5. /\ client' \in Consoles /\ client'.latest = client.latest /\ client'.conn = c
  BY <1>1, <1>2, <1>4 DEF Consoles
<1>6. alive' \in [Conns -> BOOLEAN]
  BY <1>2 DEF Typed, LinkTyped
<1> QED BY <1>1, <1>2, <1>3, <1>4, <1>5, <1>6 DEF Typed, LinkTyped, c

\* The wires keep to their capacity, and an open console has a connection.
LEMMA LinkStep == Typed /\ [Next]_vars => LinkTyped'
<1> SUFFICES ASSUME Typed, [Next]_vars PROVE LinkTyped'
  OBVIOUS
<1>1. CASE Decide \/ Publish \/ Drain \/ Broadcast
  BY <1>1, LinkKept DEF Decide, Publish, Drain, Broadcast, Typed
<1>2. ASSUME NEW c \in Conns, Serve(c) PROVE LinkTyped'
  BY <1>2, LinkKept DEF Serve, Register, Disconnect, Unregister, HandlerGoes, Typed
<1>3. ASSUME NEW c \in Conns, SendLoop(c) PROVE LinkTyped'
  BY <1>3, LinkKept, SendTyped DEF SendLoop, StartSending, PopFrame, LoseFrame, SenderGoes, Typed
<1>4. ASSUME NEW c \in Conns, Break(c) PROVE LinkTyped'
  BY <1>4 DEF Break, Typed, LinkTyped
<1>5. CASE Consume
  BY <1>5, ConnectLink, ReceiveTyped, LeaveTyped DEF Consume, FindBroken, TimeOut
<1>6. CASE GrowStale
  <2>1. client \in Consoles /\ client' = [client EXCEPT !.fresh = FALSE]
        /\ UNCHANGED <<wire, alive>>
    BY <1>6 DEF GrowStale, Typed, LinkTyped
  <2>2. client' \in Consoles /\ client'.at = client.at /\ client'.conn = client.conn
    BY <2>1 DEF Consoles
  <2> QED BY <2>1, <2>2 DEF Typed, LinkTyped
<1>7. CASE UNCHANGED vars
  BY <1>7, LinkKept DEF vars, Typed
<1> QED BY <1>1, <1>2, <1>3, <1>4, <1>5, <1>6, <1>7 DEF Next

\* Types are kept by every step.
LEMMA TypedStep == Typed /\ [Next]_vars => Typed'
BY UpstreamStep, ServerStep, LinkStep DEF Typed

\* The type invariant: the harness's queue, the clients' queues and the wires never
\* hold more than their capacity, and a broadcast leaves no drop counted.
THEOREM GatewayTypeCorrect == Spec => []TypeOK
BY TypedInit, TypedStep, GatewayTyped, PTL DEF Spec

-----------------------------------------------------------------------------
(***************************************************************************)
(* Handlers, send loops and the registry.                                  *)
(***************************************************************************)

\* A send loop begins when its handler has registered; until it does nothing is on
\* the wire; the connections still to come have neither.
LoopSound(c) ==
  /\ sender[c].at = "none" <=> handler[c].at \in {"none", "accepted"}
  /\ sender[c].at \in {"none", "start"} => wire[c] = <<>>
  /\ c > client.conn => handler[c].at = "none"

\* An entry of the registry leads to a handler that goes by this identifier and has
\* not unregistered it yet.
HolderSound(i) ==
  registry[i] # 0 => /\ handler[registry[i]].at \in {"open", "closing"}
                     /\ handler[registry[i]].id = i

\* Of every connection and of every identifier.
LoopsSound == \A c \in Conns : LoopSound(c) /\ HolderSound(c)

\* No connection has been made.
LEMMA LoopsInit == Init => LoopsSound
<1> SUFFICES ASSUME Init, NEW c \in Conns PROVE LoopSound(c) /\ HolderSound(c)
  BY DEF LoopsSound
<1> QED BY DEF Init, LoopSound, HolderSound

\* An entry of the registry is a connection.
LEMMA RegisteredConn ==
  ASSUME Typed, NEW i \in Conns, registry[i] # 0
  PROVE  registry[i] \in Conns
<1>1. registry[i] \in 0 .. MaxConns
  BY DEF Typed, ServerTyped
<1> QED BY <1>1, BoundsAssumption DEF Conns

\* A step that leaves a connection's handler, send loop and frames alone.
LEMMA LoopKept ==
  ASSUME NEW c \in Conns, LoopSound(c), handler'[c] = handler[c], sender'[c] = sender[c],
         wire'[c] = wire[c], client'.conn = client.conn
  PROVE  LoopSound(c)'
BY DEF LoopSound

\* A step that leaves an identifier's entry and the handler it leads to alone.
LEMMA HolderKept ==
  ASSUME NEW i \in Conns, HolderSound(i), registry'[i] = registry[i],
         registry[i] # 0 => handler'[registry[i]] = handler[registry[i]]
  PROVE  HolderSound(i)'
BY DEF HolderSound

\* The handler starts its send loop, or cancels it.
LEMMA SenderGoesTo ==
  ASSUME Typed, NEW c \in Conns, NEW x, sender' = [sender EXCEPT ![c].at = x]
  PROVE  sender'[c].at = x /\ \A d \in Conns : d # c => sender'[d] = sender[d]
BY DEF Typed, ServerTyped, Senders

\* A handler that registers takes the entry of its identifier over.
LEMMA RegisterSound ==
  ASSUME Typed, LoopsSound, NEW c \in Conns, Register(c)
  PROVE  LoopsSound'
<1>1. /\ handler[c].at = "accepted" /\ handler'[c].at = "open"
      /\ \A d \in Conns : handler'[d].id = handler[d].id
      /\ \A d \in Conns : d # c => handler'[d] = handler[d]
  BY HandlerTyped DEF Register, Typed
<1>2. sender'[c].at = "start" /\ \A d \in Conns : d # c => sender'[d] = sender[d]
  BY SenderGoesTo DEF Register
<1>3. handler[c].id \in Conns /\ UNCHANGED <<wire, client>> /\ c # 0
      /\ registry' = [registry EXCEPT ![handler[c].id] = c]
  BY DEF Register, HandlerGoes, Typed, ServerTyped, Handlers, Conns
<1>4. registry'[handler[c].id] = c
      /\ \A i \in Conns : i # handler[c].id => registry'[i] = registry[i]
  BY <1>3 DEF Typed, ServerTyped
<1>5. ASSUME NEW d \in Conns PROVE LoopSound(d)'
  <2>1. CASE d = c
    BY <1>1, <1>2, <1>3, <2>1 DEF LoopsSound, LoopSound
  <2>2. CASE d # c
    BY <1>1, <1>2, <1>3, <2>2, LoopKept DEF LoopsSound
  <2> QED BY <2>1, <2>2
<1>6. ASSUME NEW i \in Conns PROVE HolderSound(i)'
  <2>1. CASE i = handler[c].id
    BY <1>1, <1>4, <2>1 DEF HolderSound
  <2>2. CASE i # handler[c].id
    <3>1. registry[i] # 0 => registry[i] \in Conns /\ registry[i] # c
      BY <1>1, RegisteredConn DEF LoopsSound, HolderSound
    <3> QED BY <1>1, <1>4, <2>2, <3>1, HolderKept DEF LoopsSound
  <2> QED BY <2>1, <2>2
<1> QED BY <1>5, <1>6 DEF LoopsSound

\* A handler whose connection has broken keeps its entry until it unregisters.
LEMMA DisconnectSound ==
  ASSUME Typed, LoopsSound, NEW c \in Conns, Disconnect(c)
  PROVE  LoopsSound'
<1>1. /\ handler[c].at = "open" /\ handler'[c].at = "closing"
      /\ \A d \in Conns : handler'[d].id = handler[d].id
      /\ \A d \in Conns : d # c => handler'[d] = handler[d]
  BY HandlerTyped DEF Disconnect, Typed
<1>2. sender'[c].at = "ended" /\ \A d \in Conns : d # c => sender'[d] = sender[d]
  BY SenderGoesTo DEF Disconnect
<1>3. UNCHANGED <<registry, wire, client>>
  BY DEF Disconnect, HandlerGoes
<1>4. ASSUME NEW d \in Conns PROVE LoopSound(d)'
  <2>1. CASE d = c
    BY <1>1, <1>2, <1>3, <2>1 DEF LoopsSound, LoopSound
  <2>2. CASE d # c
    BY <1>1, <1>2, <1>3, <2>2, LoopKept DEF LoopsSound
  <2> QED BY <2>1, <2>2
<1>5. ASSUME NEW i \in Conns PROVE HolderSound(i)'
  <2>1. registry[i] # 0 => registry[i] \in Conns
    BY RegisteredConn
  <2> QED BY <1>1, <1>3, <2>1 DEF LoopsSound, HolderSound
<1> QED BY <1>4, <1>5 DEF LoopsSound

\* A handler that unregisters leaves no entry that leads to it.
LEMMA UnregisterSound ==
  ASSUME Typed, LoopsSound, NEW c \in Conns, Unregister(c)
  PROVE  LoopsSound'
<1>1. /\ handler[c].at = "closing" /\ handler'[c].at = "gone"
      /\ \A d \in Conns : handler'[d].id = handler[d].id
      /\ \A d \in Conns : d # c => handler'[d] = handler[d]
  BY HandlerTyped DEF Unregister, Typed
<1>2. UNCHANGED <<sender, wire, client>> /\ handler[c].id \in Conns
      /\ registry' = [registry EXCEPT ![handler[c].id] = 0]
  BY DEF Unregister, HandlerGoes, Typed, ServerTyped, Handlers
<1>3. registry'[handler[c].id] = 0
      /\ \A i \in Conns : i # handler[c].id => registry'[i] = registry[i]
  BY <1>2 DEF Typed, ServerTyped
<1>4. ASSUME NEW d \in Conns PROVE LoopSound(d)'
  <2>1. CASE d = c
    BY <1>1, <1>2, <2>1 DEF LoopsSound, LoopSound
  <2>2. CASE d # c
    BY <1>1, <1>2, <2>2, LoopKept DEF LoopsSound
  <2> QED BY <2>1, <2>2
<1>5. ASSUME NEW i \in Conns PROVE HolderSound(i)'
  <2>1. CASE i = handler[c].id
    BY <1>3, <2>1 DEF HolderSound
  <2>2. CASE i # handler[c].id
    <3>1. registry[i] # 0 => registry[i] \in Conns /\ registry[i] # c
      BY <2>2, RegisteredConn DEF LoopsSound, HolderSound
    <3> QED BY <1>1, <1>3, <2>2, <3>1, HolderKept DEF LoopsSound
  <2> QED BY <2>1, <2>2
<1> QED BY <1>4, <1>5 DEF LoopsSound

\* What each turn of a send loop makes of it.
LEMMA SendLoopTurns ==
  ASSUME Typed, NEW c \in Conns
  PROVE  /\ StartSending(c) =>
              /\ sender[c].at = "start" /\ UNCHANGED wire
              /\ \/ sender'[c].at = "ended"
                 \/ sender'[c].at = "poll" /\ sender'[c].box = registry[handler[c].id]
         /\ PopFrame(c) =>
              /\ sender[c].at = "poll" /\ UNCHANGED wire
              /\ sender'[c].at = "send" /\ sender'[c].box = sender[c].box
              /\ sender'[c].payload = Head(box[sender[c].box].queue).verdict
         /\ Send(c) \/ LoseFrame(c) =>
              /\ sender[c].at = "send"
              /\ sender'[c].at \in {"poll", "ended"} /\ sender'[c].box = sender[c].box
         /\ Send(c) => sender'[c].at = "poll"
         /\ SendLoop(c) => \A d \in Conns : d # c => sender'[d] = sender[d]
<1>1. sender[c] \in Senders /\ sender \in [Conns -> Senders]
  BY DEF Typed, ServerTyped
<1>2. ASSUME StartSending(c)
      PROVE  /\ \/ sender'[c].at = "ended"
                \/ sender'[c].at = "poll" /\ sender'[c].box = registry[handler[c].id]
             /\ \A d \in Conns : d # c => sender'[d] = sender[d]
  <2> DEFINE q == registry[handler[c].id]
             at == IF q = 0 THEN "ended" ELSE "poll"
             s == [sender[c] EXCEPT !.at = at, !.box = q]
  <2>1. sender' = [sender EXCEPT ![c] = s]
    BY <1>2 DEF StartSending
  <2> HIDE DEF q
  <2>2. at \in {"poll", "ended"}
    OBVIOUS
  <2> HIDE DEF at
  <2>3. s = [at |-> at, box |-> q, payload |-> sender[c].payload]
    BY <1>1, TakesQueue
  <2> HIDE DEF s
  <2>4. sender'[c].at \in {"poll", "ended"} /\ sender'[c].box = q
    BY <1>1, <2>1, <2>2, <2>3
  <2>5. \A d \in Conns : d # c => sender'[d] = sender[d]
    BY <1>1, <2>1
  <2> QED BY <2>4, <2>5 DEF q
<1>3. ASSUME PopFrame(c)
      PROVE  /\ sender'[c].at = "send" /\ sender'[c].box = sender[c].box
             /\ sender'[c].payload = Head(box[sender[c].box].queue).verdict
             /\ \A d \in Conns : d # c => sender'[d] = sender[d]
  <2> DEFINE v == Head(box[sender[c].box].queue).verdict
             s == [sender[c] EXCEPT !.at = "send", !.payload = v]
  <2>1. sender' = [sender EXCEPT ![c] = s]
    BY <1>3 DEF PopFrame
  <2> HIDE DEF v
  <2>2. s = [at |-> "send", box |-> sender[c].box, payload |-> v]
    BY <1>1, TakesPayload
  <2> HIDE DEF s
  <2>3. sender'[c].at = "send" /\ sender'[c].box = sender[c].box /\ sender'[c].payload = v
    BY <1>1, <2>1, <2>2
  <2>4. \A d \in Conns : d # c => sender'[d] = sender[d]
    BY <1>1, <2>1
  <2> QED BY <2>3, <2>4 DEF v
<1>4. ASSUME NEW at \in {"poll", "ended"},
             sender' = [sender EXCEPT ![c].at = at, ![c].payload = None]
      PROVE  /\ sender'[c].at = at /\ sender'[c].box = sender[c].box
             /\ \A d \in Conns : d # c => sender'[d] = sender[d]
  <2> DEFINE s == [sender[c] EXCEPT !.at = at, !.payload = None]
  <2>1. sender' = [sender EXCEPT ![c] = s]
    BY <1>4
  <2>2. s = [at |-> at, box |-> sender[c].box, payload |-> None]
    BY <1>1, TakesPayload
  <2> HIDE DEF s
  <2> QED BY <1>1, <2>1, <2>2
<1>5. StartSending(c) => sender[c].at = "start" /\ UNCHANGED wire
  BY DEF StartSending, SenderGoes
<1>6. PopFrame(c) => sender[c].at = "poll" /\ UNCHANGED wire
  BY DEF PopFrame, SenderGoes
<1>7. Send(c) => /\ sender[c].at = "send"
                 /\ sender' = [sender EXCEPT ![c].at = "poll", ![c].payload = None]
  BY DEF Send, SenderGoes
<1>8. ASSUME LoseFrame(c)
      PROVE  /\ sender[c].at = "send"
             /\ \E at \in {"poll", "ended"} :
                  sender' = [sender EXCEPT ![c].at = at, ![c].payload = None]
  BY <1>8 DEF LoseFrame, SenderGoes
<1>9. ASSUME Send(c)
      PROVE  /\ sender[c].at = "send" /\ sender'[c].at = "poll" /\ sender'[c].box = sender[c].box
             /\ \A d \in Conns : d # c => sender'[d] = sender[d]
  BY <1>4, <1>7, <1>9
<1>10. ASSUME LoseFrame(c)
       PROVE  /\ sender[c].at = "send" /\ sender'[c].at \in {"poll", "ended"}
              /\ sender'[c].box = sender[c].box
              /\ \A d \in Conns : d # c => sender'[d] = sender[d]
  <2>1. PICK at \in {"poll", "ended"} :
          sender' = [sender EXCEPT ![c].at = at, ![c].payload = None]
    BY <1>8, <1>10
  <2>2. /\ sender'[c].at = at /\ sender'[c].box = sender[c].box
        /\ \A d \in Conns : d # c => sender'[d] = sender[d]
    BY <1>4, <2>1
  <2> QED BY <1>8, <1>10, <2>2
<1> QED BY <1>2, <1>3, <1>5, <1>6, <1>9, <1>10 DEF SendLoop

\* A send loop that runs goes on, or ends: it never is at its start again.
LEMMA SendLoopRuns ==
  ASSUME Typed, NEW c \in Conns, SendLoop(c)
  PROVE  /\ sender[c].at \in {"start", "poll", "send"}
         /\ sender'[c].at \in {"poll", "send", "ended"}
         /\ \A d \in Conns : d # c => sender'[d] = sender[d] /\ wire'[d] = wire[d]
         /\ UNCHANGED <<verdict, pipe, pending, registry, handler, client>>
<1>1. \A d \in Conns : d # c => wire'[d] = wire[d]
  BY DEF SendLoop, StartSending, PopFrame, Send, LoseFrame, Typed, LinkTyped
<1>2. UNCHANGED <<verdict, pipe, pending, registry, handler, client>>
  BY DEF SendLoop, StartSending, PopFrame, Send, LoseFrame, SenderGoes
<1> QED BY <1>1, <1>2, SendLoopTurns DEF SendLoop

\* A turn of a send loop.
LEMMA SendLoopSound ==
  ASSUME Typed, LoopsSound, NEW c \in Conns, SendLoop(c)
  PROVE  LoopsSound'
<1>1. /\ sender[c].at \in {"start", "poll", "send"}
      /\ sender'[c].at \in {"poll", "send", "ended"}
      /\ \A d \in Conns : d # c => sender'[d] = sender[d] /\ wire'[d] = wire[d]
      /\ UNCHANGED <<registry, handler, client>>
  BY SendLoopRuns
<1>2. ASSUME NEW d \in Conns PROVE LoopSound(d)'
  <2>1. CASE d = c
    BY <1>1, <2>1 DEF LoopsSound, LoopSound
  <2>2. CASE d # c
    BY <1>1, <2>2, LoopKept DEF LoopsSound
  <2> QED BY <2>1, <2>2
<1>3. ASSUME NEW i \in Conns PROVE HolderSound(i)'
  BY <1>1, HolderKept DEF LoopsSound
<1> QED BY <1>2, <1>3 DEF LoopsSound

\* The frames on a wire are received, or lost with their connection.
LEMMA FramesGone ==
  ASSUME Typed, LoopsSound, UNCHANGED server, client'.conn = client.conn,
         \A c \in Conns : wire'[c] = wire[c] \/ wire'[c] = <<>> \/ wire[c] # <<>>
  PROVE  LoopsSound'
<1>1. UNCHANGED <<registry, handler, sender>>
  BY DEF server
<1>2. ASSUME NEW d \in Conns PROVE LoopSound(d)'
  BY <1>1 DEF LoopsSound, LoopSound
<1>3. ASSUME NEW i \in Conns PROVE HolderSound(i)'
  BY <1>1, HolderKept DEF LoopsSound
<1> QED BY <1>2, <1>3 DEF LoopsSound

\* The connection the console opens is one nothing has been done for yet.
LEMMA ConnectSound ==
  ASSUME Typed, LoopsSound, Connect
  PROVE  /\ LoopsSound'
         /\ handler[client.conn + 1].at = "none" /\ sender[client.conn + 1].at = "none"
         /\ wire[client.conn + 1] = <<>>
<1> DEFINE c == client.conn + 1
<1>1. c \in Conns /\ client'.conn = c /\ client.conn \in Nat /\ c > client.conn
  BY ConnectLink
<1>2. PICK i : handler' = [handler EXCEPT ![c] = [at |-> "accepted", id |-> i]]
  BY DEF Connect
<1>3. UNCHANGED <<registry, sender, wire>>
  BY DEF Connect
<1> HIDE DEF c
<1>4. handler'[c].at = "accepted" /\ \A d \in Conns : d # c => handler'[d] = handler[d]
  BY <1>1, <1>2 DEF Typed, ServerTyped
<1>5. handler[c].at = "none" /\ sender[c].at = "none" /\ wire[c] = <<>>
  BY <1>1 DEF LoopsSound, LoopSound
<1>6. ASSUME NEW d \in Conns PROVE LoopSound(d)'
  <2>1. CASE d = c
    <3>1. ~(c > c)
      BY <1>1, BoundsAssumption DEF Conns
    <3> QED BY <1>1, <1>3, <1>4, <1>5, <2>1, <3>1 DEF LoopSound
  <2>2. CASE d # c
    <3>1. d > c => d > client.conn
      BY <1>1 DEF Conns
    <3> QED BY <1>1, <1>3, <1>4, <2>2, <3>1 DEF LoopsSound, LoopSound
  <2> QED BY <2>1, <2>2
<1>7. ASSUME NEW j \in Conns PROVE HolderSound(j)'
  <2>1. registry[j] # 0 => registry[j] \in Conns /\ registry[j] # c
    BY <1>5, RegisteredConn DEF LoopsSound, HolderSound
  <2> QED BY <1>3, <1>4, <2>1, HolderKept DEF LoopsSound
<1> QED BY <1>5, <1>6, <1>7 DEF LoopsSound, c

\* Handlers, send loops and the registry go together in every step.
LEMMA LoopsStep == Typed /\ LoopsSound /\ [Next]_vars => LoopsSound'
<1> SUFFICES ASSUME Typed, LoopsSound, [Next]_vars PROVE LoopsSound'
  OBVIOUS
<1>1. CASE Decide \/ Publish \/ Drain
  BY <1>1, FramesGone DEF Decide, Publish, Drain
<1>2. CASE Broadcast
  <2>1. UNCHANGED <<registry, handler, sender, wire, client>>
    BY <1>2 DEF Broadcast
  <2> QED BY <2>1, LoopKept, HolderKept DEF LoopsSound
<1>3. ASSUME NEW c \in Conns, Serve(c) PROVE LoopsSound'
  BY <1>3, RegisterSound, DisconnectSound, UnregisterSound DEF Serve
<1>4. ASSUME NEW c \in Conns, SendLoop(c) PROVE LoopsSound'
  BY <1>4, SendLoopSound
<1>5. ASSUME NEW c \in Conns, Break(c) PROVE LoopsSound'
  BY <1>5, FramesGone DEF Break
<1>6. CASE Connect
  BY <1>6, ConnectSound
<1>7. CASE Receive
  <2>1. wire \in [Conns -> Seq(Verdicts)] /\ client'.conn = client.conn
    BY <1>7, ReceiveTyped DEF Typed, LinkTyped
  <2>2. \A c \in Conns : wire'[c] = wire[c] \/ wire[c] # <<>>
    BY <1>7, <2>1 DEF Receive
  <2> QED BY <1>7, <2>1, <2>2, FramesGone DEF Receive
<1>8. CASE FindBroken \/ TimeOut
  <2>1. Leave
    BY <1>8 DEF FindBroken, TimeOut
  <2>2. wire \in [Conns -> Seq(Verdicts)] /\ client'.conn = client.conn
    BY <2>1, LeaveTyped DEF Typed, LinkTyped
  <2>3. \A c \in Conns : wire'[c] = wire[c] \/ wire'[c] = <<>>
    BY <2>1, <2>2 DEF Leave
  <2> QED BY <2>1, <2>2, <2>3, FramesGone DEF Leave
<1>9. CASE GrowStale
  <2>1. client \in Consoles /\ client' = [client EXCEPT !.fresh = FALSE]
        /\ UNCHANGED <<server, wire>>
    BY <1>9 DEF GrowStale, Typed, LinkTyped
  <2>2. client'.conn = client.conn
    BY <2>1 DEF Consoles
  <2> QED BY <2>1, <2>2, FramesGone
<1>10. CASE UNCHANGED vars
  <2>1. UNCHANGED <<server, wire, client>>
    BY <1>10 DEF vars, server
  <2> QED BY <2>1, FramesGone
<1> QED BY <1>1, <1>2, <1>3, <1>4, <1>5, <1>6, <1>7, <1>8, <1>9, <1>10 DEF Next, Consume

\* NoAbandonedQueue is half of what is known of the registry.
LEMMA LoopsServe == Typed /\ LoopsSound => NoAbandonedQueue
BY DEF LoopsSound, HolderSound, NoAbandonedQueue

\* A queue that is registered has a handler that will still unregister it, however
\* many connections share an identifier and in whatever order their handlers end.
THEOREM QueuesAreNotAbandoned == Spec => []NoAbandonedQueue
<1>1. Init => Typed /\ LoopsSound
  BY TypedInit, LoopsInit
<1>2. (Typed /\ LoopsSound) /\ [Next]_vars => (Typed /\ LoopsSound)'
  BY TypedStep, LoopsStep
<1> QED BY <1>1, <1>2, LoopsServe, PTL DEF Spec

-----------------------------------------------------------------------------
(***************************************************************************)
(* The order of the frames, from the harness to the console.               *)
(***************************************************************************)

\* What the console may show.
Reached == {None} \cup Verdicts

\* What has been decided, or is to be decided, and has not been broadcast yet.
ToCome == {verdict} \cup ContentsOf(pipe) \cup ({pending} \ {None})

\* What is in a client's queue.
Queued(q) == ContentsOf(VerdictsOf(box[q].queue))

\* The queue the send loop of c takes from, or will once it has looked it up.
SourceOf(c) ==
  CASE sender[c].at \in {"poll", "send"} -> sender[c].box
    [] sender[c].at = "start" -> registry[handler[c].id]
    [] OTHER -> 0

\* What the send loop of c will find there.
Awaited(c) == IF SourceOf(c) = 0 THEN {} ELSE Queued(SourceOf(c))

\* What it has taken and not sent yet.
InHand(c) == IF sender[c].at = "send" THEN {sender[c].payload} ELSE {}

\* The harness's queue is in order and the broadcaster is ahead of it.
UpstreamOrder ==
  /\ InTurn(pipe)
  /\ NoLater(ToCome, {verdict})
  /\ pending # None => NoLater({pending}, ContentsOf(pipe))

\* A client's queue is in order, and nothing older is to come.
QueueOrder(q) ==
  /\ InTurn(VerdictsOf(box[q].queue))
  /\ NoLater(Queued(q), ToCome)

\* What the console shows, what is on the wire, in the send loop's hand, in its
\* queue and still to be broadcast follow each other.
Ordered(latest, frames, hand, queued, later) ==
  /\ InTurn(frames)
  /\ NoLater({latest}, ContentsOf(frames) \cup hand)
  /\ NoLater(ContentsOf(frames), hand)
  /\ NoLater({latest} \cup ContentsOf(frames) \cup hand, queued \cup later)

\* The same of the console's connection.
LinkOrder(c) == Ordered(client.latest, wire[c], InHand(c), Awaited(c), ToCome)

\* The inductive invariant behind InOrder.
GatewayOrder ==
  /\ UpstreamOrder
  /\ \A q \in Conns : QueueOrder(q)
  /\ NoLater({client.latest}, ToCome)
  /\ client.conn # 0 => LinkOrder(client.conn)

\* An order of sets is one of their subsets.
LEMMA OrderOfSubset ==
  ASSUME NEW S, NEW T, NEW S2 \in SUBSET S, NEW T2 \in SUBSET T, NoLater(S, T)
  PROVE  NoLater(S2, T2)
BY DEF NoLater

\* What is to come are verdicts, the present one among them.
LEMMA ToComeTyped == Typed => ToCome \subseteq Verdicts /\ verdict \in ToCome
<1> SUFFICES ASSUME Typed PROVE ToCome \subseteq Verdicts /\ verdict \in ToCome
  OBVIOUS
<1>1. verdict \in Verdicts /\ pending \in {None} \cup Verdicts /\ pipe \in Seq(Verdicts)
  BY DEF Typed, UpstreamTyped
<1>2. \A i \in 1 .. Len(pipe) : pipe[i] \in Verdicts
  BY <1>1, ElementOfSeq
<1>3. ContentsOf(pipe) \subseteq Verdicts
  BY <1>2 DEF ContentsOf
<1> QED BY <1>1, <1>3 DEF ToCome

\* Verdicts only rise: what is no later than all that is to come remains so.
LEMMA StillToCome ==
  ASSUME Typed, UpstreamOrder, [Next]_vars
  PROVE  /\ UpstreamOrder'
         /\ \A x \in Reached : NoLater({x}, ToCome) => NoLater({x}, ToCome')
<1>1. verdict \in Verdicts /\ pending \in {None} \cup Verdicts /\ pipe \in Seq(Verdicts)
      /\ Verdicts \subseteq Int /\ Reached \subseteq Int
  BY DEF Typed, UpstreamTyped, Verdicts, Reached, None
<1>2. ToCome \subseteq Verdicts /\ NoLater(ToCome, {verdict}) /\ InTurn(pipe)
      /\ verdict \in ToCome /\ ContentsOf(pipe) \subseteq ToCome
  BY ToComeTyped DEF UpstreamOrder, ToCome
<1>3. CASE Decide
  <2>1. verdict' = verdict + 1 /\ UNCHANGED <<pipe, pending>>
    BY <1>3 DEF Decide
  <2>2. ToCome' \subseteq ToCome \cup {verdict + 1}
    BY <2>1 DEF ToCome
  <2>3. \A x \in Reached : x <= verdict => x <= verdict + 1
    BY <1>1
  <2>4. \A x \in ToCome : x <= verdict + 1
    BY <1>1, <1>2 DEF NoLater
  <2>5. NoLater(ToCome', {verdict'})
    BY <1>1, <2>1, <2>2, <2>4 DEF NoLater
  <2>6. ASSUME NEW x \in Reached, NoLater({x}, ToCome) PROVE NoLater({x}, ToCome')
    BY <1>2, <2>2, <2>3, <2>6 DEF NoLater
  <2> QED BY <2>1, <2>5, <2>6 DEF UpstreamOrder
<1>4. CASE Publish
  <2> DEFINE room == IF Len(pipe) = PipeCapacity THEN Tail(pipe) ELSE pipe
  <2>1. pipe' = Append(room, verdict) /\ UNCHANGED <<verdict, pending>>
    BY <1>4 DEF Publish
  <2>2. room \in Seq(Verdicts) /\ ContentsOf(room) \subseteq ContentsOf(pipe) /\ InTurn(room)
    <3>1. CASE Len(pipe) = PipeCapacity
      <4>1. pipe # <<>>
        BY <3>1, PipeCapacityAssumption
      <4> QED BY <1>1, <1>2, <3>1, <4>1, OfTaken
    <3>2. CASE Len(pipe) # PipeCapacity
      BY <1>1, <1>2, <3>2
    <3> QED BY <3>1, <3>2
  <2> HIDE DEF room
  <2>3. NoLater(ContentsOf(room), {verdict})
    BY <1>2, <2>2, OrderOfSubset
  <2>4. InTurn(pipe') /\ ContentsOf(pipe') = ContentsOf(room) \cup {verdict}
    BY <1>1, <2>1, <2>2, <2>3, OfAppended
  <2>5. ToCome' \subseteq ToCome
    BY <2>1, <2>2, <2>4 DEF ToCome
  <2>6. ASSUME pending # None PROVE NoLater({pending}, ContentsOf(pipe'))
    <3>1. pending \in ToCome
      BY <2>6 DEF ToCome
    <3>2. NoLater({pending}, ContentsOf(pipe)) /\ NoLater({pending}, {verdict})
      BY <1>2, <2>6, <3>1, OrderOfSubset DEF UpstreamOrder
    <3> QED BY <2>2, <2>4, <3>2 DEF NoLater
  <2>7. NoLater(ToCome', {verdict})
    BY <1>2, <2>5, OrderOfSubset
  <2> QED BY <2>1, <2>4, <2>5, <2>6, <2>7, OrderOfSubset DEF UpstreamOrder
<1>5. CASE Drain
  <2>1. pending' = Last(pipe) /\ pipe' = <<>> /\ pipe # <<>> /\ UNCHANGED verdict
    BY <1>5 DEF Drain
  <2>2. Last(pipe) \in ContentsOf(pipe)
    BY <1>1, <2>1, OfLast
  <2>3. InTurn(pipe') /\ ContentsOf(pipe') = {}
    BY <2>1, OfNothing
  <2>4. ToCome' \subseteq ToCome
    BY <2>1, <2>2, <2>3 DEF ToCome
  <2>5. NoLater({pending'}, ContentsOf(pipe'))
    BY <2>3 DEF NoLater
  <2>6. NoLater(ToCome', {verdict})
    BY <1>2, <2>4, OrderOfSubset
  <2> QED BY <2>1, <2>3, <2>4, <2>5, <2>6, OrderOfSubset DEF UpstreamOrder
<1>6. CASE Broadcast
  <2>1. pending' = None /\ UNCHANGED <<verdict, pipe>>
    BY <1>6 DEF Broadcast
  <2>2. ToCome' \subseteq ToCome
    BY <2>1 DEF ToCome
  <2>3. NoLater(ToCome', {verdict})
    BY <1>2, <2>2, OrderOfSubset
  <2> QED BY <1>2, <2>1, <2>2, <2>3, OrderOfSubset DEF UpstreamOrder
<1>7. CASE UNCHANGED <<verdict, pipe, pending>>
  BY <1>7 DEF UpstreamOrder, ToCome
<1>8. ASSUME NEW c \in Conns, Serve(c) \/ SendLoop(c) \/ Break(c)
      PROVE  UNCHANGED <<verdict, pipe, pending>>
  BY <1>8 DEF Serve, Register, Disconnect, Unregister, HandlerGoes, SendLoop, StartSending,
              PopFrame, Send, LoseFrame, SenderGoes, Break
<1>9. ASSUME Consume \/ GrowStale \/ UNCHANGED vars PROVE UNCHANGED <<verdict, pipe, pending>>
  BY <1>9 DEF Consume, Connect, Receive, FindBroken, TimeOut, Leave, GrowStale, vars
<1> QED BY <1>3, <1>4, <1>5, <1>6, <1>7, <1>8, <1>9 DEF Next

\* The same for a set of verdicts.
LEMMA SetStillToCome ==
  ASSUME Typed, UpstreamOrder, [Next]_vars, NEW S \in SUBSET Reached, NoLater(S, ToCome)
  PROVE  NoLater(S, ToCome')
<1>1. ASSUME NEW x \in S PROVE NoLater({x}, ToCome')
  <2>1. NoLater({x}, ToCome)
    BY OrderOfSubset
  <2> QED BY <2>1, StillToCome
<1> QED BY <1>1 DEF NoLater

\* What a broadcast adds to the queues.
Arriving == {pending} \ {None}

\* It was to come.
LEMMA ArrivingInTurn ==
  ASSUME Typed
  PROVE  Arriving \subseteq ToCome /\ Arriving \subseteq Verdicts
BY ToComeTyped DEF ToCome, Arriving

\* The three steps that change a queue: a broadcast, a registration and a pop.
LEMMA BoxMoves ==
  ASSUME Typed, [Next]_vars, NEW q \in Conns
  PROVE  \/ box'[q] = box[q]
         \/ box'[q].queue = <<>>
         \/ box[q].queue # <<>> /\ box'[q].queue = Tail(box[q].queue)
         \/ /\ Broadcast
            /\ \/ box'[q].queue = box[q].queue
               \/ box'[q].queue = Append(box[q].queue, FrameOf(pending))
<1>1. box \in [Conns -> Boxes] /\ Len(box[q].queue) <= Capacity
  BY DEF Typed, ServerTyped
<1>2. CASE Broadcast
  <2>1. pending \in Verdicts
    BY <1>2 DEF Broadcast, Typed, UpstreamTyped
  <2>2. box'[q] = box[q] \/ box'[q] = AfterBroadcast(box[q], pending)
    BY <1>2 DEF Broadcast, AfterBroadcast
  <2>3. \/ AfterBroadcast(box[q], pending).queue = box[q].queue
        \/ AfterBroadcast(box[q], pending).queue = Append(box[q].queue, FrameOf(pending))
    BY <1>1, <2>1, RoutinePush
  <2> QED BY <1>2, <2>2, <2>3
<1>3. ASSUME NEW c \in Conns, Register(c) PROVE box'[q] = box[q] \/ box'[q].queue = <<>>
  BY <1>1, <1>3, EmptyIsBox DEF Register
<1>4. ASSUME NEW c \in Conns, PopFrame(c)
      PROVE  \/ box'[q] = box[q]
             \/ box[q].queue # <<>> /\ box'[q].queue = Tail(box[q].queue)
  <2>1. box[sender[c].box].queue # <<>>
        /\ box' = [box EXCEPT ![sender[c].box] = Popped(box[sender[c].box])]
    BY <1>4 DEF PopFrame
  <2>2. CASE q = sender[c].box
    BY <1>1, <2>1, <2>2, PoppedIsBox
  <2>3. CASE q # sender[c].box
    BY <1>1, <2>1, <2>3
  <2> QED BY <2>2, <2>3
<1>5. CASE UNCHANGED box
  BY <1>5
<1>6. ASSUME NEW c \in Conns, Serve(c) \/ SendLoop(c) \/ Break(c), ~Register(c), ~PopFrame(c)
      PROVE  UNCHANGED box
  BY <1>6 DEF Serve, Disconnect, Unregister, SendLoop, StartSending, Send, LoseFrame, Break, server
<1>7. ASSUME Decide \/ Publish \/ Drain \/ Consume \/ GrowStale \/ UNCHANGED vars
      PROVE  UNCHANGED box
  BY <1>7 DEF Decide, Publish, Drain, Consume, Connect, Receive, FindBroken, TimeOut, Leave,
              GrowStale, vars, server
<1> QED BY <1>2, <1>3, <1>4, <1>5, <1>6, <1>7 DEF Next

\* A queue stays in order and gains nothing but what was to come.
LEMMA QueueMoves ==
  ASSUME Typed, UpstreamOrder, [Next]_vars, NEW q \in Conns, QueueOrder(q)
  PROVE  QueueOrder(q)' /\ Queued(q)' \subseteq Queued(q) \cup Arriving
<1> DEFINE old == VerdictsOf(box[q].queue)
           new == VerdictsOf(box'[q].queue)
<1>1. box[q].queue \in Seq(Frames)
  BY DEF Typed, ServerTyped, Boxes
<1>2. old \in Seq(Verdicts) /\ InTurn(old) /\ NoLater(ContentsOf(old), ToCome)
  BY <1>1, QueueVerdicts DEF QueueOrder, Queued
<1>3. /\ InTurn(new)
      /\ ContentsOf(new) \subseteq ContentsOf(old) \cup Arriving
      /\ Broadcast \/ ContentsOf(new) \subseteq ContentsOf(old)
  <2>1. CASE box'[q].queue = box[q].queue
    BY <1>2, <2>1
  <2>2. CASE box'[q].queue = <<>>
    <3>1. Len(<<>>) = 0
      OBVIOUS
    <3>2. Len(new) = 0
      BY <2>2, <3>1, EmptySeq, QueueVerdicts
    <3> QED BY <3>2 DEF InTurn, ContentsOf
  <2>3. CASE box[q].queue # <<>> /\ box'[q].queue = Tail(box[q].queue)
    <3>1. old # <<>> /\ new = Tail(old)
      BY <1>1, <2>3, QueueTaken
    <3> HIDE DEF old, new
    <3> QED BY <1>2, <3>1, OfTaken
  <2>4. CASE Broadcast /\ box'[q].queue = Append(box[q].queue, FrameOf(pending))
    <3>1. pending \in Verdicts /\ pending \in Arriving /\ pending \in ToCome
      BY <2>4 DEF Broadcast, Arriving, ToCome, Typed, UpstreamTyped
    <3>2. new = Append(old, pending)
      BY <1>1, <2>4, <3>1, QueueAppended
    <3>3. NoLater(ContentsOf(old), {pending})
      BY <1>2, <3>1, OrderOfSubset
    <3> HIDE DEF old, new
    <3> QED BY <1>2, <2>4, <3>1, <3>2, <3>3, OfAppended
  <2> QED BY <2>1, <2>2, <2>3, <2>4, BoxMoves
<1>4. ContentsOf(old) \subseteq Reached /\ Arriving \subseteq Reached
  <2>1. \A i \in 1 .. Len(old) : old[i] \in Verdicts
    BY <1>2, ElementOfSeq
  <2> QED BY <2>1, ArrivingInTurn DEF ContentsOf, Reached
<1>5. NoLater(ContentsOf(old), ToCome')
  BY <1>2, <1>4, SetStillToCome
<1>6. CASE Broadcast
  <2>1. pending # None /\ pending' = None /\ UNCHANGED <<verdict, pipe>> /\ pending \in Verdicts
    BY <1>6 DEF Broadcast, Typed, UpstreamTyped
  <2>2. ToCome' = {verdict} \cup ContentsOf(pipe) /\ pending \in ToCome
    BY <2>1 DEF ToCome
  <2>3. NoLater(Arriving, ToCome')
    <3>1. NoLater({pending}, {verdict}) /\ NoLater({pending}, ContentsOf(pipe))
      BY <2>1, <2>2, OrderOfSubset DEF UpstreamOrder
    <3> QED BY <2>2, <3>1 DEF NoLater, Arriving
  <2>4. NoLater(ContentsOf(new), ToCome')
    BY <1>3, <1>5, <2>3 DEF NoLater
  <2> QED BY <1>3, <2>4 DEF QueueOrder, Queued
<1>7. CASE ~Broadcast
  <2>1. NoLater(ContentsOf(new), ToCome')
    BY <1>3, <1>5, <1>7, OrderOfSubset
  <2> QED BY <1>3, <2>1 DEF QueueOrder, Queued
<1> QED BY <1>6, <1>7

\* There is no frame anywhere.
LEMMA GatewayOrderInit == Init => GatewayOrder
<1> SUFFICES ASSUME Init PROVE GatewayOrder
  OBVIOUS
<1>1. pipe = <<>> /\ verdict = 0 /\ pending = None /\ client.latest = None /\ client.conn = 0
  BY DEF Init
<1>2. InTurn(pipe) /\ ToCome = {0}
  BY <1>1, OfNothing DEF ToCome
<1>3. UpstreamOrder /\ NoLater({client.latest}, ToCome)
  BY <1>1, <1>2 DEF UpstreamOrder, NoLater, None
<1>4. ASSUME NEW q \in Conns PROVE QueueOrder(q)
  <2>1. box[q].queue = <<>>
    BY DEF Init, EmptyBox
  <2>2. <<>> \in Seq(Frames) /\ Len(<<>>) = 0
    OBVIOUS
  <2>3. Len(VerdictsOf(box[q].queue)) = 0
    BY <2>1, <2>2, QueueVerdicts
  <2> QED BY <2>3 DEF QueueOrder, Queued, InTurn, ContentsOf, NoLater
<1> QED BY <1>1, <1>3, <1>4 DEF GatewayOrder

\* Frames that are dropped, a hand that is emptied, and a queue that gains no more
\* than was to come, keep the order.
LEMMA OrderedKept ==
  ASSUME NEW latest, NEW frames, NEW hand, NEW queued, NEW later,
         Ordered(latest, frames, hand, queued, later),
         NEW frames2, InTurn(frames2), ContentsOf(frames2) \subseteq ContentsOf(frames),
         NEW hand2 \in SUBSET hand,
         NEW queued2 \in SUBSET (queued \cup later),
         NEW later2, NoLater({latest} \cup ContentsOf(frames) \cup hand, later2)
  PROVE  Ordered(latest, frames2, hand2, queued2, later2)
BY DEF Ordered, NoLater

\* The frame in hand is sent.
LEMMA OrderedSent ==
  ASSUME NEW latest, NEW frames \in Seq(Verdicts), NEW x \in Verdicts, NEW queued, NEW later,
         Ordered(latest, frames, {x}, queued, later)
  PROVE  Ordered(latest, Append(frames, x), {}, queued, later)
<1>1. /\ ContentsOf(Append(frames, x)) = ContentsOf(frames) \cup {x}
      /\ InTurn(Append(frames, x))
  BY OfAppended DEF Ordered
<1> QED BY <1>1 DEF Ordered, NoLater

\* The first frame on the wire is shown.
LEMMA OrderedReceived ==
  ASSUME NEW latest, NEW frames \in Seq(Verdicts), frames # <<>>, NEW hand, NEW queued, NEW later,
         Ordered(latest, frames, hand, queued, later)
  PROVE  /\ latest <= Head(frames)
         /\ NoLater({Head(frames)}, later)
         /\ Ordered(Head(frames), Tail(frames), hand, queued, later)
<1>1. /\ Head(frames) \in ContentsOf(frames)
      /\ ContentsOf(Tail(frames)) \subseteq ContentsOf(frames)
      /\ InTurn(Tail(frames)) /\ NoLater({Head(frames)}, ContentsOf(Tail(frames)))
  BY OfTaken DEF Ordered
<1> DEFINE h == Head(frames)
           t == ContentsOf(Tail(frames))
<1> HIDE DEF h, t
<1> QED BY <1>1 DEF Ordered, NoLater, h, t

\* The first frame of the queue is taken in hand.
LEMMA OrderedTaken ==
  ASSUME NEW latest, NEW frames, NEW q \in Seq(Verdicts), q # <<>>, InTurn(q), NEW later,
         Ordered(latest, frames, {}, ContentsOf(q), later), NoLater(ContentsOf(q), later)
  PROVE  Ordered(latest, frames, {Head(q)}, ContentsOf(Tail(q)), later)
<1> DEFINE h == Head(q)
           t == ContentsOf(Tail(q))
<1>1. /\ h \in ContentsOf(q) /\ t \subseteq ContentsOf(q) /\ NoLater({h}, t)
  BY OfTaken
<1> HIDE DEF h, t
<1> QED BY <1>1 DEF Ordered, NoLater, h, t

\* A connection nothing has been sent on.
LEMMA OrderedAfresh ==
  ASSUME NEW latest, NEW later, NoLater({latest}, later)
  PROVE  Ordered(latest, <<>>, {}, {}, later)
BY OfNothing DEF Ordered, NoLater

\* The queue of a send loop is some connection's.
LEMMA SourceTyped ==
  ASSUME Typed, NEW c \in Conns, SourceOf(c) # 0
  PROVE  SourceOf(c) \in Conns
<1>1. sender[c].box \in 0 .. MaxConns /\ registry[handler[c].id] \in 0 .. MaxConns
  BY DEF Typed, ServerTyped, Senders, Handlers
<1>2. SourceOf(c) \in 0 .. MaxConns
  BY <1>1 DEF SourceOf
<1> QED BY <1>2, BoundsAssumption DEF Conns

\* A send loop keeps to its queue, loses it, or comes to one that is new.
LEMMA SourceMoves ==
  ASSUME Typed, [Next]_vars, ~Connect, NEW c \in Conns
  PROVE  \/ SourceOf(c)' = 0
         \/ SourceOf(c)' = SourceOf(c)
         \/ SourceOf(c)' \in Conns /\ box'[SourceOf(c)'].queue = <<>>
<1>1. ASSUME NEW d \in Conns, Register(d)
      PROVE  \/ SourceOf(c)' = SourceOf(c)
             \/ SourceOf(c)' \in Conns /\ box'[SourceOf(c)'].queue = <<>>
  <2>1. /\ \A e \in Conns : handler'[e].id = handler[e].id
        /\ handler[c].id \in Conns /\ handler[d].id \in Conns
    BY <1>1, HandlerTyped DEF Register, Typed, ServerTyped, Handlers
  <2>2. sender'[d].at = "start" /\ \A e \in Conns : e # d => sender'[e] = sender[e]
    BY <1>1, SenderGoesTo DEF Register
  <2>3. /\ registry'[handler[d].id] = d
        /\ \A i \in Conns : i # handler[d].id => registry'[i] = registry[i]
    BY <1>1, <2>1 DEF Register, Typed, ServerTyped
  <2>4. box'[d].queue = <<>>
    BY <1>1, EmptyIsBox DEF Register, Typed, ServerTyped
  <2>5. CASE c = d
    BY <2>1, <2>2, <2>3, <2>4, <2>5 DEF SourceOf
  <2>6. CASE c # d
    BY <2>1, <2>2, <2>3, <2>4, <2>6 DEF SourceOf
  <2> QED BY <2>5, <2>6
<1>2. ASSUME NEW d \in Conns, Disconnect(d)
      PROVE  SourceOf(c)' = 0 \/ SourceOf(c)' = SourceOf(c)
  <2>1. /\ \A e \in Conns : handler'[e].id = handler[e].id
        /\ UNCHANGED registry
    BY <1>2, HandlerTyped DEF Disconnect, Typed
  <2>2. sender'[d].at = "ended" /\ \A e \in Conns : e # d => sender'[e] = sender[e]
    BY <1>2, SenderGoesTo DEF Disconnect
  <2> QED BY <2>1, <2>2 DEF SourceOf
<1>3. ASSUME NEW d \in Conns, Unregister(d)
      PROVE  SourceOf(c)' = 0 \/ SourceOf(c)' = SourceOf(c)
  <2>1. /\ \A e \in Conns : handler'[e].id = handler[e].id
        /\ handler[c].id \in Conns /\ handler[d].id \in Conns
    BY <1>3, HandlerTyped DEF Unregister, Typed, ServerTyped, Handlers
  <2>2. /\ UNCHANGED sender
        /\ \A i \in Conns : registry'[i] = registry[i] \/ registry'[i] = 0
    BY <1>3, <2>1 DEF Unregister, Typed, ServerTyped
  <2> QED BY <2>1, <2>2 DEF SourceOf
<1>4. ASSUME NEW d \in Conns, SendLoop(d)
      PROVE  SourceOf(c)' = 0 \/ SourceOf(c)' = SourceOf(c)
  <2>1. UNCHANGED <<registry, handler>> /\ \A e \in Conns : e # d => sender'[e] = sender[e]
    BY <1>4, SendLoopRuns
  <2>2. CASE c # d
    BY <2>1, <2>2 DEF SourceOf
  <2>3. CASE c = d
    <3>1. StartSending(c) \/ PopFrame(c) \/ Send(c) \/ LoseFrame(c)
      BY <1>4, <2>3 DEF SendLoop
    <3> QED BY <3>1, SendLoopTurns DEF SourceOf
  <2> QED BY <2>2, <2>3
<1>5. ASSUME UNCHANGED <<registry, handler, sender>> PROVE SourceOf(c)' = SourceOf(c)
  BY <1>5 DEF SourceOf
<1>6. ASSUME Decide \/ Publish \/ Drain \/ Broadcast \/ Receive \/ FindBroken \/ TimeOut
             \/ GrowStale \/ UNCHANGED vars
      PROVE  UNCHANGED <<registry, handler, sender>>
  BY <1>6 DEF Decide, Publish, Drain, Broadcast, Receive, FindBroken, TimeOut, Leave, GrowStale,
              vars, server
<1>7. ASSUME NEW d \in Conns, Break(d) PROVE UNCHANGED <<registry, handler, sender>>
  BY <1>7 DEF Break, server
<1> QED BY <1>1, <1>2, <1>3, <1>4, <1>5, <1>6, <1>7 DEF Next, Serve, Consume

\* What a send loop will find gains nothing but what was to come.
LEMMA AwaitedMoves ==
  ASSUME Typed, UpstreamOrder, \A q \in Conns : QueueOrder(q), [Next]_vars, ~Connect,
         NEW c \in Conns
  PROVE  Awaited(c)' \subseteq Awaited(c) \cup ToCome
<1>1. CASE SourceOf(c)' = 0
  BY <1>1 DEF Awaited
<1>2. CASE SourceOf(c)' = SourceOf(c) /\ SourceOf(c) # 0
  <2>1. PICK q \in Conns : q = SourceOf(c)
    BY <1>2, SourceTyped
  <2>2. Awaited(c)' = Queued(q)' /\ Awaited(c) = Queued(q)
    BY <1>2, <2>1 DEF Awaited, Queued
  <2>3. Queued(q)' \subseteq Queued(q) \cup ToCome
    BY <2>1, QueueMoves, ArrivingInTurn
  <2> QED BY <2>2, <2>3
<1>3. CASE SourceOf(c)' \in Conns /\ box'[SourceOf(c)'].queue = <<>>
  <2>1. <<>> \in Seq(Frames) /\ Len(<<>>) = 0
    OBVIOUS
  <2>2. Len(VerdictsOf(<<>>)) = 0
    BY <2>1, QueueVerdicts
  <2> QED BY <1>3, <2>2 DEF Awaited, Queued, ContentsOf
<1> QED BY <1>1, <1>2, <1>3, SourceMoves

\* A step that neither sends on connection c nor takes a frame for it, and is not
\* the console's receive.
LEMMA QuietStep ==
  ASSUME Typed, [Next]_vars, NEW c \in Conns, ~Connect, ~Receive, ~Send(c), ~PopFrame(c)
  PROVE  /\ client'.latest = client.latest /\ client'.conn = client.conn
         /\ wire'[c] = wire[c] \/ wire'[c] = <<>>
         /\ InHand(c)' \subseteq InHand(c)
<1>1. ASSUME UNCHANGED <<sender, wire, client>>
      PROVE  /\ client'.latest = client.latest /\ client'.conn = client.conn
             /\ wire'[c] = wire[c] /\ InHand(c)' = InHand(c)
  BY <1>1 DEF InHand
<1>2. ASSUME Decide \/ Publish \/ Drain \/ Broadcast \/ UNCHANGED vars
      PROVE  UNCHANGED <<sender, wire, client>>
  BY <1>2 DEF Decide, Publish, Drain, Broadcast, vars, server
<1>3. ASSUME NEW d \in Conns, Unregister(d) \/ Break(d) PROVE UNCHANGED <<sender, wire, client>>
  BY <1>3 DEF Unregister, HandlerGoes, Break, server
<1>4. ASSUME NEW d \in Conns, Register(d) \/ Disconnect(d)
      PROVE  UNCHANGED <<wire, client>> /\ InHand(c)' \subseteq InHand(c)
  <2>1. UNCHANGED <<wire, client>>
    BY <1>4 DEF Register, Disconnect, HandlerGoes
  <2>2. /\ sender'[d].at \in {"start", "ended"}
        /\ \A e \in Conns : e # d => sender'[e] = sender[e]
    BY <1>4, SenderGoesTo DEF Register, Disconnect
  <2> QED BY <2>1, <2>2 DEF InHand
<1>5. ASSUME NEW d \in Conns, SendLoop(d)
      PROVE  /\ UNCHANGED client
             /\ wire'[c] = wire[c] /\ InHand(c)' \subseteq InHand(c)
  <2>1. UNCHANGED client /\ \A e \in Conns : e # d => sender'[e] = sender[e] /\ wire'[e] = wire[e]
    BY <1>5, SendLoopRuns
  <2>2. CASE c # d
    BY <2>1, <2>2 DEF InHand
  <2>3. CASE c = d
    <3>1. StartSending(c) \/ LoseFrame(c)
      BY <1>5, <2>3 DEF SendLoop
    <3>2. UNCHANGED wire
      BY <3>1 DEF StartSending, LoseFrame
    <3>3. sender'[c].at # "send"
      BY <3>1, SendLoopTurns
    <3> QED BY <2>1, <3>2, <3>3 DEF InHand
  <2> QED BY <2>2, <2>3
<1>6. ASSUME FindBroken \/ TimeOut
      PROVE  /\ client'.latest = client.latest /\ client'.conn = client.conn
             /\ wire'[c] = wire[c] \/ wire'[c] = <<>>
             /\ InHand(c)' = InHand(c)
  <2>1. Leave
    BY <1>6 DEF FindBroken, TimeOut
  <2>2. /\ client'.latest = client.latest /\ client'.conn = client.conn
        /\ wire' = [wire EXCEPT ![client.conn] = <<>>] /\ UNCHANGED server
    BY <2>1, LeaveTyped DEF Leave
  <2> QED BY <2>2 DEF InHand, server, Typed, LinkTyped
<1>7. ASSUME GrowStale
      PROVE  /\ client'.latest = client.latest /\ client'.conn = client.conn
             /\ wire'[c] = wire[c] /\ InHand(c)' = InHand(c)
  <2>1. client \in Consoles /\ client' = [client EXCEPT !.fresh = FALSE]
        /\ UNCHANGED <<server, wire>>
    BY <1>7 DEF GrowStale, Typed, LinkTyped
  <2>2. client'.latest = client.latest /\ client'.conn = client.conn
    BY <2>1 DEF Consoles
  <2> QED BY <2>1, <2>2 DEF InHand, server
<1>8. CASE Consume
  BY <1>6, <1>8 DEF Consume
<1> QED BY <1>1, <1>2, <1>3, <1>4, <1>5, <1>7, <1>8 DEF Next, Serve

\* What the console shows, has been sent and is in hand has been reached.
LEMMA SentIsReached ==
  ASSUME Typed, NEW c \in Conns
  PROVE  {client.latest} \cup ContentsOf(wire[c]) \cup InHand(c) \subseteq Reached
<1>1. client.latest \in Reached /\ InHand(c) \subseteq Reached /\ wire[c] \in Seq(Verdicts)
  BY DEF Typed, LinkTyped, ServerTyped, Consoles, Senders, InHand, Reached
<1>2. \A i \in 1 .. Len(wire[c]) : wire[c][i] \in Verdicts
  BY <1>1, ElementOfSeq
<1> QED BY <1>1, <1>2 DEF ContentsOf, Reached

\* The console's connection stays in order in a step that moves no frame along it.
LEMMA QuietOrder ==
  ASSUME Typed, GatewayOrder, [Next]_vars, NEW c \in Conns, c = client.conn,
         ~Connect, ~Receive, ~Send(c), ~PopFrame(c)
  PROVE  LinkOrder(c)'
<1>1. Ordered(client.latest, wire[c], InHand(c), Awaited(c), ToCome)
  <2>1. c # 0
    BY DEF Conns
  <2> QED BY <2>1 DEF GatewayOrder, LinkOrder
<1>2. /\ client'.latest = client.latest
      /\ wire'[c] = wire[c] \/ wire'[c] = <<>>
      /\ InHand(c)' \subseteq InHand(c)
  BY QuietStep
<1>3. Awaited(c)' \subseteq Awaited(c) \cup ToCome
  BY AwaitedMoves DEF GatewayOrder
<1>4. InTurn(wire'[c]) /\ ContentsOf(wire'[c]) \subseteq ContentsOf(wire[c])
  BY <1>1, <1>2, OfNothing DEF Ordered
<1> DEFINE sent == {client.latest} \cup ContentsOf(wire[c]) \cup InHand(c)
<1>5. NoLater(sent, ToCome')
  <2>1. sent \subseteq Reached
    BY SentIsReached
  <2>2. NoLater(sent, Awaited(c) \cup ToCome)
    BY <1>1 DEF Ordered
  <2> HIDE DEF sent
  <2>3. NoLater(sent, ToCome)
    BY <2>2, OrderOfSubset
  <2> QED BY <2>1, <2>3, SetStillToCome DEF GatewayOrder
<1>6. Ordered(client.latest, wire'[c], InHand(c)', Awaited(c)', ToCome')
  BY <1>1, <1>2, <1>3, <1>4, <1>5, OrderedKept
<1> QED BY <1>2, <1>6 DEF LinkOrder

\* The console shows the next frame of its connection, which is no earlier.
LEMMA ReceiveOrder ==
  ASSUME Typed, GatewayOrder, Receive
  PROVE  /\ client'.latest >= client.latest
         /\ NoLater({client'.latest}, ToCome')
         /\ client'.conn = client.conn
         /\ LinkOrder(client.conn)'
<1>1. PICK c \in Conns : c = client.conn
  BY ReceiveTyped
<1>2. client'.latest = Head(wire[c]) /\ client'.conn = c
  BY <1>1, ReceiveTyped
<1>3. /\ wire[c] \in Seq(Verdicts) /\ wire[c] # <<>> /\ wire'[c] = Tail(wire[c])
      /\ UNCHANGED <<verdict, pipe, pending, server>>
  BY <1>1 DEF Receive, Typed, LinkTyped
<1>4. InHand(c)' = InHand(c) /\ Awaited(c)' = Awaited(c) /\ ToCome' = ToCome
  BY <1>3 DEF InHand, Awaited, SourceOf, Queued, ToCome, server
<1>5. Ordered(client.latest, wire[c], InHand(c), Awaited(c), ToCome)
  <2>1. c # 0
    BY DEF Conns
  <2> QED BY <1>1, <2>1 DEF GatewayOrder, LinkOrder
<1>6. /\ client.latest <= Head(wire[c])
      /\ NoLater({Head(wire[c])}, ToCome)
      /\ Ordered(Head(wire[c]), Tail(wire[c]), InHand(c), Awaited(c), ToCome)
  BY <1>3, <1>5, OrderedReceived
<1>7. client.latest \in Int /\ Head(wire[c]) \in Int
  <2>1. client.latest \in {None} \cup Verdicts /\ Head(wire[c]) \in Verdicts
    BY <1>3, OfTaken DEF Typed, LinkTyped, Consoles
  <2>2. {None} \cup Verdicts \subseteq Int
    BY DEF Verdicts, None
  <2> QED BY <2>1, <2>2
<1>8. client'.latest >= client.latest
  BY <1>2, <1>6, <1>7
<1>9. LinkOrder(c)'
  BY <1>2, <1>3, <1>4, <1>6 DEF LinkOrder
<1>10. LinkOrder(client.conn)'
  BY <1>1, <1>2, <1>9 DEF LinkOrder, InHand, Awaited, SourceOf, Queued
<1> QED BY <1>1, <1>2, <1>4, <1>6, <1>8, <1>10

\* The send loop sends the frame it has in hand.
LEMMA SendOrder ==
  ASSUME Typed, GatewayOrder, NEW c \in Conns, c = client.conn, Send(c)
  PROVE  LinkOrder(c)'
<1>1. /\ wire[c] \in Seq(Verdicts) /\ wire'[c] = Append(wire[c], sender[c].payload)
      /\ UNCHANGED <<verdict, pipe, pending, registry, handler, client, box>>
  BY DEF Send, SenderGoes, Typed, LinkTyped
<1>2. sender[c].payload \in Verdicts
  BY SendTyped
<1>3. sender[c].at = "send" /\ sender'[c].at = "poll" /\ sender'[c].box = sender[c].box
  BY SendLoopTurns
<1>4. /\ InHand(c) = {sender[c].payload} /\ InHand(c)' = {}
      /\ Awaited(c)' = Awaited(c) /\ ToCome' = ToCome
  BY <1>1, <1>3 DEF InHand, Awaited, SourceOf, Queued, ToCome
<1>5. c # 0
  BY DEF Conns
<1>6. Ordered(client.latest, wire[c], {sender[c].payload}, Awaited(c), ToCome)
  BY <1>4, <1>5 DEF GatewayOrder, LinkOrder
<1>7. Ordered(client.latest, wire'[c], {}, Awaited(c), ToCome)
  BY <1>1, <1>2, <1>6, OrderedSent
<1> QED BY <1>1, <1>4, <1>7 DEF LinkOrder

\* The send loop takes the first frame of its queue.
LEMMA PopOrder ==
  ASSUME Typed, GatewayOrder, NEW c \in Conns, c = client.conn, PopFrame(c)
  PROVE  LinkOrder(c)'
<1> DEFINE queue == box[sender[c].box].queue
           verdicts == VerdictsOf(queue)
<1>1. /\ sender[c].at = "poll" /\ UNCHANGED wire
      /\ sender'[c].at = "send" /\ sender'[c].box = sender[c].box
      /\ sender'[c].payload = Head(queue).verdict
  BY SendLoopTurns
<1>2. /\ UNCHANGED <<verdict, pipe, pending, client>> /\ queue # <<>>
      /\ box' = [box EXCEPT ![sender[c].box] = Popped(box[sender[c].box])]
  BY DEF PopFrame, SenderGoes
<1>3. SourceOf(c) = sender[c].box /\ SourceOf(c)' = sender[c].box /\ sender[c].box \in Conns
      /\ sender[c].box # 0 /\ InHand(c) = {} /\ InHand(c)' = {Head(queue).verdict}
  <2>1. sender[c].box # 0
    BY <1>1 DEF Typed, ServerTyped, Senders
  <2>2. SourceOf(c) = sender[c].box /\ SourceOf(c)' = sender[c].box
    BY <1>1 DEF SourceOf
  <2> QED BY <1>1, <2>1, <2>2, SourceTyped DEF InHand
<1>4. queue \in Seq(Frames) /\ box'[sender[c].box].queue = Tail(queue)
  <2>1. box[sender[c].box] \in Boxes /\ Len(box[sender[c].box].queue) <= Capacity
    BY <1>3 DEF Typed, ServerTyped
  <2> QED BY <1>2, <1>3, <2>1, PoppedIsBox DEF Boxes, Typed, ServerTyped
<1>5. Awaited(c) = ContentsOf(verdicts) /\ Awaited(c)' = ContentsOf(VerdictsOf(Tail(queue)))
  BY <1>3, <1>4 DEF Awaited, Queued
<1>6. /\ verdicts \in Seq(Verdicts) /\ verdicts # <<>>
      /\ Head(verdicts) = Head(queue).verdict /\ VerdictsOf(Tail(queue)) = Tail(verdicts)
  BY <1>2, <1>4, QueueVerdicts, QueueTaken
<1>7. InTurn(verdicts) /\ NoLater(ContentsOf(verdicts), ToCome)
  BY <1>3 DEF GatewayOrder, QueueOrder, Queued
<1> HIDE DEF verdicts, queue
<1>8. Ordered(client.latest, wire[c], {}, ContentsOf(verdicts), ToCome)
  <2>1. c # 0
    BY DEF Conns
  <2> QED BY <1>3, <1>5, <2>1 DEF GatewayOrder, LinkOrder
<1>9. Ordered(client.latest, wire[c], {Head(verdicts)}, ContentsOf(Tail(verdicts)), ToCome)
  BY <1>6, <1>7, <1>8, OrderedTaken
<1>10. ToCome' = ToCome
  BY <1>2 DEF ToCome
<1> QED BY <1>1, <1>2, <1>3, <1>5, <1>6, <1>9, <1>10 DEF LinkOrder

\* A new connection: what comes on it is still to be broadcast, so that it is no
\* earlier than what the console shows.
LEMMA ConnectOrder ==
  ASSUME Typed, LoopsSound, GatewayOrder, Connect
  PROVE  LinkOrder(client.conn)'
<1>1. PICK c \in Conns : c = client.conn + 1
  BY DEF Connect
<1>2. sender[c].at = "none" /\ wire[c] = <<>> /\ client'.conn = c /\ client'.latest = client.latest
  BY <1>1, ConnectSound, ConnectLink
<1>3. UNCHANGED <<verdict, pipe, pending, registry, box, sender, wire>>
  BY DEF Connect
<1>4. InHand(c)' = {} /\ Awaited(c)' = {} /\ ToCome' = ToCome
  BY <1>2, <1>3 DEF InHand, Awaited, SourceOf, ToCome
<1>5. Ordered(client.latest, <<>>, {}, {}, ToCome)
  BY OrderedAfresh DEF GatewayOrder
<1>6. LinkOrder(c)'
  BY <1>2, <1>3, <1>4, <1>5 DEF LinkOrder
<1> QED BY <1>2, <1>6 DEF LinkOrder, InHand, Awaited, SourceOf, Queued

\* Only the console's receive changes what it shows, only connecting its connection.
LEMMA LatestStep ==
  ASSUME Typed, [Next]_vars, ~Receive
  PROVE  client'.latest = client.latest /\ (~Connect => client'.conn = client.conn)
<1>1. CASE Connect
  BY <1>1, ConnectLink
<1>2. CASE FindBroken \/ TimeOut
  BY <1>2, LeaveTyped DEF FindBroken, TimeOut
<1>3. CASE GrowStale
  BY <1>3 DEF GrowStale, Typed, LinkTyped, Consoles
<1>4. ASSUME NEW c \in Conns, Serve(c) \/ SendLoop(c) \/ Break(c) PROVE UNCHANGED client
  BY <1>4, SendLoopRuns DEF Serve, Register, Disconnect, Unregister, HandlerGoes, Break
<1>5. ASSUME Decide \/ Publish \/ Drain \/ Broadcast \/ UNCHANGED vars PROVE UNCHANGED client
  BY <1>5 DEF Decide, Publish, Drain, Broadcast, vars
<1> QED BY <1>1, <1>2, <1>3, <1>4, <1>5 DEF Next, Consume

\* Every step keeps the order, and none takes the console back.
LEMMA GatewayOrderStep ==
  ASSUME Typed, LoopsSound, GatewayOrder, [Next]_vars
  PROVE  GatewayOrder' /\ client'.latest >= client.latest
<1>1. UpstreamOrder' /\ \A x \in Reached : NoLater({x}, ToCome) => NoLater({x}, ToCome')
  BY StillToCome DEF GatewayOrder
<1>2. ASSUME NEW q \in Conns PROVE QueueOrder(q)'
  BY QueueMoves DEF GatewayOrder
<1>3. client.latest \in Reached /\ Reached \subseteq Int
  BY DEF Typed, LinkTyped, Consoles, Reached, Verdicts, None
<1>4. NoLater({client'.latest}, ToCome') /\ client'.latest >= client.latest
  <2>1. CASE Receive
    BY <2>1, ReceiveOrder
  <2>2. CASE ~Receive
    <3>1. client'.latest = client.latest
      BY <2>2, LatestStep
    <3>2. client.latest \in Int
      BY <1>3
    <3>3. client'.latest >= client.latest
      BY <3>1, <3>2
    <3> QED BY <1>1, <1>3, <3>1, <3>3 DEF GatewayOrder
  <2> QED BY <2>1, <2>2
<1>5. client'.conn # 0 => LinkOrder(client.conn)'
  <2>1. CASE Receive
    BY <2>1, ReceiveOrder
  <2>2. CASE Connect
    BY <2>2, ConnectOrder
  <2>3. CASE client.conn # 0 /\ ~Receive /\ ~Connect
    <3>1. PICK c \in Conns : c = client.conn
      BY <2>3, BoundsAssumption DEF Typed, LinkTyped, Consoles, Conns
    <3>2. LinkOrder(c)'
      BY <2>3, <3>1, SendOrder, PopOrder, QuietOrder
    <3>3. client'.conn = c
      BY <2>3, <3>1, LatestStep
    <3> QED BY <3>2, <3>3 DEF LinkOrder, InHand, Awaited, SourceOf, Queued
  <2>4. CASE client.conn = 0 /\ ~Receive /\ ~Connect
    BY <2>4, LatestStep
  <2> QED BY <2>1, <2>2, <2>3, <2>4
<1> QED BY <1>1, <1>2, <1>4, <1>5 DEF GatewayOrder

\* The console never goes back to an earlier verdict: queues that overflow, frames
\* that are lost, reconnects and a send loop that has taken a successor's queue may
\* all cost it frames, but none brings an older one.
THEOREM ConsoleNeverGoesBack == Spec => InOrder
<1>1. Init => Typed /\ LoopsSound /\ GatewayOrder
  BY TypedInit, LoopsInit, GatewayOrderInit
<1>2. Typed /\ LoopsSound /\ GatewayOrder /\ [Next]_vars => (Typed /\ LoopsSound /\ GatewayOrder)'
  BY TypedStep, LoopsStep, GatewayOrderStep
<1>3. Typed /\ LoopsSound /\ GatewayOrder /\ [Next]_vars => [client'.latest >= client.latest]_client
  BY GatewayOrderStep
<1> QED BY <1>1, <1>2, <1>3, PTL DEF Spec, InOrder

-----------------------------------------------------------------------------
(***************************************************************************)
(* What the processes hold.                                                *)
(***************************************************************************)
Numbers == 0 .. MaxEntries

\* What a process holds: one at work has an entry, and one that is past opening or
\* has set a ledger aside has a file.
Jobs(places) ==
  {j \in [at : places, entry : Numbers, prev : Numbers, file : Files \cup {0}] :
     /\ j.at # "idle" => j.entry # 0
     /\ j.at \notin {"idle", "read", "open"} => j.file # 0}

DeployerJobs == Jobs({"idle", "read", "open", "write"})
KeeperJobs == Jobs({"idle", "audit", "anchor", "archive", "remove"})

FilesTyped ==
  /\ ledger \in Files \cup {0}
  /\ aside \subseteq Files \ {ledger}
  /\ content \in [Files -> Seq(Entries)]
  /\ archives \in Seq(Seq(Entries))

JobsTyped ==
  /\ deployer \in [Deployers -> DeployerJobs]
  /\ keeper \in [Keepers -> KeeperJobs]

CountsTyped ==
  /\ nextEntry \in 1 .. MaxEntries + 1
  /\ crashes \in 0 .. MaxCrashes
  /\ committed \subseteq 1 .. MaxEntries
  /\ overlapped \subseteq 1 .. MaxEntries
  /\ undisturbed \in BOOLEAN

\* The invariant behind the types: also, whoever is at work has an entry.
LedgerTyped == FilesTyped /\ JobsTyped /\ CountsTyped

\* What a process at work holds.
LEMMA JobIs ==
  ASSUME NEW places, NEW j \in Jobs(places)
  PROVE  /\ j.at \in places /\ j.entry \in Numbers /\ j.prev \in Numbers
         /\ j.file \in Files \cup {0}
         /\ j.at # "idle" => j.entry # 0
         /\ j.at \notin {"idle", "read", "open"} => j.file # 0
         /\ j = [at |-> j.at, entry |-> j.entry, prev |-> j.prev, file |-> j.file]
BY DEF Jobs

\* Four such fields make a job.
LEMMA JobMade ==
  ASSUME NEW places, NEW at \in places, NEW entry \in Numbers, NEW prev \in Numbers,
         NEW file \in Files \cup {0},
         at # "idle" => entry # 0,
         at \notin {"idle", "read", "open"} => file # 0
  PROVE  [at |-> at, entry |-> entry, prev |-> prev, file |-> file] \in Jobs(places)
BY DEF Jobs

\* What an assignment to a field makes of a job.
LEMMA JobAssigned ==
  ASSUME NEW at, NEW entry, NEW prev, NEW file, NEW x, NEW j,
         j = [at |-> at, entry |-> entry, prev |-> prev, file |-> file]
  PROVE  /\ [j EXCEPT !.at = x] = [at |-> x, entry |-> entry, prev |-> prev, file |-> file]
         /\ [j EXCEPT !.entry = x] = [at |-> at, entry |-> x, prev |-> prev, file |-> file]
         /\ [j EXCEPT !.prev = x] = [at |-> at, entry |-> entry, prev |-> x, file |-> file]
         /\ [j EXCEPT !.file = x] = [at |-> at, entry |-> entry, prev |-> prev, file |-> x]
OBVIOUS

\* The four fields of a job.
LEMMA JobFields ==
  ASSUME NEW at, NEW entry, NEW prev, NEW file, NEW j,
         j = [at |-> at, entry |-> entry, prev |-> prev, file |-> file]
  PROVE  j.at = at /\ j.entry = entry /\ j.prev = prev /\ j.file = file
OBVIOUS

\* A job that goes on with the hash it read, one that goes on with the file it opened,
\* and one that begins.
Reads(j, p, h) == [j EXCEPT !.at = p, !.prev = h]
Opens(j, p, f) == [j EXCEPT !.at = p, !.file = f]
Starts(p, n, f) == [Idle EXCEPT !.at = p, !.entry = n, !.file = f]

\* A job that goes on to its next step.
LEMMA JobGoes ==
  ASSUME NEW places, NEW j \in Jobs(places), j.at # "idle", NEW p \in places,
         p \notin {"idle", "read", "open"} => j.file # 0
  PROVE  /\ [j EXCEPT !.at = p] \in Jobs(places)
         /\ [j EXCEPT !.at = p]
              = [at |-> p, entry |-> j.entry, prev |-> j.prev, file |-> j.file]
<1> PICK a, e, h, f : j = [at |-> a, entry |-> e, prev |-> h, file |-> f]
  BY JobIs
<1>1. [j EXCEPT !.at = p] = [at |-> p, entry |-> e, prev |-> h, file |-> f]
  BY JobAssigned
<1> QED BY <1>1, JobFields, JobIs, JobMade

\* A job that goes on with the hash it read.
LEMMA JobReads ==
  ASSUME NEW places, NEW j \in Jobs(places), j.at # "idle", NEW p \in places,
         p \notin {"idle", "read", "open"} => j.file # 0, NEW h \in Numbers
  PROVE  /\ Reads(j, p, h) \in Jobs(places)
         /\ Reads(j, p, h)
              = [at |-> p, entry |-> j.entry, prev |-> h, file |-> j.file]
<1> PICK a, e, g, f : j = [at |-> a, entry |-> e, prev |-> g, file |-> f]
  BY JobIs
<1>a. PICK k : k = [j EXCEPT !.at = p]
  OBVIOUS
<1>b. k = [at |-> p, entry |-> e, prev |-> g, file |-> f]
  BY <1>a, JobAssigned
<1>c. [k EXCEPT !.prev = h] = [at |-> p, entry |-> e, prev |-> h, file |-> f]
  BY <1>b, JobAssigned
<1>d. [j EXCEPT !.at = p, !.prev = h] = [k EXCEPT !.prev = h]
  BY <1>a
<1>1. [j EXCEPT !.at = p, !.prev = h] = [at |-> p, entry |-> e, prev |-> h, file |-> f]
  BY <1>c, <1>d
<1> QED BY <1>1, JobFields, JobIs, JobMade DEF Reads

\* A job that goes on with the file it opened.
LEMMA JobOpens ==
  ASSUME NEW places, NEW j \in Jobs(places), j.at # "idle", NEW p \in places,
         NEW f \in Files, MaxFiles \in Nat
  PROVE  /\ Opens(j, p, f) \in Jobs(places)
         /\ Opens(j, p, f)
              = [at |-> p, entry |-> j.entry, prev |-> j.prev, file |-> f]
<1> PICK a, e, h, g : j = [at |-> a, entry |-> e, prev |-> h, file |-> g]
  BY JobIs
<1>a. PICK k : k = [j EXCEPT !.at = p]
  OBVIOUS
<1>b. k = [at |-> p, entry |-> e, prev |-> h, file |-> g]
  BY <1>a, JobAssigned
<1>c. [k EXCEPT !.file = f] = [at |-> p, entry |-> e, prev |-> h, file |-> f]
  BY <1>b, JobAssigned
<1>d. [j EXCEPT !.at = p, !.file = f] = [k EXCEPT !.file = f]
  BY <1>a
<1>1. [j EXCEPT !.at = p, !.file = f] = [at |-> p, entry |-> e, prev |-> h, file |-> f]
  BY <1>c, <1>d
<1>2. f # 0 /\ f \in Files \cup {0}
  BY DEF Files
<1> QED BY <1>1, <1>2, JobFields, JobIs, JobMade DEF Opens

\* A process that has nothing to do.
LEMMA JobEnds ==
  ASSUME NEW places, "idle" \in places, MaxEntries \in Nat
  PROVE  Idle \in Jobs(places)
<1>1. 0 \in Numbers
  BY DEF Numbers
<1> QED BY <1>1, JobMade DEF Idle

\* A job that begins.
LEMMA JobStarts ==
  ASSUME NEW places, NEW p \in places, NEW n \in 1 .. MaxEntries, MaxEntries \in Nat,
         NEW f \in Files \cup {0}, p \notin {"idle", "read", "open"} => f # 0
  PROVE  /\ Starts(p, n, f) \in Jobs(places)
         /\ Starts(p, n, f)
              = [at |-> p, entry |-> n, prev |-> 0, file |-> f]
<1>1. PICK j, z : z = 0 /\ j = Idle /\ j = [at |-> "idle", entry |-> z, prev |-> z, file |-> z]
  BY DEF Idle
<1>2. PICK k : k = [j EXCEPT !.at = p]
  OBVIOUS
<1>3. k = [at |-> p, entry |-> z, prev |-> z, file |-> z]
  BY <1>1, <1>2, JobAssigned
<1>4. PICK m : m = [k EXCEPT !.entry = n]
  OBVIOUS
<1>5. m = [at |-> p, entry |-> n, prev |-> z, file |-> z]
  BY <1>3, <1>4, JobAssigned
<1>8. [m EXCEPT !.file = f] = [at |-> p, entry |-> n, prev |-> z, file |-> f]
  BY <1>5, JobAssigned
<1>10. [j EXCEPT !.at = p, !.entry = n, !.file = f] = [m EXCEPT !.file = f]
  BY <1>2, <1>4
<1>6. [Idle EXCEPT !.at = p, !.entry = n, !.file = f]
        = [at |-> p, entry |-> n, prev |-> 0, file |-> f]
  BY <1>1, <1>8, <1>10
<1>7. 0 \in Numbers /\ n \in Numbers /\ n # 0
  BY DEF Numbers
<1> QED BY <1>6, <1>7, JobMade DEF Starts

\* A deployer's begins without a file.
LEMMA JobLooks ==
  ASSUME NEW p, NEW n, NEW j, j = [Idle EXCEPT !.at = p, !.entry = n]
  PROVE  j = [at |-> p, entry |-> n, prev |-> 0, file |-> 0]
<1>1. PICK i, z : z = 0 /\ i = Idle /\ i = [at |-> "idle", entry |-> z, prev |-> z, file |-> z]
  BY DEF Idle
<1>2. PICK k : k = [i EXCEPT !.at = p]
  OBVIOUS
<1>3. k = [at |-> p, entry |-> z, prev |-> z, file |-> z]
  BY <1>1, <1>2, JobAssigned
<1>4. [k EXCEPT !.entry = n] = [at |-> p, entry |-> n, prev |-> z, file |-> z]
  BY <1>3, JobAssigned
<1>5. [i EXCEPT !.at = p, !.entry = n] = [k EXCEPT !.entry = n]
  BY <1>2
<1> QED BY <1>1, <1>4, <1>5

-----------------------------------------------------------------------------
(***************************************************************************)
(* Files and hashes.                                                       *)
(***************************************************************************)

\* What an open for writing gets: the ledger or, without one, a file that has no name
\* and that no process has.
LEMMA OpenedIs ==
  ASSUME LedgerTyped, NEW f \in Opened
  PROVE  /\ f \in Files /\ f # 0 /\ f \notin aside
         /\ ledger # 0 => f = ledger
         /\ ledger = 0 => \A k \in Keepers : keeper[k].file # f
<1>1. CASE ledger # 0
  BY <1>1 DEF Opened, LedgerTyped, FilesTyped, Files
<1>2. CASE ledger = 0
  <2>1. FreeFiles # {} /\ f = Min(FreeFiles)
    BY <1>2 DEF Opened
  <2>2. FreeFiles \in SUBSET Nat
    BY LedgerBoundsAssumption DEF FreeFiles, Files
  <2>3. f \in FreeFiles
    BY <2>1, <2>2, LeastOf
  <2> QED BY <1>2, <2>3, LedgerBoundsAssumption DEF FreeFiles, Files
<1> QED BY <1>1, <1>2

\* The last hash of a file is the number of an entry, or zero.
LEMMA LastIsNumber ==
  ASSUME NEW s \in Seq(Entries)
  PROVE  LastHash(s) \in Numbers
<1>1. CASE s = <<>>
  BY <1>1, LedgerBoundsAssumption DEF LastHash, Numbers
<1>2. CASE s # <<>>
  <2>1. Len(s) \in 1 .. Len(s)
    BY <1>2, EmptySeq, LenProperties
  <2>2. s[Len(s)] \in Entries
    BY <2>1, ElementOfSeq
  <2>3. s[Len(s)].entry \in 1 .. MaxEntries
    BY <2>2 DEF Entries
  <2> QED BY <1>2, <2>3, LedgerBoundsAssumption DEF LastHash, Last, Numbers
<1> QED BY <1>1, <1>2

-----------------------------------------------------------------------------
(***************************************************************************)
(* What each action makes of the process that takes it.                    *)
(***************************************************************************)

\* A deployer that moves on: the others stay, and so do the keepers.
LEMMA DeployerMoves ==
  ASSUME LedgerTyped, NEW d \in Deployers, NEW from, NEW j \in DeployerJobs,
         DeployerGoes(d, from, j)
  PROVE  /\ JobsTyped'
         /\ deployer'[d] = j
         /\ \A e \in Deployers \ {d} : deployer'[e] = deployer[e]
         /\ Working' = Working
         /\ UNCHANGED <<aside, archives, keeper>>
BY DEF DeployerGoes, LedgerTyped, JobsTyped, Working

\* A keeper that moves on.
LEMMA KeeperMoves ==
  ASSUME LedgerTyped, NEW k \in Keepers, NEW from, NEW j \in KeeperJobs,
         KeeperGoes(k, from, j)
  PROVE  /\ JobsTyped'
         /\ keeper'[k] = j
         /\ \A l \in Keepers \ {k} : keeper'[l] = keeper[l]
         /\ Working' = IF j.at = "idle" THEN Working \ {k} ELSE Working \cup {k}
         /\ Appending' = Appending
         /\ UNCHANGED <<deployer, committed>>
<1>1. /\ JobsTyped'
      /\ keeper'[k] = j
      /\ \A l \in Keepers \ {k} : keeper'[l] = keeper[l]
      /\ UNCHANGED <<deployer, committed>>
  BY DEF KeeperGoes, LedgerTyped, JobsTyped
<1>2. Working' = IF j.at = "idle" THEN Working \ {k} ELSE Working \cup {k}
  BY <1>1 DEF Working
<1> QED BY <1>1, <1>2 DEF Appending

\* A deployer begins an incident.
LEMMA LookIs ==
  ASSUME LedgerTyped, NEW d \in Deployers, Look(d)
  PROVE  \E j \in DeployerJobs :
           /\ DeployerGoes(d, "idle", j)
           /\ j.at = (IF ledger = 0 THEN "open" ELSE "read")
           /\ j.entry = nextEntry /\ j.prev = 0 /\ nextEntry \in 1 .. MaxEntries
<1>1. nextEntry \in 1 .. MaxEntries
  BY LedgerBoundsAssumption DEF Look, LedgerTyped, CountsTyped
<1>2. PICK p \in {"open", "read"} : p = IF ledger = 0 THEN "open" ELSE "read"
  OBVIOUS
<1>3. PICK j : j = [Idle EXCEPT !.at = p, !.entry = nextEntry]
  OBVIOUS
<1>4. DeployerGoes(d, "idle", j)
  BY <1>2, <1>3 DEF Look
<1>5. PICK n \in 1 .. MaxEntries : n = nextEntry
  BY <1>1
<1>6. j = [at |-> p, entry |-> n, prev |-> 0, file |-> 0]
  BY <1>3, <1>5, JobLooks
<1>7. 0 \in Numbers /\ n \in Numbers /\ n # 0
  BY LedgerBoundsAssumption DEF Numbers
<1>8. j \in DeployerJobs
  BY <1>6, <1>7, JobMade DEF DeployerJobs
<1>9. j.at = p /\ j.entry = n /\ j.prev = 0
  BY <1>6, JobFields
<1> QED BY <1>1, <1>2, <1>4, <1>5, <1>8, <1>9

\* It reads the last hash.
LEMMA ReadIs ==
  ASSUME LedgerTyped, NEW d \in Deployers, Read(d)
  PROVE  \E j \in DeployerJobs :
           /\ DeployerGoes(d, "read", j)
           /\ j.at = "open" /\ j.entry = deployer[d].entry
           /\ j.prev = LastHash(content[ledger])
<1>1. PICK b \in Jobs({"idle", "read", "open", "write"}) : b = deployer[d]
  BY DEF LedgerTyped, JobsTyped, DeployerJobs
<1>2. content[ledger] \in Seq(Entries)
  BY DEF Read, LedgerTyped, FilesTyped
<1>3. PICK h \in Numbers : h = LastHash(content[ledger])
  BY <1>2, LastIsNumber
<1>4. PICK j : j = Reads(b, "open", h)
  OBVIOUS
<1>5. DeployerGoes(d, "read", j)
  BY <1>1, <1>3, <1>4 DEF Read, Reads
<1>6. b.at # "idle"
  BY <1>1, <1>5 DEF DeployerGoes
<1>7. /\ j \in DeployerJobs
      /\ j = [at |-> "open", entry |-> b.entry, prev |-> h, file |-> b.file]
  BY <1>4, <1>6, JobReads DEF DeployerJobs
<1>8. j.at = "open" /\ j.entry = b.entry /\ j.prev = h
  BY <1>7, JobFields
<1> QED BY <1>1, <1>3, <1>5, <1>7, <1>8

\* It opens a file.
LEMMA OpenIs ==
  ASSUME LedgerTyped, NEW d \in Deployers, Open(d)
  PROVE  \E f \in Opened, j \in DeployerJobs :
           /\ DeployerGoes(d, "open", j)
           /\ j.at = "write" /\ j.file = f
           /\ j.entry = deployer[d].entry /\ j.prev = deployer[d].prev
           /\ ledger' = f
           /\ content' = IF ledger = f THEN content ELSE [content EXCEPT ![f] = <<>>]
           /\ UNCHANGED <<nextEntry, history>>
<1>1. PICK b \in Jobs({"idle", "read", "open", "write"}) : b = deployer[d]
  BY DEF LedgerTyped, JobsTyped, DeployerJobs
<1>2. PICK f \in Opened :
        /\ DeployerGoes(d, "open", [b EXCEPT !.at = "write", !.file = f])
        /\ ledger' = f
        /\ content' = IF ledger = f THEN content ELSE [content EXCEPT ![f] = <<>>]
        /\ UNCHANGED <<nextEntry, history>>
  BY <1>1 DEF Open
<1>3. PICK j : j = Opens(b, "write", f)
  OBVIOUS
<1>4. DeployerGoes(d, "open", j)
  BY <1>2, <1>3 DEF Opens
<1>5. b.at # "idle"
  BY <1>1, <1>4 DEF DeployerGoes
<1>6. f \in Files
  BY OpenedIs
<1>7. /\ j \in DeployerJobs
      /\ j = [at |-> "write", entry |-> b.entry, prev |-> b.prev, file |-> f]
  BY <1>3, <1>5, <1>6, JobOpens, LedgerBoundsAssumption DEF DeployerJobs
<1>8. j.at = "write" /\ j.entry = b.entry /\ j.prev = b.prev /\ j.file = f
  BY <1>7, JobFields
<1> QED BY <1>1, <1>2, <1>4, <1>7, <1>8

\* It is done, with its entry written or given up.
LEMMA DeployerEnds ==
  ASSUME LedgerTyped
  PROVE  Idle \in DeployerJobs /\ Idle \in KeeperJobs /\ Idle.at = "idle"
BY JobEnds, LedgerBoundsAssumption DEF DeployerJobs, KeeperJobs, Idle

\* A keeper sets the ledger aside.
LEMMA SetAsideIs ==
  ASSUME LedgerTyped, NEW k \in Keepers, SetAside(k)
  PROVE  \E j \in KeeperJobs :
           /\ KeeperGoes(k, "idle", j)
           /\ j.at = "audit" /\ j.file = ledger /\ ledger # 0
           /\ j.entry = nextEntry /\ nextEntry \in 1 .. MaxEntries
<1>1. nextEntry \in 1 .. MaxEntries
  BY LedgerBoundsAssumption DEF SetAside, LedgerTyped, CountsTyped
<1>2. PICK n \in 1 .. MaxEntries : n = nextEntry
  BY <1>1
<1>3. PICK f \in Files \cup {0} : f = ledger
  BY DEF LedgerTyped, FilesTyped
<1>4. PICK j : j = Starts("audit", n, f)
  OBVIOUS
<1>5. KeeperGoes(k, "idle", j) /\ ledger # 0
  BY <1>2, <1>3, <1>4 DEF SetAside, Starts
<1>6. j \in KeeperJobs /\ j = [at |-> "audit", entry |-> n, prev |-> 0, file |-> f]
  <2>1. f # 0
    BY <1>3, <1>5
  <2>2. PICK places : places = {"idle", "audit", "anchor", "archive", "remove"}
    OBVIOUS
  <2>3. PICK p \in places : p = "audit"
    BY <2>2
  <2>4. /\ Starts(p, n, f) \in Jobs(places)
        /\ Starts(p, n, f) = [at |-> p, entry |-> n, prev |-> 0, file |-> f]
    BY <2>1, JobStarts, LedgerBoundsAssumption
  <2> QED BY <1>4, <2>2, <2>3, <2>4 DEF KeeperJobs
<1>7. j.at = "audit" /\ j.entry = n /\ j.file = f
  BY <1>6, JobFields
<1> QED BY <1>1, <1>2, <1>3, <1>5, <1>6, <1>7

\* It reads the last hash.
LEMMA ReadHashIs ==
  ASSUME LedgerTyped, NEW k \in Keepers, ReadHash(k)
  PROVE  \E j \in KeeperJobs :
           /\ KeeperGoes(k, "audit", j)
           /\ j.at = "anchor" /\ j.file = keeper[k].file /\ j.entry = keeper[k].entry
           /\ j.prev = LastHash(content[keeper[k].file])
<1>1. PICK b \in Jobs({"idle", "audit", "anchor", "archive", "remove"}) : b = keeper[k]
  BY DEF LedgerTyped, JobsTyped, KeeperJobs
<1>2. b.at = "audit"
  BY <1>1 DEF ReadHash, KeeperGoes
<1>3. b.file \in Files /\ b.file # 0
  BY <1>2, JobIs
<1>4. content[keeper[k].file] \in Seq(Entries)
  BY <1>1, <1>3 DEF LedgerTyped, FilesTyped
<1>5. PICK h \in Numbers : h = LastHash(content[keeper[k].file])
  BY <1>4, LastIsNumber
<1>6. PICK j : j = Reads(b, "anchor", h)
  OBVIOUS
<1>7. KeeperGoes(k, "audit", j)
  BY <1>1, <1>5, <1>6 DEF ReadHash, Reads
<1>8. j \in KeeperJobs /\ j = [at |-> "anchor", entry |-> b.entry, prev |-> h, file |-> b.file]
  BY <1>2, <1>3, <1>6, JobReads DEF KeeperJobs
<1>9. j.at = "anchor" /\ j.entry = b.entry /\ j.prev = h /\ j.file = b.file
  BY <1>8, JobFields
<1> QED BY <1>1, <1>5, <1>7, <1>8, <1>9

\* A keeper at work has a file and an entry.
LEMMA KeeperHolds ==
  ASSUME LedgerTyped, NEW k \in Keepers, keeper[k].at # "idle"
  PROVE  /\ keeper[k].file \in Files /\ keeper[k].file # 0
         /\ keeper[k].entry \in 1 .. MaxEntries /\ keeper[k].prev \in Numbers
         /\ content[keeper[k].file] \in Seq(Entries)
<1>1. keeper[k] \in Jobs({"idle", "audit", "anchor", "archive", "remove"})
  BY DEF LedgerTyped, JobsTyped, KeeperJobs
<1>2. keeper[k].at \in {"audit", "anchor", "archive", "remove"}
  BY <1>1, JobIs
<1>3. /\ keeper[k].file \in Files /\ keeper[k].file # 0
      /\ keeper[k].entry \in Numbers /\ keeper[k].entry # 0 /\ keeper[k].prev \in Numbers
  BY <1>1, <1>2, JobIs
<1> QED BY <1>3, LedgerBoundsAssumption DEF Numbers, LedgerTyped, FilesTyped

\* The rotator could not read it.
LEMMA MissHashIs ==
  ASSUME LedgerTyped, NEW k \in Keepers, k \in Working, MissHash(k)
  PROVE  \E j \in KeeperJobs : KeeperGoes(k, "audit", j) /\ j.at = "anchor"
<1>1. PICK b \in Jobs({"idle", "audit", "anchor", "archive", "remove"}) : b = keeper[k]
  BY DEF LedgerTyped, JobsTyped, KeeperJobs
<1>2. PICK j : j = [b EXCEPT !.at = "anchor"]
  OBVIOUS
<1>3. KeeperGoes(k, "audit", j)
  BY <1>1, <1>2 DEF MissHash
<1>4. b.at # "idle" /\ b.file # 0
  BY <1>1, KeeperHolds DEF Working
<1>5. /\ j \in KeeperJobs
      /\ j = [at |-> "anchor", entry |-> b.entry, prev |-> b.prev, file |-> b.file]
  BY <1>2, <1>4, JobGoes DEF KeeperJobs
<1>6. j.at = "anchor"
  BY <1>5, JobFields
<1> QED BY <1>3, <1>5, <1>6

\* It starts a new ledger.
LEMMA StartIs ==
  ASSUME LedgerTyped, NEW k \in Keepers, k \in Working, StartLedger(k)
  PROVE  \E j \in KeeperJobs :
           /\ KeeperGoes(k, "anchor", j)
           /\ j.at = "archive" /\ j.file = keeper[k].file /\ j.entry = keeper[k].entry
           /\ j.prev = keeper[k].prev
<1>1. PICK b \in Jobs({"idle", "audit", "anchor", "archive", "remove"}) : b = keeper[k]
  BY DEF LedgerTyped, JobsTyped, KeeperJobs
<1>2. PICK j : j = [b EXCEPT !.at = "archive"]
  OBVIOUS
<1>3. KeeperGoes(k, "anchor", j)
  BY <1>1, <1>2 DEF StartLedger
<1>4. b.at # "idle" /\ b.file # 0
  BY <1>1, KeeperHolds DEF Working
<1>5. /\ j \in KeeperJobs
      /\ j = [at |-> "archive", entry |-> b.entry, prev |-> b.prev, file |-> b.file]
  BY <1>2, <1>4, JobGoes DEF KeeperJobs
<1>6. j.at = "archive" /\ j.entry = b.entry /\ j.prev = b.prev /\ j.file = b.file
  BY <1>5, JobFields
<1> QED BY <1>1, <1>3, <1>5, <1>6

\* It archives what it set aside.
LEMMA ArchiveIs ==
  ASSUME LedgerTyped, NEW k \in Keepers, k \in Working, Archive(k)
  PROVE  \E j \in KeeperJobs :
           /\ KeeperGoes(k, "archive", j)
           /\ j.at = "remove" /\ j.file = keeper[k].file /\ j.entry = keeper[k].entry
           /\ j.prev = keeper[k].prev
<1>1. PICK b \in Jobs({"idle", "audit", "anchor", "archive", "remove"}) : b = keeper[k]
  BY DEF LedgerTyped, JobsTyped, KeeperJobs
<1>2. PICK j : j = [b EXCEPT !.at = "remove"]
  OBVIOUS
<1>3. KeeperGoes(k, "archive", j)
  BY <1>1, <1>2 DEF Archive
<1>4. b.at # "idle" /\ b.file # 0
  BY <1>1, KeeperHolds DEF Working
<1>5. /\ j \in KeeperJobs
      /\ j = [at |-> "remove", entry |-> b.entry, prev |-> b.prev, file |-> b.file]
  BY <1>2, <1>4, JobGoes DEF KeeperJobs
<1>6. j.at = "remove" /\ j.entry = b.entry /\ j.prev = b.prev /\ j.file = b.file
  BY <1>5, JobFields
<1> QED BY <1>1, <1>3, <1>5, <1>6

\* So has a deployer that is about to write, and one at work has an entry.
LEMMA DeployerHolds ==
  ASSUME LedgerTyped, NEW d \in Deployers, deployer[d].at # "idle"
  PROVE  /\ deployer[d].entry \in 1 .. MaxEntries /\ deployer[d].prev \in Numbers
         /\ deployer[d].at = "write" => /\ deployer[d].file \in Files
                                        /\ deployer[d].file # 0
<1>1. deployer[d] \in Jobs({"idle", "read", "open", "write"})
  BY DEF LedgerTyped, JobsTyped, DeployerJobs
<1>2. /\ deployer[d].at = "write" => deployer[d].file \in Files /\ deployer[d].file # 0
      /\ deployer[d].entry \in Numbers /\ deployer[d].entry # 0 /\ deployer[d].prev \in Numbers
  BY <1>1, JobIs
<1> QED BY <1>2, LedgerBoundsAssumption DEF Numbers

-----------------------------------------------------------------------------
(***************************************************************************)
(* Types.                                                                  *)
(***************************************************************************)

\* The one entry of a new ledger, and one more at the end of another.
LEMMA EntriesTyped ==
  ASSUME NEW n \in 1 .. MaxEntries, NEW h \in Numbers, NEW s \in Seq(Entries)
  PROVE  /\ [entry |-> n, prev |-> h] \in Entries
         /\ <<[entry |-> n, prev |-> h]>> \in Seq(Entries)
         /\ Append(s, [entry |-> n, prev |-> h]) \in Seq(Entries)
BY DEF Entries, Numbers

\* Before anything has happened.
LEMMA LedgerTypedInit ==
  ASSUME LedgerInit
  PROVE  LedgerTyped
<1>1. FilesTyped
  BY LedgerBoundsAssumption DEF LedgerInit, FilesTyped
<1>2. Idle \in DeployerJobs /\ Idle \in KeeperJobs
  BY JobEnds, LedgerBoundsAssumption DEF DeployerJobs, KeeperJobs
<1>3. JobsTyped
  BY <1>2 DEF LedgerInit, JobsTyped
<1>4. CountsTyped
  BY LedgerBoundsAssumption DEF LedgerInit, CountsTyped
<1> QED BY <1>1, <1>3, <1>4 DEF LedgerTyped

\* A deployer's steps keep the types.
LEMMA DeployTyped ==
  ASSUME LedgerTyped, NEW d \in Deployers, Deploy(d)
  PROVE  LedgerTyped'
<1>1. CASE Look(d)
  <2>1. PICK j \in DeployerJobs : DeployerGoes(d, "idle", j)
    BY <1>1, LookIs
  <2>2. JobsTyped' /\ UNCHANGED <<aside, archives, keeper>>
    BY <2>1, DeployerMoves
  <2>3. nextEntry \in 1 .. MaxEntries
    BY <1>1, LookIs
  <2>4. FilesTyped'
    BY <1>1, <2>2 DEF Look, LedgerTyped, FilesTyped
  <2>5. CountsTyped'
    BY <1>1, <2>3, LedgerBoundsAssumption DEF Look, DeployerGoes, LedgerTyped, CountsTyped
  <2> QED BY <2>2, <2>4, <2>5 DEF LedgerTyped
<1>2. CASE Read(d)
  <2>1. PICK j \in DeployerJobs : DeployerGoes(d, "read", j)
    BY <1>2, ReadIs
  <2>2. JobsTyped' /\ UNCHANGED <<aside, archives, keeper>>
    BY <2>1, DeployerMoves
  <2> QED BY <1>2, <2>2
          DEF Read, DeployerGoes, history, LedgerTyped, FilesTyped, CountsTyped
<1>3. CASE GiveUp(d)
  <2>1. JobsTyped' /\ UNCHANGED <<aside, archives, keeper>>
    BY <1>3, DeployerEnds, DeployerMoves DEF GiveUp
  <2> QED BY <1>3, <2>1
          DEF GiveUp, DeployerGoes, history, LedgerTyped, FilesTyped, CountsTyped
<1>4. CASE Open(d)
  <2>1. PICK f \in Opened, j \in DeployerJobs :
          /\ DeployerGoes(d, "open", j)
          /\ ledger' = f
          /\ content' = IF ledger = f THEN content ELSE [content EXCEPT ![f] = <<>>]
          /\ UNCHANGED <<nextEntry, history>>
    BY <1>4, OpenIs
  <2>2. JobsTyped' /\ UNCHANGED <<aside, archives, keeper>>
    BY <2>1, DeployerMoves
  <2>3. f \in Files /\ f \notin aside
    BY OpenedIs
  <2>4. <<>> \in Seq(Entries)
    OBVIOUS
  <2>5. FilesTyped'
    BY <2>1, <2>2, <2>3, <2>4 DEF LedgerTyped, FilesTyped
  <2>6. CountsTyped'
    BY <2>1 DEF DeployerGoes, history, LedgerTyped, CountsTyped
  <2> QED BY <2>2, <2>5, <2>6 DEF LedgerTyped
<1>5. CASE WriteEntry(d)
  <2>1. JobsTyped' /\ UNCHANGED <<aside, archives, keeper>>
    BY <1>5, DeployerEnds, DeployerMoves DEF WriteEntry
  <2>2. /\ deployer[d].entry \in 1 .. MaxEntries /\ deployer[d].prev \in Numbers
        /\ deployer[d].file \in Files
    BY <1>5, DeployerHolds DEF WriteEntry, DeployerGoes
  <2>3. Append(content[deployer[d].file], [entry |-> deployer[d].entry, prev |-> deployer[d].prev])
          \in Seq(Entries)
    BY <2>2, EntriesTyped DEF LedgerTyped, FilesTyped
  <2>4. FilesTyped'
    BY <1>5, <2>1, <2>3 DEF WriteEntry, LedgerTyped, FilesTyped
  <2>5. CountsTyped'
    BY <1>5, <2>2 DEF WriteEntry, DeployerGoes, LedgerTyped, CountsTyped
  <2> QED BY <2>1, <2>4, <2>5 DEF LedgerTyped
<1> QED BY <1>1, <1>2, <1>3, <1>4, <1>5 DEF Deploy

\* The entries that a keeper puts at risk are entries.
LEMMA MeetsTyped ==
  ASSUME LedgerTyped
  PROVE  Meets \subseteq 1 .. MaxEntries
BY DeployerHolds DEF Meets, Appending

\* So do a keeper's.
LEMMA KeepTyped ==
  ASSUME LedgerTyped, NEW k \in Keepers, Keep(k)
  PROVE  LedgerTyped'
<1>1. CASE SetAside(k)
  <2>1. PICK j \in KeeperJobs : KeeperGoes(k, "idle", j) /\ nextEntry \in 1 .. MaxEntries
    BY <1>1, SetAsideIs
  <2>2. JobsTyped' /\ UNCHANGED <<deployer, committed>>
    BY <2>1, KeeperMoves
  <2>3. FilesTyped'
    BY <1>1, LedgerBoundsAssumption DEF SetAside, LedgerTyped, FilesTyped, Files
  <2>4. CountsTyped'
    BY <1>1, <2>1, <2>2, MeetsTyped, LedgerBoundsAssumption
       DEF SetAside, LedgerTyped, CountsTyped
  <2> QED BY <2>2, <2>3, <2>4 DEF LedgerTyped
<1>2. CASE k \in Working /\ ReadHash(k)
  <2>1. PICK j \in KeeperJobs : KeeperGoes(k, "audit", j)
    BY <1>2, ReadHashIs
  <2>2. JobsTyped' /\ UNCHANGED <<deployer, committed>>
    BY <2>1, KeeperMoves
  <2> QED BY <1>2, <2>2 DEF ReadHash, LedgerTyped, FilesTyped, CountsTyped
<1>3. CASE k \in Working /\ StartLedger(k)
  <2>1. PICK f \in Opened :
          /\ KeeperGoes(k, "anchor", [keeper[k] EXCEPT !.at = "archive"])
          /\ content' = [content EXCEPT ![f] =
                           <<[entry |-> keeper[k].entry, prev |-> keeper[k].prev]>>]
          /\ ledger' = f
          /\ UNCHANGED <<aside, archives, nextEntry, crashes, overlapped, undisturbed>>
    BY <1>3 DEF StartLedger
  <2>2. PICK j \in KeeperJobs : KeeperGoes(k, "anchor", j)
    BY <1>3, StartIs
  <2>3. JobsTyped' /\ UNCHANGED <<deployer, committed>>
    BY <2>2, KeeperMoves
  <2>4. f \in Files /\ f \notin aside
    BY OpenedIs
  <2>5. <<[entry |-> keeper[k].entry, prev |-> keeper[k].prev]>> \in Seq(Entries)
    BY <1>3, KeeperHolds, EntriesTyped DEF Working
  <2>6. FilesTyped'
    BY <2>1, <2>4, <2>5 DEF LedgerTyped, FilesTyped
  <2>7. CountsTyped'
    BY <2>1, <2>3 DEF LedgerTyped, CountsTyped
  <2> QED BY <2>3, <2>6, <2>7 DEF LedgerTyped
<1>4. CASE k \in Working /\ Archive(k)
  <2>1. PICK j \in KeeperJobs : KeeperGoes(k, "archive", j)
    BY <1>4, ArchiveIs
  <2>2. JobsTyped' /\ UNCHANGED <<deployer, committed>>
    BY <2>1, KeeperMoves
  <2>3. content[keeper[k].file] \in Seq(Entries)
    BY <1>4, KeeperHolds DEF Working
  <2>4. Append(archives, content[keeper[k].file]) \in Seq(Seq(Entries))
    BY <2>3 DEF LedgerTyped, FilesTyped
  <2>5. FilesTyped'
    BY <1>4, <2>4 DEF Archive, LedgerTyped, FilesTyped
  <2>6. CountsTyped'
    BY <1>4, <2>2 DEF Archive, LedgerTyped, CountsTyped
  <2> QED BY <2>2, <2>5, <2>6 DEF LedgerTyped
<1>5. CASE k \in Working /\ RemoveSource(k)
  <2>1. JobsTyped' /\ UNCHANGED <<deployer, committed>>
    BY <1>5, DeployerEnds, KeeperMoves DEF RemoveSource
  <2> QED BY <1>5, <2>1 DEF RemoveSource, LedgerTyped, FilesTyped, CountsTyped
<1>6. CASE k \in Working /\ PutBack(k)
  <2>1. JobsTyped' /\ UNCHANGED <<deployer, committed>>
    BY <1>6, DeployerEnds, KeeperMoves DEF PutBack
  <2>2. keeper[k].file \in Files
    BY <1>6, KeeperHolds DEF Working
  <2> QED BY <1>6, <2>1, <2>2 DEF PutBack, LedgerTyped, FilesTyped, CountsTyped
<1>7. CASE k \in Working /\ LeaveAside(k)
  <2>1. JobsTyped' /\ UNCHANGED <<deployer, committed>>
    BY <1>7, DeployerEnds, KeeperMoves DEF LeaveAside
  <2> QED BY <1>7, <2>1 DEF LeaveAside, LedgerTyped, FilesTyped, CountsTyped
<1>8. CASE k \in Working /\ Crash(k)
  <2>1. JobsTyped' /\ UNCHANGED <<deployer, committed>>
    BY <1>8, DeployerEnds, KeeperMoves DEF Crash
  <2>2. crashes' \in 0 .. MaxCrashes
    BY <1>8, LedgerBoundsAssumption DEF Crash, LedgerTyped, CountsTyped
  <2>3. FilesTyped'
    BY <1>8 DEF Crash, LedgerTyped, FilesTyped
  <2>4. CountsTyped'
    BY <1>8, <2>1, <2>2 DEF Crash, LedgerTyped, CountsTyped
  <2> QED BY <2>1, <2>3, <2>4 DEF LedgerTyped
<1>9. CASE k \in Working /\ MissHash(k)
  <2>1. PICK j \in KeeperJobs : KeeperGoes(k, "audit", j)
    BY <1>9, MissHashIs
  <2>2. JobsTyped' /\ UNCHANGED <<deployer, committed>>
    BY <2>1, KeeperMoves
  <2> QED BY <1>9, <2>2 DEF MissHash, LedgerTyped, FilesTyped, CountsTyped
<1> QED BY <1>1, <1>2, <1>3, <1>4, <1>5, <1>6, <1>7, <1>8, <1>9 DEF Keep

\* Every step keeps the types.
LEMMA LedgerTypedStep ==
  ASSUME LedgerTyped, [LedgerNext]_ledgerVars
  PROVE  LedgerTyped'
<1>1. CASE LedgerNext
  BY <1>1, DeployTyped, KeepTyped DEF LedgerNext
<1>2. CASE UNCHANGED ledgerVars
  BY <1>2 DEF ledgerVars, LedgerTyped, FilesTyped, JobsTyped, CountsTyped
<1> QED BY <1>1, <1>2

\* What a process holds is of the type the model gives it.
LEMMA LedgerTypedIsTypeOK ==
  ASSUME LedgerTyped
  PROVE  LedgerTypeOK
BY DEF LedgerTyped, FilesTyped, JobsTyped, CountsTyped, LedgerTypeOK, DeployerJobs,
       KeeperJobs, Jobs, Numbers

\* Every file has at most one name, whatever is renamed over what, and what is written
\* to it are entries with hashes of entries.
THEOREM LedgerTypeCorrect == LedgerSpec => []LedgerTypeOK
<1>1. LedgerInit => LedgerTyped
  BY LedgerTypedInit
<1>2. LedgerTyped /\ [LedgerNext]_ledgerVars => LedgerTyped'
  BY LedgerTypedStep
<1>3. LedgerTyped => LedgerTypeOK
  BY LedgerTypedIsTypeOK
<1> QED BY <1>1, <1>2, <1>3, PTL DEF LedgerSpec

-----------------------------------------------------------------------------
(***************************************************************************)
(* Where the incidents are kept.                                           *)
(***************************************************************************)

\* The incidents that were written with nobody in the way.
AtNoRisk == committed \ overlapped

\* e is in one of the files fs or in an archive.
Stored(e, fs, inFile, archived) ==
  \/ \E f \in fs : e \in EntriesOf(inFile[f])
  \/ \E a \in Range(archived) : e \in EntriesOf(a)

AllStored(es, fs, inFile, archived) == \A e \in es : Stored(e, fs, inFile, archived)

\* The files that have a name.
Named == aside \cup ({ledger} \ {0})

\* Two keepers at work put every entry at risk.
KeepersApart == \A k, l \in Working : k # l => 1 .. MaxEntries \subseteq overlapped

\* A keeper at work puts the appends under way at risk.
AppendsMet == Working # {} => \A d \in Appending : deployer[d].entry \in overlapped

\* A deployer that met nobody has the ledger open.
AppendsFound ==
  \A d \in Deployers :
    deployer[d].at = "write" /\ deployer[d].entry \notin overlapped => deployer[d].file = ledger

\* With no keeper at work an incident may be in the ledger; with one at work it is in
\* what was set aside or archived, without the file about to be removed.
StoredAtRest == Working = {} => AllStored(AtNoRisk, Named, content, archives)
StoredAtWork == Working # {} => AllStored(AtNoRisk, aside, content, archives)
StoredAtRemoval ==
  \A k \in Keepers :
    keeper[k].at = "remove" => AllStored(AtNoRisk, aside \ {keeper[k].file}, content, archives)

\* The inductive invariant behind NothingLost.
LossInv ==
  /\ KeepersApart
  /\ AppendsMet
  /\ AppendsFound
  /\ StoredAtRest
  /\ StoredAtWork
  /\ StoredAtRemoval

\* What is stored stays so while files only grow, are not taken away and are archived.
LEMMA StoredMore ==
  ASSUME NEW es, NEW fs, NEW inFile, NEW archived, AllStored(es, fs, inFile, archived),
         NEW es2 \in SUBSET es, NEW fs2, NEW inFile2, NEW archived2,
         \A f \in fs : f \in fs2 /\ EntriesOf(inFile[f]) \subseteq EntriesOf(inFile2[f]),
         Range(archived) \subseteq Range(archived2)
  PROVE  AllStored(es2, fs2, inFile2, archived2)
<1> HIDE DEF EntriesOf, Range
<1> SUFFICES ASSUME NEW e \in es2 PROVE Stored(e, fs2, inFile2, archived2)
  BY DEF AllStored
<1>1. Stored(e, fs, inFile, archived)
  BY DEF AllStored
<1> QED BY <1>1 DEF Stored

\* A file with one more entry has what it had and that.
LEMMA EntriesAppended ==
  ASSUME NEW s \in Seq(Entries), NEW x \in Entries
  PROVE  EntriesOf(s) \subseteq EntriesOf(Append(s, x)) /\ x.entry \in EntriesOf(Append(s, x))
<1>1. /\ DOMAIN s \subseteq DOMAIN Append(s, x)
      /\ \A i \in DOMAIN s : Append(s, x)[i] = s[i]
      /\ Len(s) + 1 \in DOMAIN Append(s, x) /\ Append(s, x)[Len(s) + 1] = x
  BY AppendProperties, LenProperties
<1> HIDE DEF Entries
<1>2. Range(s) \subseteq Range(Append(s, x)) /\ x \in Range(Append(s, x))
  BY <1>1 DEF Range
<1> QED BY <1>2 DEF EntriesOf

\* So have the archives with one more archive.
LEMMA ArchivesAppended ==
  ASSUME NEW T, NEW a \in Seq(T), NEW x \in T
  PROVE  Range(a) \subseteq Range(Append(a, x)) /\ x \in Range(Append(a, x))
<1>1. /\ DOMAIN a \subseteq DOMAIN Append(a, x)
      /\ \A i \in DOMAIN a : Append(a, x)[i] = a[i]
      /\ Len(a) + 1 \in DOMAIN Append(a, x) /\ Append(a, x)[Len(a) + 1] = x
  BY AppendProperties, LenProperties
<1> QED BY <1>1 DEF Range

\* With every entry at risk there is nothing to be lost.
LEMMA NothingAtStake ==
  ASSUME LedgerTyped', 1 .. MaxEntries \subseteq overlapped'
  PROVE  LossInv'
<1>1. AtNoRisk' = {}
  BY DEF AtNoRisk, LedgerTyped, CountsTyped
<1>2. StoredAtRest' /\ StoredAtWork' /\ StoredAtRemoval'
  BY <1>1 DEF StoredAtRest, StoredAtWork, StoredAtRemoval, AllStored
<1>3. ASSUME NEW d \in Deployers, deployer'[d].at # "idle"
      PROVE  deployer'[d].entry \in overlapped'
  <2>1. deployer'[d] \in Jobs({"idle", "read", "open", "write"})
    BY DEF LedgerTyped, JobsTyped, DeployerJobs
  <2>2. PICK j \in Jobs({"idle", "read", "open", "write"}) : j = deployer'[d]
    BY <2>1
  <2>3. j.entry \in 1 .. MaxEntries
    BY <1>3, <2>2, JobIs, LedgerBoundsAssumption DEF Numbers
  <2> QED BY <2>2, <2>3
<1>4. AppendsMet' /\ AppendsFound'
  BY <1>3 DEF AppendsMet, AppendsFound, Appending
<1> QED BY <1>2, <1>4 DEF LossInv, KeepersApart

\* A deployer's step loses nothing: it writes to the ledger, or with a keeper at work.
LEMMA DeployerKeeps ==
  ASSUME LossInv, UNCHANGED <<keeper, aside, archives>>,
         overlapped \subseteq overlapped',
         \A f \in Named : EntriesOf(content[f]) \subseteq EntriesOf(content'[f]),
         ledger # 0 => ledger' = ledger,
         \A e \in AtNoRisk' \ AtNoRisk :
           Working = {} /\ Stored(e, Named', content', archives')
  PROVE  KeepersApart' /\ StoredAtRest' /\ StoredAtWork' /\ StoredAtRemoval'
<1>1. Working' = Working
  BY DEF Working
<1>2. KeepersApart'
  BY <1>1 DEF LossInv, KeepersApart
<1>3. Named \subseteq Named'
  BY DEF Named
<1>4. ASSUME Working = {} PROVE AllStored(AtNoRisk', Named', content', archives')
  <2>1. AllStored(AtNoRisk' \cap AtNoRisk, Named', content', archives')
    BY <1>3, <1>4, StoredMore DEF LossInv, StoredAtRest
  <2> QED BY <2>1 DEF AllStored
<1>5. ASSUME Working # {} PROVE AtNoRisk' \subseteq AtNoRisk
  BY <1>5
<1>6. ASSUME Working # {} PROVE AllStored(AtNoRisk', aside', content', archives')
  <2>1. aside \subseteq Named
    BY DEF Named
  <2> QED BY <1>5, <1>6, <2>1, StoredMore DEF LossInv, StoredAtWork
<1>7. ASSUME NEW k \in Keepers, keeper[k].at = "remove"
      PROVE  AllStored(AtNoRisk', aside' \ {keeper'[k].file}, content', archives')
  <2>1. Working # {}
    BY <1>7 DEF Working
  <2>2. aside \ {keeper[k].file} \subseteq Named
    BY DEF Named
  <2>3. AllStored(AtNoRisk, aside \ {keeper[k].file}, content, archives)
    BY <1>7 DEF LossInv, StoredAtRemoval
  <2> QED BY <1>5, <2>1, <2>2, <2>3, StoredMore
<1> QED BY <1>1, <1>2, <1>4, <1>6, <1>7 DEF StoredAtRest, StoredAtWork, StoredAtRemoval

\* A deployer's steps keep the invariant.
LEMMA DeployLosesNothing ==
  ASSUME LedgerTyped, LossInv, NEW d \in Deployers, Deploy(d)
  PROVE  LossInv'
<1>1. CASE Look(d)
  <2>1. PICK j \in DeployerJobs :
          /\ DeployerGoes(d, "idle", j)
          /\ j.at # "write" /\ j.entry = nextEntry
    BY <1>1, LookIs
  <2>2. /\ UNCHANGED <<keeper, aside, archives>> /\ Working' = Working
        /\ deployer'[d] = j
        /\ \A e \in Deployers \ {d} : deployer'[e] = deployer[e]
    BY <2>1, DeployerMoves
  <2>3. /\ UNCHANGED <<ledger, content, committed>> /\ overlapped \subseteq overlapped'
        /\ Working # {} => nextEntry \in overlapped'
    BY <1>1 DEF Look
  <2>4. AppendsMet'
    BY <2>1, <2>2, <2>3 DEF LossInv, AppendsMet, Appending
  <2>5. AppendsFound'
    BY <2>1, <2>2, <2>3 DEF LossInv, AppendsFound
  <2>6. AtNoRisk' \subseteq AtNoRisk
    BY <2>3 DEF AtNoRisk
  <2>7. KeepersApart' /\ StoredAtRest' /\ StoredAtWork' /\ StoredAtRemoval'
    BY <2>2, <2>3, <2>6, DeployerKeeps
  <2> QED BY <2>4, <2>5, <2>7 DEF LossInv
<1>2. CASE Read(d)
  <2>1. PICK j \in DeployerJobs :
          /\ DeployerGoes(d, "read", j)
          /\ j.at = "open" /\ j.entry = deployer[d].entry
    BY <1>2, ReadIs
  <2>2. /\ UNCHANGED <<keeper, aside, archives>> /\ Working' = Working
        /\ deployer'[d] = j /\ deployer[d].at # "idle"
        /\ \A e \in Deployers \ {d} : deployer'[e] = deployer[e]
    BY <2>1, DeployerMoves DEF DeployerGoes
  <2>3. UNCHANGED <<ledger, content, committed, overlapped>>
    BY <1>2 DEF Read, history
  <2>4. AppendsMet' /\ AppendsFound'
    BY <2>1, <2>2, <2>3 DEF LossInv, AppendsMet, AppendsFound, Appending
  <2>5. AtNoRisk' \subseteq AtNoRisk
    BY <2>3 DEF AtNoRisk
  <2>6. KeepersApart' /\ StoredAtRest' /\ StoredAtWork' /\ StoredAtRemoval'
    BY <2>2, <2>3, <2>5, DeployerKeeps
  <2> QED BY <2>4, <2>6 DEF LossInv
<1>3. CASE GiveUp(d)
  <2>1. /\ UNCHANGED <<keeper, aside, archives>> /\ Working' = Working
        /\ deployer'[d].at = "idle"
        /\ \A e \in Deployers \ {d} : deployer'[e] = deployer[e]
    BY <1>3, DeployerEnds, DeployerMoves DEF GiveUp
  <2>2. UNCHANGED <<ledger, content, committed, overlapped>>
    BY <1>3 DEF GiveUp, history
  <2>3. AppendsMet' /\ AppendsFound'
    BY <2>1, <2>2 DEF LossInv, AppendsMet, AppendsFound, Appending
  <2>4. AtNoRisk' \subseteq AtNoRisk
    BY <2>2 DEF AtNoRisk
  <2>5. KeepersApart' /\ StoredAtRest' /\ StoredAtWork' /\ StoredAtRemoval'
    BY <2>1, <2>2, <2>4, DeployerKeeps
  <2> QED BY <2>3, <2>5 DEF LossInv
<1>4. CASE Open(d)
  <2>1. PICK f \in Opened, j \in DeployerJobs :
          /\ DeployerGoes(d, "open", j)
          /\ j.at = "write" /\ j.file = f /\ j.entry = deployer[d].entry
          /\ ledger' = f
          /\ content' = IF ledger = f THEN content ELSE [content EXCEPT ![f] = <<>>]
          /\ UNCHANGED <<nextEntry, history>>
    BY <1>4, OpenIs
  <2>2. /\ UNCHANGED <<keeper, aside, archives>> /\ Working' = Working
        /\ deployer'[d] = j /\ deployer[d].at # "idle"
        /\ \A e \in Deployers \ {d} : deployer'[e] = deployer[e]
    BY <2>1, DeployerMoves DEF DeployerGoes
  <2>3. f \in Files /\ f # 0 /\ f \notin aside /\ (ledger # 0 => f = ledger)
    BY OpenedIs
  <2>4. UNCHANGED <<committed, overlapped>>
    BY <2>1 DEF history
  <2>5. AppendsMet'
    BY <2>1, <2>2, <2>4 DEF LossInv, AppendsMet, Appending
  <2>6. AppendsFound'
    <3>1. ASSUME NEW e \in Deployers \ {d}, deployer'[e].at = "write",
                 deployer'[e].entry \notin overlapped'
          PROVE  deployer'[e].file = ledger'
      <4>1. deployer[e].file = ledger
        BY <2>2, <2>4, <3>1 DEF LossInv, AppendsFound
      <4>2. deployer[e].file # 0
        BY <2>2, <3>1, DeployerHolds
      <4> QED BY <2>1, <2>2, <2>3, <3>1, <4>1, <4>2
    <3> QED BY <2>1, <2>2, <3>1 DEF AppendsFound
  <2>7. AtNoRisk' \subseteq AtNoRisk
    BY <2>4 DEF AtNoRisk
  <2>8. \A g \in Named : content'[g] = content[g]
    BY <2>1, <2>3 DEF Named, LedgerTyped, FilesTyped
  <2>9. KeepersApart' /\ StoredAtRest' /\ StoredAtWork' /\ StoredAtRemoval'
    BY <2>1, <2>2, <2>3, <2>4, <2>7, <2>8, DeployerKeeps
  <2> QED BY <2>5, <2>6, <2>9 DEF LossInv
<1>5. CASE WriteEntry(d)
  <2> DEFINE x == [entry |-> deployer[d].entry, prev |-> deployer[d].prev]
             g == deployer[d].file
  <2>1. /\ UNCHANGED <<keeper, aside, archives>> /\ Working' = Working
        /\ deployer'[d].at = "idle" /\ deployer[d].at = "write"
        /\ \A e \in Deployers \ {d} : deployer'[e] = deployer[e]
    BY <1>5, DeployerEnds, DeployerMoves DEF WriteEntry, DeployerGoes
  <2>2. /\ UNCHANGED <<ledger, overlapped>> /\ committed' = committed \cup {deployer[d].entry}
        /\ content' = [content EXCEPT ![g] = Append(@, x)]
    BY <1>5 DEF WriteEntry
  <2>3. g \in Files /\ g # 0 /\ x \in Entries /\ content[g] \in Seq(Entries)
    BY <2>1, DeployerHolds, EntriesTyped DEF LedgerTyped, FilesTyped
  <2>4. x.entry = deployer[d].entry
    OBVIOUS
  <2> HIDE DEF x
  <2>5. content'[g] = Append(content[g], x) /\ \A f \in Files \ {g} : content'[f] = content[f]
    BY <2>2, <2>3 DEF LedgerTyped, FilesTyped
  <2>6. /\ \A f \in Files : EntriesOf(content[f]) \subseteq EntriesOf(content'[f])
        /\ deployer[d].entry \in EntriesOf(content'[g])
    BY <2>3, <2>4, <2>5, EntriesAppended
  <2>7. AppendsMet' /\ AppendsFound'
    BY <2>1, <2>2 DEF LossInv, AppendsMet, AppendsFound, Appending
  <2>8. ASSUME NEW e \in AtNoRisk' \ AtNoRisk
        PROVE  Working = {} /\ Stored(e, Named', content', archives')
    <3>1. e = deployer[d].entry /\ e \notin overlapped
      BY <2>2 DEF AtNoRisk
    <3>2. Working = {}
      BY <2>1, <3>1 DEF LossInv, AppendsMet, Appending
    <3>3. g = ledger
      BY <2>1, <3>1 DEF LossInv, AppendsFound
    <3>4. g \in Named'
      BY <2>2, <2>3, <3>3 DEF Named
    <3> QED BY <2>6, <3>1, <3>2, <3>4 DEF Stored
  <2>9. Named \subseteq Files
    BY DEF Named, LedgerTyped, FilesTyped
  <2>10. KeepersApart' /\ StoredAtRest' /\ StoredAtWork' /\ StoredAtRemoval'
    BY <2>1, <2>2, <2>6, <2>8, <2>9, DeployerKeeps
  <2> QED BY <2>7, <2>10 DEF LossInv
<1> QED BY <1>1, <1>2, <1>3, <1>4, <1>5 DEF Deploy

\* A keeper's step that leaves it at work, alone, keeps what is stored.
LEMMA KeeperStays ==
  ASSUME LossInv, NEW k \in Keepers, Working' = {k}, UNCHANGED <<deployer, committed, overlapped>>,
         Working = {k},
         AllStored(AtNoRisk, aside', content', archives'),
         keeper'[k].at = "remove" =>
           AllStored(AtNoRisk, aside' \ {keeper'[k].file}, content', archives')
  PROVE  LossInv'
<1>1. AtNoRisk' = AtNoRisk
  BY DEF AtNoRisk
<1>2. KeepersApart' /\ StoredAtRest' /\ StoredAtWork'
  BY <1>1 DEF KeepersApart, StoredAtRest, StoredAtWork
<1>3. AppendsMet'
  BY DEF LossInv, AppendsMet, Appending
<1>4. AppendsFound'
  BY <1>3 DEF AppendsFound, AppendsMet, Appending
<1>5. \A l \in Keepers : keeper'[l].at = "remove" => l = k
  BY DEF Working
<1>6. StoredAtRemoval'
  BY <1>1, <1>5 DEF StoredAtRemoval
<1> QED BY <1>2, <1>3, <1>4, <1>6 DEF LossInv

\* A keeper's step that ends its work, and leaves none at work, keeps what is stored.
LEMMA KeeperEnds ==
  ASSUME LossInv, Working' = {}, Working # {}, UNCHANGED <<deployer, committed, overlapped>>,
         AllStored(AtNoRisk, Named', content', archives')
  PROVE  LossInv'
<1>1. AtNoRisk' = AtNoRisk
  BY DEF AtNoRisk
<1>2. KeepersApart' /\ StoredAtRest' /\ StoredAtWork' /\ AppendsMet'
  BY <1>1 DEF KeepersApart, StoredAtRest, StoredAtWork, AppendsMet
<1>3. \A d \in Deployers : deployer'[d].at = "write" => deployer'[d].entry \in overlapped'
  BY DEF LossInv, AppendsMet, Appending
<1>4. AppendsFound'
  BY <1>3 DEF AppendsFound
<1>5. StoredAtRemoval'
  BY DEF StoredAtRemoval, Working
<1> QED BY <1>2, <1>4, <1>5 DEF LossInv

\* A keeper that sets the ledger aside: what is in it is set aside with it.
LEMMA SetAsideLosesNothing ==
  ASSUME LedgerTyped, LedgerTyped', LossInv, NEW k \in Keepers, SetAside(k)
  PROVE  LossInv'
<1>1. PICK j \in KeeperJobs :
        KeeperGoes(k, "idle", j) /\ j.at = "audit" /\ j.file = ledger /\ ledger # 0
  BY SetAsideIs
<1>2. /\ keeper'[k] = j /\ \A l \in Keepers \ {k} : keeper'[l] = keeper[l]
      /\ Working' = Working \cup {k} /\ UNCHANGED <<deployer, committed>>
  BY <1>1, KeeperMoves
<1>3. /\ overlapped' = overlapped \cup Meets
      /\ aside' = aside \cup {ledger} /\ UNCHANGED <<content, archives>>
  BY DEF SetAside
<1>4. CASE Working # {}
  <2>1. 1 .. MaxEntries \subseteq overlapped'
    BY <1>3, <1>4 DEF Meets
  <2> QED BY <2>1, NothingAtStake
<1>5. CASE Working = {}
  <2>1. Working' = {k}
    BY <1>2, <1>5
  <2>2. \A d \in Deployers : deployer[d].at # "idle" => deployer[d].entry \in overlapped'
    BY <1>3 DEF Meets, Appending
  <2>3. AppendsMet' /\ AppendsFound'
    BY <1>2, <2>2 DEF AppendsMet, AppendsFound, Appending
  <2>4. AtNoRisk' \subseteq AtNoRisk
    BY <1>2, <1>3 DEF AtNoRisk
  <2>5. Named \subseteq aside'
    BY <1>3 DEF Named
  <2>6. AllStored(AtNoRisk', aside', content', archives')
    BY <1>3, <1>5, <2>4, <2>5, StoredMore DEF LossInv, StoredAtRest
  <2>7. \A l \in Keepers : keeper'[l].at # "remove"
    BY <1>1, <1>2, <1>5 DEF Working
  <2> QED BY <2>1, <2>3, <2>6, <2>7
          DEF LossInv, KeepersApart, StoredAtRest, StoredAtWork, StoredAtRemoval
<1> QED BY <1>4, <1>5

\* The steps of a keeper at work, too: each writes elsewhere, or archives before it
\* removes, or gives a file back its name.
LEMMA KeepLosesNothing ==
  ASSUME LedgerTyped, LedgerTyped', LossInv, NEW k \in Keepers, Keep(k)
  PROVE  LossInv'
<1> SUFFICES ASSUME k \in Working, ~SetAside(k) PROVE LossInv'
  BY SetAsideLosesNothing DEF Keep
<1>a. overlapped' = overlapped
  BY DEF Keep, ReadHash, StartLedger, Archive, RemoveSource, MissHash, PutBack, LeaveAside,
     Crash
<1>b. CASE Working # {k}
  <2>1. 1 .. MaxEntries \subseteq overlapped
    BY <1>b DEF LossInv, KeepersApart
  <2> QED BY <1>a, <2>1, NothingAtStake
<1>c. CASE Working = {k}
  <2>1. AllStored(AtNoRisk, aside, content, archives)
    BY <1>c DEF LossInv, StoredAtWork
  <2>2. keeper[k].file \in Files /\ keeper[k].file # 0 /\ content[keeper[k].file] \in Seq(Entries)
    BY KeeperHolds DEF Working
  <2>3. CASE ReadHash(k)
    <3>1. PICK j \in KeeperJobs : KeeperGoes(k, "audit", j) /\ j.at = "anchor"
      BY <2>3, ReadHashIs
    <3>2. keeper'[k] = j /\ Working' = {k} /\ UNCHANGED <<deployer, committed>>
      BY <1>c, <3>1, KeeperMoves
    <3>3. UNCHANGED <<aside, content, archives>>
      BY <2>3 DEF ReadHash
    <3> QED BY <1>a, <1>c, <2>1, <3>1, <3>2, <3>3, KeeperStays
  <2>4. CASE StartLedger(k)
    <3>1. PICK f \in Opened :
            /\ KeeperGoes(k, "anchor", [keeper[k] EXCEPT !.at = "archive"])
            /\ content' = [content EXCEPT ![f] =
                             <<[entry |-> keeper[k].entry, prev |-> keeper[k].prev]>>]
            /\ UNCHANGED <<aside, archives>>
      BY <2>4 DEF StartLedger
    <3>2. PICK j \in KeeperJobs : KeeperGoes(k, "anchor", j) /\ j.at = "archive"
      BY <2>4, StartIs
    <3>3. keeper'[k] = j /\ Working' = {k} /\ UNCHANGED <<deployer, committed>>
      BY <1>c, <3>2, KeeperMoves
    <3>4. f \notin aside
      BY OpenedIs
    <3>5. \A g \in aside :
            g \in aside' /\ EntriesOf(content[g]) \subseteq EntriesOf(content'[g])
      <4>1. \A g \in aside : content'[g] = content[g]
        BY <3>1, <3>4 DEF LedgerTyped, FilesTyped
      <4> QED BY <3>1, <4>1
    <3>6. AllStored(AtNoRisk, aside', content', archives')
      BY <2>1, <3>1, <3>5, StoredMore, ZenonT(30)
    <3> QED BY <1>a, <1>c, <3>2, <3>3, <3>6, KeeperStays
  <2>5. CASE Archive(k)
    <3>1. PICK j \in KeeperJobs :
            KeeperGoes(k, "archive", j) /\ j.at = "remove" /\ j.file = keeper[k].file
      BY <2>5, ArchiveIs
    <3>2. keeper'[k] = j /\ Working' = {k} /\ UNCHANGED <<deployer, committed>>
      BY <1>c, <3>1, KeeperMoves
    <3>3. archives' = Append(archives, content[keeper[k].file]) /\ UNCHANGED <<aside, content>>
      BY <2>5 DEF Archive
    <3>4. Range(archives) \subseteq Range(archives') /\ content[keeper[k].file] \in Range(archives')
      BY <2>2, <3>3, ArchivesAppended DEF LedgerTyped, FilesTyped
    <3>5. AllStored(AtNoRisk, aside', content', archives')
      BY <2>1, <3>3, <3>4, StoredMore
    <3>6. ASSUME NEW e \in AtNoRisk
          PROVE  Stored(e, aside' \ {keeper[k].file}, content', archives')
      <4>1. Stored(e, aside', content', archives')
        BY <3>5 DEF AllStored
      <4> QED BY <3>3, <3>4, <4>1 DEF Stored
    <3>7. AllStored(AtNoRisk, aside' \ {keeper'[k].file}, content', archives')
      BY <3>1, <3>2, <3>6 DEF AllStored
    <3> QED BY <1>a, <1>c, <3>2, <3>5, <3>7, KeeperStays
  <2>6. CASE RemoveSource(k)
    <3>1. Working' = {} /\ UNCHANGED <<deployer, committed>> /\ keeper[k].at = "remove"
      BY <1>c, <2>6, DeployerEnds, KeeperMoves, ZenonT(30) DEF RemoveSource, KeeperGoes
    <3>2. aside' = aside \ {keeper[k].file} /\ UNCHANGED <<ledger, content, archives>>
      BY <2>6 DEF RemoveSource
    <3>3. AllStored(AtNoRisk, aside \ {keeper[k].file}, content, archives)
      BY <3>1 DEF LossInv, StoredAtRemoval
    <3>4. aside \ {keeper[k].file} \subseteq Named'
      BY <3>2 DEF Named
    <3>5. AllStored(AtNoRisk, Named', content', archives')
      BY <3>2, <3>3, <3>4, StoredMore
    <3> QED BY <1>a, <1>c, <3>1, <3>5, KeeperEnds
  <2>7. CASE PutBack(k)
    <3>1. Working' = {} /\ UNCHANGED <<deployer, committed>>
      BY <1>c, <2>7, DeployerEnds, KeeperMoves DEF PutBack
    <3>2. /\ ledger' = keeper[k].file /\ aside' = aside \ {keeper[k].file}
          /\ UNCHANGED <<content, archives>>
      BY <2>7 DEF PutBack
    <3>3. aside \subseteq Named'
      BY <2>2, <3>2 DEF Named
    <3>4. AllStored(AtNoRisk, Named', content', archives')
      BY <2>1, <3>2, <3>3, StoredMore
    <3> QED BY <1>a, <1>c, <3>1, <3>4, KeeperEnds
  <2>8. CASE LeaveAside(k) \/ Crash(k)
    <3>1. Working' = {} /\ UNCHANGED <<deployer, committed>>
      BY <1>c, <2>8, DeployerEnds, KeeperMoves DEF LeaveAside, Crash
    <3>2. UNCHANGED <<ledger, aside, content, archives>>
      BY <2>8 DEF LeaveAside, Crash
    <3>3. aside \subseteq Named'
      BY <3>2 DEF Named
    <3>4. AllStored(AtNoRisk, Named', content', archives')
      BY <2>1, <3>2, <3>3, StoredMore
    <3> QED BY <1>a, <1>c, <3>1, <3>4, KeeperEnds
  <2>9. CASE MissHash(k)
    <3>1. PICK j \in KeeperJobs : KeeperGoes(k, "audit", j) /\ j.at = "anchor"
      BY <2>9, MissHashIs
    <3>2. keeper'[k] = j /\ Working' = {k} /\ UNCHANGED <<deployer, committed>>
      BY <1>c, <3>1, KeeperMoves
    <3>3. UNCHANGED <<aside, content, archives>>
      BY <2>9 DEF MissHash
    <3> QED BY <1>a, <1>c, <2>1, <3>1, <3>2, <3>3, KeeperStays
  <2> QED BY <2>3, <2>4, <2>5, <2>6, <2>7, <2>8, <2>9 DEF Keep
<1> QED BY <1>b, <1>c

\* Before anything has happened nothing can be lost.
LEMMA LossInvInit ==
  ASSUME LedgerInit
  PROVE  LossInv
<1>1. AtNoRisk = {} /\ Working = {}
  BY DEF LedgerInit, AtNoRisk, Working, Idle
<1>2. \A d \in Deployers : deployer[d].at = "idle"
  BY DEF LedgerInit, Idle
<1>3. \A k \in Keepers : keeper[k].at = "idle"
  BY DEF LedgerInit, Idle
<1> QED BY <1>1, <1>2, <1>3 DEF LossInv, KeepersApart, AppendsMet, AppendsFound,
        StoredAtRest, StoredAtWork, StoredAtRemoval, AllStored

\* Every step keeps the invariant.
LEMMA LossInvStep ==
  ASSUME LedgerTyped, LossInv, [LedgerNext]_ledgerVars
  PROVE  LossInv'
<1>1. CASE LedgerNext
  BY <1>1, DeployLosesNothing, KeepLosesNothing, LedgerTypedStep DEF LedgerNext
<1>2. CASE UNCHANGED ledgerVars
  BY <1>2 DEF ledgerVars, LossInv, KeepersApart, AppendsMet, AppendsFound,
     StoredAtRest, StoredAtWork, StoredAtRemoval, AtNoRisk, Named, Working, Appending
<1> QED BY <1>1, <1>2

\* What is stored in a file that has a name, or in an archive, is kept.
LEMMA StoredIsKept ==
  ASSUME LossInv
  PROVE  NothingLost
<1>1. AllStored(AtNoRisk, Named, content, archives)
  <2>1. CASE Working = {}
    BY <2>1 DEF LossInv, StoredAtRest
  <2>2. CASE Working # {}
    <3>1. AllStored(AtNoRisk, aside, content, archives)
      BY <2>2 DEF LossInv, StoredAtWork
    <3> QED BY <3>1, StoredMore DEF Named
  <2> QED BY <2>1, <2>2
<1>2. ASSUME NEW e \in committed, e \notin overlapped PROVE e \in Kept
  <2>1. Stored(e, Named, content, archives)
    BY <1>1, <1>2 DEF AllStored, AtNoRisk
  <2>2. CASE \E f \in Named : e \in EntriesOf(content[f])
    <3>1. PICK f \in Named : e \in EntriesOf(content[f])
      BY <2>2
    <3>2. EntriesOf(content[f]) \in {EntriesOf(content[g]) : g \in Named}
      OBVIOUS
    <3>3. e \in UNION {EntriesOf(content[g]) : g \in Named}
      BY <3>1, <3>2
    <3> QED BY <3>3 DEF Kept, Named
  <2>3. CASE \E a \in Range(archives) : e \in EntriesOf(a)
    <3>1. PICK a \in Range(archives) : e \in EntriesOf(a)
      BY <2>3
    <3>2. EntriesOf(a) \in {EntriesOf(b) : b \in Range(archives)}
      OBVIOUS
    <3>3. e \in UNION {EntriesOf(b) : b \in Range(archives)}
      BY <3>1, <3>2
    <3> QED BY <3>3 DEF Kept
  <2> QED BY <2>1, <2>2, <2>3 DEF Stored
<1> QED BY <1>2 DEF NothingLost

\* However a rotation or a compaction fails or crashes, and whoever runs after it, an
\* incident whose append met neither, and that was not there when two of them met, is
\* in the ledger, in an archive or in a file set aside.
THEOREM NothingIsLost == LedgerSpec => []NothingLost
<1>1. LedgerInit => LedgerTyped /\ LossInv
  BY LedgerTypedInit, LossInvInit
<1>2. LedgerTyped /\ LossInv /\ [LedgerNext]_ledgerVars => (LedgerTyped /\ LossInv)'
  BY LedgerTypedStep, LossInvStep
<1>3. LossInv => NothingLost
  BY StoredIsKept
<1> QED BY <1>1, <1>2, <1>3, PTL DEF LedgerSpec

-----------------------------------------------------------------------------
(***************************************************************************)
(* The chain.                                                              *)
(***************************************************************************)

\* What is in the ledger.
Current == IF ledger = 0 THEN <<>> ELSE content[ledger]

\* The archives and s, read one after the other, are a chain.
Linked(archived, s) == Chained(FlattenSeq(archived) \o s)

\* Nobody meets anybody.
OneAtWork ==
  /\ \A d, e \in Appending : d = e
  /\ \A k, l \in Working : k = l
  /\ Appending = {} \/ Working = {}

\* With no keeper at work the ledger goes on where the archives end.
ChainAtRest ==
  Working = {} => Linked(archives, Current) /\ (Current = <<>> => archives = <<>>)

\* A deployer at work writes to the ledger, after the entry whose hash it has.
DeployerLinked(d) ==
  /\ deployer[d].at = "read" => ledger # 0
  /\ deployer[d].at \in {"open", "write"} => deployer[d].prev = LastHash(Current)
  /\ deployer[d].at = "write" => deployer[d].file = ledger

\* What a keeper has set aside, and the entry it starts the new ledger with, go on
\* where the archives end.
KeeperLinked(k) ==
  LET old == content[keeper[k].file] IN
    /\ keeper[k].at \in {"audit", "anchor", "archive"} => old # <<>> /\ Linked(archives, old)
    /\ keeper[k].at \in {"audit", "anchor"} => ledger = 0
    /\ keeper[k].at = "anchor" => keeper[k].prev = LastHash(old)
    /\ keeper[k].at = "archive" =>
         /\ ledger # 0 /\ ledger # keeper[k].file
         /\ content[ledger] = <<[entry |-> keeper[k].entry, prev |-> LastHash(old)]>>
    /\ keeper[k].at = "remove" =>
         ledger # 0 /\ content[ledger] # <<>> /\ Linked(archives, content[ledger])

\* The inductive invariant behind ChainUnbroken.
ChainInv ==
  undisturbed =>
    /\ OneAtWork
    /\ ChainAtRest
    /\ \A d \in Deployers : DeployerLinked(d)
    /\ \A k \in Keepers : KeeperLinked(k)

\* An entry that carries the last hash goes on with a chain.
LEMMA ChainGoesOn ==
  ASSUME NEW s \in Seq(Entries), NEW x \in Entries, Chained(s),
         s # <<>> => x.prev = LastHash(s)
  PROVE  Chained(Append(s, x))
<1>1. /\ Len(s) \in Nat /\ Len(Append(s, x)) = Len(s) + 1
      /\ \A i \in 1 .. Len(s) : Append(s, x)[i] = s[i]
      /\ Append(s, x)[Len(s) + 1] = x
  BY AppendProperties, LenProperties
<1>2. PICK t : t = Append(s, x)
  OBVIOUS
<1>3. PICK n \in Nat : n = Len(s)
  BY <1>1
<1>4. SUFFICES ASSUME NEW i \in 2 .. n + 1 PROVE t[i].prev = t[i - 1].entry
  BY <1>1, <1>2, <1>3 DEF Chained
<1>5. CASE i = n + 1
  <2>1. s # <<>> /\ n \in 1 .. n /\ i - 1 = n
    BY <1>3, <1>5, EmptySeq
  <2>2. x.prev = s[n].entry
    BY <1>3, <2>1 DEF LastHash, Last
  <2> QED BY <1>1, <1>2, <1>3, <1>5, <2>1, <2>2
<1>6. CASE i # n + 1
  <2>1. i \in 1 .. n /\ i - 1 \in 1 .. n /\ i \in 2 .. n
    BY <1>6
  <2>2. s[i].prev = s[i - 1].entry
    BY <1>3, <2>1 DEF Chained
  <2> QED BY <1>1, <1>2, <1>3, <2>1, <2>2
<1> QED BY <1>5, <1>6

\* The last hash of two sequences put together is that of the second.
LEMMA LastOfTwo ==
  ASSUME NEW p \in Seq(Entries), NEW s \in Seq(Entries), s # <<>>
  PROVE  p \o s # <<>> /\ LastHash(p \o s) = LastHash(s)
<1>1. /\ Len(p) \in Nat /\ Len(s) \in Nat /\ Len(s) # 0
      /\ Len(p \o s) = Len(p) + Len(s) /\ p \o s \in Seq(Entries)
  BY ConcatProperties, LenProperties, EmptySeq
<1>2. PICK m \in Nat, n \in Nat : m = Len(p) /\ n = Len(s)
  BY <1>1
<1>3. m + n \in 1 .. m + n /\ ~(m + n <= m) /\ (m + n) - m = n
  BY <1>1, <1>2
<1>4. (p \o s)[m + n] = s[n]
  BY <1>2, <1>3, ConcatProperties
<1>5. p \o s # <<>>
  BY <1>1, EmptySeq
<1> QED BY <1>1, <1>2, <1>4, <1>5 DEF LastHash, Last

\* A chain goes on behind the archives as well.
LEMMA LinkedGoesOn ==
  ASSUME NEW archived \in Seq(Seq(Entries)), NEW s \in Seq(Entries), NEW x \in Entries,
         Linked(archived, s), s = <<>> => archived = <<>>,
         s # <<>> => x.prev = LastHash(s)
  PROVE  Linked(archived, Append(s, x))
<1>1. PICK p \in Seq(Entries) : p = FlattenSeq(archived)
  BY FlattenAppended
<1>2. p \o s \in Seq(Entries) /\ p \o Append(s, x) = Append(p \o s, x)
  <2>1. p \o s \in Seq(Entries) /\ <<x>> \in Seq(Entries)
    BY ConcatProperties
  <2>2. Append(s, x) = s \o <<x>> /\ Append(p \o s, x) = (p \o s) \o <<x>>
    BY <2>1, AppendIsConcat
  <2>3. p \o (s \o <<x>>) = (p \o s) \o <<x>>
    BY <2>1, ConcatAssociative
  <2> QED BY <2>1, <2>2, <2>3
<1>3. Chained(p \o s)
  BY <1>1 DEF Linked
<1>4. p \o s # <<>> => x.prev = LastHash(p \o s)
  <2>1. CASE s = <<>>
    <3>1. p = <<>>
      BY <1>1, <2>1 DEF FlattenSeq
    <3>2. p \o s = <<>>
      BY <2>1, <3>1, ConcatEmptySeq
    <3> QED BY <3>2
  <2>2. CASE s # <<>>
    BY <2>2, LastOfTwo
  <2> QED BY <2>1, <2>2
<1>5. Chained(Append(p \o s, x))
  BY <1>2, <1>3, <1>4, ChainGoesOn
<1> QED BY <1>1, <1>2, <1>5 DEF Linked

\* So it does in a ledger that starts with the last hash of what was archived.
LEMMA LinkedStartsAnew ==
  ASSUME NEW archived \in Seq(Seq(Entries)), NEW s \in Seq(Entries), NEW x \in Entries,
         Linked(archived, s), s # <<>>, x.prev = LastHash(s)
  PROVE  Linked(Append(archived, s), <<x>>)
<1>1. PICK p \in Seq(Entries) : p = FlattenSeq(archived)
  BY FlattenAppended
<1>2. FlattenSeq(Append(archived, s)) = p \o s
  BY <1>1, FlattenAppended
<1>3. p \o s \in Seq(Entries) /\ Chained(p \o s)
  BY <1>1, ConcatProperties DEF Linked
<1>4. LastHash(p \o s) = LastHash(s)
  BY LastOfTwo
<1>5. Chained(Append(p \o s, x))
  BY <1>3, <1>4, ChainGoesOn
<1>6. Append(p \o s, x) = (p \o s) \o <<x>>
  BY <1>3, AppendIsConcat
<1> QED BY <1>2, <1>5, <1>6 DEF Linked

\* A deployer's step keeps the chain.
LEMMA DeployKeepsChain ==
  ASSUME LedgerTyped, ChainInv, NEW d \in Deployers, Deploy(d)
  PROVE  ChainInv'
<1> SUFFICES ASSUME undisturbed'
             PROVE  /\ OneAtWork' /\ ChainAtRest'
                    /\ \A e \in Deployers : DeployerLinked(e)'
                    /\ \A k \in Keepers : KeeperLinked(k)'
  BY DEF ChainInv
<1>1. /\ undisturbed /\ UNCHANGED <<aside, archives, keeper>>
      /\ deployer' = [deployer EXCEPT ![d] = deployer'[d]]
  BY DEF Deploy, Look, Read, GiveUp, Open, WriteEntry, DeployerGoes, history, LedgerTyped,
     JobsTyped
<1>2. /\ OneAtWork /\ ChainAtRest
      /\ \A e \in Deployers : DeployerLinked(e)
      /\ \A k \in Keepers : KeeperLinked(k)
  BY <1>1 DEF ChainInv
<1>3. \A e \in Deployers \ {d} : deployer'[e] = deployer[e]
  BY <1>1 DEF LedgerTyped, JobsTyped
<1>4. Appending \subseteq {d} /\ Working = {}
  <2>1. CASE Look(d)
    BY <1>1, <2>1 DEF Look
  <2>2. CASE ~Look(d)
    <3>1. d \in Appending
      BY <2>2 DEF Deploy, Read, GiveUp, Open, WriteEntry, DeployerGoes, Appending
    <3> QED BY <1>2, <3>1 DEF OneAtWork
  <2> QED BY <2>1, <2>2
<1>5. /\ Appending' \subseteq {d} /\ Working' = {}
      /\ \A k \in Keepers : keeper'[k].at = "idle"
      /\ \A e \in Deployers \ {d} : deployer'[e].at = "idle"
  BY <1>1, <1>3, <1>4 DEF Appending, Working
<1>6. OneAtWork'
  BY <1>5 DEF OneAtWork
<1>7. /\ \A k \in Keepers : KeeperLinked(k)'
      /\ \A e \in Deployers \ {d} : DeployerLinked(e)'
  BY <1>5 DEF KeeperLinked, DeployerLinked
<1>8. Linked(archives, Current) /\ (Current = <<>> => archives = <<>>)
  BY <1>2, <1>4 DEF ChainAtRest
<1>9. /\ Linked(archives', Current') /\ (Current' = <<>> => archives' = <<>>)
      /\ DeployerLinked(d)'
  <2>1. CASE Look(d)
    <3>1. PICK j \in DeployerJobs :
            /\ DeployerGoes(d, "idle", j)
            /\ j.at = (IF ledger = 0 THEN "open" ELSE "read") /\ j.prev = 0
      BY <2>1, LookIs
    <3>2. deployer'[d] = j
      BY <3>1, DeployerMoves
    <3>3. UNCHANGED <<ledger, content>> /\ Current' = Current
      BY <2>1 DEF Look, Current
    <3>4. ledger = 0 => LastHash(Current) = 0
      BY DEF Current, LastHash
    <3> QED BY <1>1, <1>8, <3>1, <3>2, <3>3, <3>4 DEF DeployerLinked
  <2>2. CASE Read(d)
    <3>1. PICK j \in DeployerJobs :
            DeployerGoes(d, "read", j) /\ j.at = "open" /\ j.prev = LastHash(content[ledger])
      BY <2>2, ReadIs
    <3>2. deployer'[d] = j
      BY <3>1, DeployerMoves
    <3>3. UNCHANGED <<ledger, content>> /\ ledger # 0
      BY <2>2 DEF Read
    <3> QED BY <1>1, <1>8, <3>1, <3>2, <3>3 DEF DeployerLinked, Current
  <2>3. CASE GiveUp(d)
    <3>1. deployer'[d].at = "idle"
      BY <2>3, DeployerEnds, DeployerMoves DEF GiveUp
    <3>2. UNCHANGED <<ledger, content>>
      BY <2>3 DEF GiveUp
    <3> QED BY <1>1, <1>8, <3>1, <3>2 DEF DeployerLinked, Current
  <2>4. CASE Open(d)
    <3>1. PICK f \in Opened, j \in DeployerJobs :
            /\ DeployerGoes(d, "open", j)
            /\ j.at = "write" /\ j.file = f /\ j.prev = deployer[d].prev
            /\ ledger' = f
            /\ content' = IF ledger = f THEN content ELSE [content EXCEPT ![f] = <<>>]
      BY <2>4, OpenIs
    <3>2. deployer'[d] = j /\ deployer[d].at = "open"
      BY <3>1, DeployerMoves DEF DeployerGoes
    <3>3. f \in Files /\ f # 0 /\ (ledger # 0 => f = ledger)
      BY OpenedIs
    <3>4. Current' = Current
      BY <3>1, <3>3 DEF Current, LedgerTyped, FilesTyped
    <3>5. deployer[d].prev = LastHash(Current)
      BY <1>2, <3>2 DEF DeployerLinked
    <3> QED BY <1>1, <1>8, <3>1, <3>2, <3>3, <3>4, <3>5 DEF DeployerLinked
  <2>5. CASE WriteEntry(d)
    <3>1. deployer'[d].at = "idle" /\ deployer[d].at = "write"
      BY <2>5, DeployerEnds, DeployerMoves DEF WriteEntry, DeployerGoes
    <3>2. ledger # 0 /\ ledger \in Files /\ deployer[d].file = ledger
      BY <1>2, <3>1, DeployerHolds DEF DeployerLinked
    <3>3. PICK x \in Entries :
            x = [entry |-> deployer[d].entry, prev |-> deployer[d].prev]
      BY <3>1, DeployerHolds DEF Entries, Numbers
    <3>4. x.prev = LastHash(Current)
      BY <1>2, <3>1, <3>3 DEF DeployerLinked
    <3>5. Current \in Seq(Entries) /\ Current = content[ledger]
      BY <3>2 DEF Current, LedgerTyped, FilesTyped
    <3>6. Current' = Append(Current, x)
      BY <2>5, <3>2, <3>3, <3>5 DEF WriteEntry, Current, LedgerTyped, FilesTyped
    <3>7. Linked(archives, Append(Current, x))
      BY <1>8, <3>4, <3>5, LinkedGoesOn DEF LedgerTyped, FilesTyped
    <3>8. Append(Current, x) # <<>>
      BY <3>5, AppendProperties
    <3> QED BY <1>1, <3>1, <3>6, <3>7, <3>8 DEF DeployerLinked
  <2> QED BY <2>1, <2>2, <2>3, <2>4, <2>5 DEF Deploy
<1> QED BY <1>6, <1>7, <1>9 DEF ChainAtRest

\* So does a keeper's: it archives what the new ledger's first entry goes on from.
LEMMA KeepKeepsChain ==
  ASSUME LedgerTyped, LedgerTyped', ChainInv, NEW k \in Keepers, Keep(k)
  PROVE  ChainInv'
<1> SUFFICES ASSUME undisturbed'
             PROVE  /\ OneAtWork' /\ ChainAtRest'
                    /\ \A e \in Deployers : DeployerLinked(e)'
                    /\ \A l \in Keepers : KeeperLinked(l)'
  BY DEF ChainInv
<1>1. /\ undisturbed
      /\ \/ SetAside(k)
         \/ k \in Working /\ (ReadHash(k) \/ StartLedger(k) \/ Archive(k) \/ RemoveSource(k))
  BY DEF Keep, SetAside, ReadHash, StartLedger, Archive, RemoveSource, MissHash, PutBack,
     LeaveAside, Crash
<1>2. /\ OneAtWork /\ ChainAtRest /\ KeeperLinked(k)
  BY <1>1 DEF ChainInv
<1>3. UNCHANGED deployer /\ keeper' = [keeper EXCEPT ![k] = keeper'[k]]
  BY <1>1 DEF SetAside, ReadHash, StartLedger, Archive, RemoveSource, KeeperGoes, LedgerTyped,
     JobsTyped
<1>4. Appending = {} /\ Working \subseteq {k}
  <2>1. CASE SetAside(k)
    <3>1. 1 \in 1 .. MaxEntries
      BY <2>1, LedgerBoundsAssumption DEF SetAside, LedgerTyped, CountsTyped
    <3>2. Meets = {}
      BY <2>1 DEF SetAside
    <3> QED BY <3>1, <3>2 DEF Meets
  <2>2. CASE k \in Working
    BY <1>2, <2>2 DEF OneAtWork
  <2> QED BY <1>1, <2>1, <2>2
<1>5. \A l \in Keepers \ {k} : keeper'[l] = keeper[l]
  BY <1>3 DEF LedgerTyped, JobsTyped
<1>6. /\ Appending' = {} /\ Working' \subseteq {k}
      /\ \A e \in Deployers : deployer'[e].at = "idle"
      /\ \A l \in Keepers \ {k} : keeper'[l].at = "idle"
  BY <1>3, <1>4, <1>5 DEF Appending, Working
<1>7. OneAtWork'
  BY <1>6 DEF OneAtWork
<1>8. /\ \A e \in Deployers : DeployerLinked(e)'
      /\ \A l \in Keepers \ {k} : KeeperLinked(l)'
  BY <1>6 DEF DeployerLinked, KeeperLinked
<1>9. ChainAtRest' /\ KeeperLinked(k)'
  <2>1. CASE SetAside(k)
    <3>1. PICK j \in KeeperJobs :
            KeeperGoes(k, "idle", j) /\ j.at = "audit" /\ j.file = ledger /\ ledger # 0
      BY <2>1, SetAsideIs
    <3>2. keeper'[k] = j /\ k \in Working'
      BY <3>1, KeeperMoves
    <3>3. Working = {}
      BY <1>4, <3>1 DEF KeeperGoes, Working
    <3>4. Linked(archives, content[ledger])
      BY <1>2, <3>1, <3>3 DEF ChainAtRest, Current
    <3>5. content[ledger] # <<>>
      <4>1. Len(content[ledger]) >= Limit
        BY <2>1 DEF SetAside
      <4>2. Len(<<>>) = 0
        OBVIOUS
      <4> QED BY <4>1, <4>2, LedgerBoundsAssumption
    <3>6. ledger' = 0 /\ UNCHANGED <<content, archives>>
      BY <2>1 DEF SetAside
    <3> QED BY <3>1, <3>2, <3>4, <3>5, <3>6 DEF ChainAtRest, KeeperLinked
  <2>2. CASE k \in Working /\ ReadHash(k)
    <3>1. PICK j \in KeeperJobs :
            /\ KeeperGoes(k, "audit", j)
            /\ j.at = "anchor" /\ j.file = keeper[k].file
            /\ j.prev = LastHash(content[keeper[k].file])
      BY <2>2, ReadHashIs
    <3>2. keeper'[k] = j /\ k \in Working' /\ keeper[k].at = "audit"
      BY <3>1, KeeperMoves DEF KeeperGoes
    <3>3. UNCHANGED <<ledger, content, archives>>
      BY <2>2 DEF ReadHash
    <3> QED BY <1>2, <3>1, <3>2, <3>3 DEF ChainAtRest, KeeperLinked
  <2>3. CASE k \in Working /\ StartLedger(k)
    <3>1. PICK f \in Opened :
            /\ content' = [content EXCEPT ![f] =
                             <<[entry |-> keeper[k].entry, prev |-> keeper[k].prev]>>]
            /\ ledger' = f
            /\ UNCHANGED archives
      BY <2>3 DEF StartLedger
    <3>2. PICK j \in KeeperJobs :
            /\ KeeperGoes(k, "anchor", j)
            /\ j.at = "archive" /\ j.file = keeper[k].file /\ j.entry = keeper[k].entry
      BY <2>3, StartIs
    <3>3. keeper'[k] = j /\ k \in Working' /\ keeper[k].at = "anchor"
      BY <3>2, KeeperMoves DEF KeeperGoes
    <3>4. ledger = 0
      BY <1>2, <3>3 DEF KeeperLinked
    <3>5. f \in Files /\ f # 0 /\ f # keeper[k].file
      BY <3>4, OpenedIs
    <3>6. /\ content'[f] = <<[entry |-> keeper[k].entry, prev |-> keeper[k].prev]>>
          /\ content'[keeper[k].file] = content[keeper[k].file]
      BY <2>3, <3>1, <3>5, KeeperHolds DEF Working, LedgerTyped, FilesTyped
    <3>7. /\ content[keeper[k].file] # <<>> /\ Linked(archives, content[keeper[k].file])
          /\ keeper[k].prev = LastHash(content[keeper[k].file])
      BY <1>2, <3>3 DEF KeeperLinked
    <3> QED BY <3>1, <3>2, <3>3, <3>5, <3>6, <3>7 DEF ChainAtRest, KeeperLinked
  <2>4. CASE k \in Working /\ Archive(k)
    <3>1. PICK j \in KeeperJobs :
            KeeperGoes(k, "archive", j) /\ j.at = "remove" /\ j.file = keeper[k].file
      BY <2>4, ArchiveIs
    <3>2. keeper'[k] = j /\ k \in Working' /\ keeper[k].at = "archive"
      BY <3>1, KeeperMoves DEF KeeperGoes
    <3>3. PICK s \in Seq(Entries) : s = content[keeper[k].file]
      BY <2>4, KeeperHolds DEF Working
    <3>4. PICK h \in Numbers : h = LastHash(s)
      BY LastIsNumber
    <3>5. PICK x \in Entries : x = [entry |-> keeper[k].entry, prev |-> h]
      BY <2>4, KeeperHolds, EntriesTyped DEF Working
    <3>6. /\ s # <<>> /\ Linked(archives, s) /\ x.prev = LastHash(s)
          /\ ledger # 0 /\ content[ledger] = <<x>>
      BY <1>2, <3>2, <3>3, <3>4, <3>5 DEF KeeperLinked
    <3>7. Linked(Append(archives, s), <<x>>)
      BY <3>6, LinkedStartsAnew DEF LedgerTyped, FilesTyped
    <3>8. archives' = Append(archives, s) /\ UNCHANGED <<ledger, content>>
      BY <2>4, <3>3 DEF Archive
    <3>9. <<x>> # <<>>
      OBVIOUS
    <3> QED BY <3>1, <3>2, <3>6, <3>7, <3>8, <3>9 DEF ChainAtRest, KeeperLinked
  <2>5. CASE k \in Working /\ RemoveSource(k)
    <3>1. keeper'[k].at = "idle" /\ keeper[k].at = "remove"
      BY <2>5, DeployerEnds, KeeperMoves DEF RemoveSource, KeeperGoes
    <3>2. UNCHANGED <<ledger, content, archives>>
      BY <2>5 DEF RemoveSource
    <3> QED BY <1>2, <3>1, <3>2 DEF ChainAtRest, KeeperLinked, Current
  <2> QED BY <1>1, <2>1, <2>2, <2>3, <2>4, <2>5
<1> QED BY <1>7, <1>8, <1>9

\* Nothing has been written yet.
LEMMA ChainInvInit ==
  ASSUME LedgerInit
  PROVE  ChainInv
<1>1. /\ \A d \in Deployers : deployer[d].at = "idle"
      /\ \A k \in Keepers : keeper[k].at = "idle"
  BY DEF LedgerInit, Idle
<1>2. OneAtWork
  BY <1>1 DEF OneAtWork, Appending, Working
<1>3. Current = <<>> /\ archives = <<>>
  BY DEF LedgerInit, Current
<1>4. FlattenSeq(archives) \o Current = <<>>
  BY <1>3, ConcatEmptySeq DEF FlattenSeq
<1>5. Chained(<<>>)
  BY DEF Chained
<1> QED BY <1>1, <1>2, <1>3, <1>4, <1>5
        DEF ChainInv, ChainAtRest, DeployerLinked, KeeperLinked, Linked

\* Every step keeps the chain.
LEMMA ChainInvStep ==
  ASSUME LedgerTyped, ChainInv, [LedgerNext]_ledgerVars
  PROVE  ChainInv'
<1>1. CASE LedgerNext
  BY <1>1, DeployKeepsChain, KeepKeepsChain, LedgerTypedStep DEF LedgerNext
<1>2. CASE UNCHANGED ledgerVars
  BY <1>2 DEF ledgerVars, ChainInv, OneAtWork, ChainAtRest, DeployerLinked, KeeperLinked,
     Current, Appending, Working
<1> QED BY <1>1, <1>2

\* Archives and ledger, read one after the other, are one chain from the first entry
\* on, through any number of rotations and compactions, as long as nobody met anybody
\* and nothing failed.
THEOREM ChainStaysUnbroken == LedgerSpec => []ChainUnbroken
<1>1. LedgerInit => LedgerTyped /\ ChainInv
  BY LedgerTypedInit, ChainInvInit
<1>2. LedgerTyped /\ ChainInv /\ [LedgerNext]_ledgerVars => (LedgerTyped /\ ChainInv)'
  BY LedgerTypedStep, ChainInvStep
<1>3. ChainInv => ChainUnbroken
  BY DEF ChainInv, ChainAtRest, Linked, Current, ChainUnbroken
<1> QED BY <1>1, <1>2, <1>3, PTL DEF LedgerSpec

=============================================================================
