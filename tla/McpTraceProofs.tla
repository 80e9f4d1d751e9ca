--------------------------- MODULE McpTraceProofs ---------------------------
(***************************************************************************)
(* Theorems about McpTrace, for every pipe capacity, every number and      *)
(* kind of frames, with or without deaths: its types, that the proxy is,   *)
(* in each direction, a plain pipe (FramePipe), and that its trace is      *)
(* exact and in the end whole.                                             *)
(***************************************************************************)
EXTENDS McpTrace, SequenceTheorems, FiniteInduction, TLAPS

-----------------------------------------------------------------------------
(***************************************************************************)
(* Three sequences in a row: the pipe out, the frame in hand, the pipe in. *)
(***************************************************************************)

(* What is written at the back of the last is written at the back of all. *)
LEMMA AppendAtBack ==
  ASSUME NEW S, NEW s \in Seq(S), NEW t \in Seq(S), NEW u \in Seq(S), NEW e \in S
  PROVE  s \o t \o Append(u, e) = Append(s \o t \o u, e)
<1>1. s \o t \in Seq(S)
  BY ConcatProperties
<1>2. Append(u, e) = u \o <<e>> /\ <<e>> \in Seq(S)
  BY AppendIsConcat
<1>3. (s \o t) \o (u \o <<e>>) = ((s \o t) \o u) \o <<e>>
  BY <1>1, <1>2, ConcatAssociative
<1>4. (s \o t) \o u \in Seq(S)
  BY <1>1, ConcatProperties
<1>5. Append((s \o t) \o u, e) = ((s \o t) \o u) \o <<e>>
  BY <1>4, AppendIsConcat
<1> QED BY <1>2, <1>3, <1>5

(* The head and the tail of two sequences in a row are the first one's. *)
LEMMA TakeFromFront ==
  ASSUME NEW S, NEW s \in Seq(S), NEW t \in Seq(S), s # <<>>
  PROVE  /\ s \o t # <<>>
         /\ Head(s \o t) = Head(s)
         /\ Tail(s \o t) = Tail(s) \o t
<1>1. /\ s \o t \in Seq(S)
      /\ Len(s \o t) = Len(s) + Len(t)
      /\ \A i \in 1..(Len(s) + Len(t)) :
           (s \o t)[i] = IF i <= Len(s) THEN s[i] ELSE t[i - Len(s)]
  BY ConcatProperties
<1>2. Len(s) \in Nat \ {0} /\ Len(t) \in Nat
  BY EmptySeq, LenProperties
<1>3. s \o t # <<>>
  BY <1>1, <1>2, EmptySeq
<1>4. Head(s \o t) = Head(s)
  <2>1. Head(s \o t) = (s \o t)[1] /\ Head(s) = s[1]
    OBVIOUS
  <2> QED BY <2>1, <1>1, <1>2
<1>5. /\ Tail(s) \in Seq(S) /\ Len(Tail(s)) = Len(s) - 1
      /\ \A i \in 1..Len(Tail(s)) : Tail(s)[i] = s[i + 1]
  BY HeadTailProperties
<1>6. /\ Tail(s \o t) \in Seq(S) /\ Len(Tail(s \o t)) = Len(s \o t) - 1
      /\ \A i \in 1..Len(Tail(s \o t)) : Tail(s \o t)[i] = (s \o t)[i + 1]
  BY <1>1, <1>3, HeadTailProperties
<1>7. /\ Tail(s) \o t \in Seq(S) /\ Len(Tail(s) \o t) = Len(Tail(s)) + Len(t)
      /\ \A i \in 1..(Len(Tail(s)) + Len(t)) :
           (Tail(s) \o t)[i] = IF i <= Len(Tail(s)) THEN Tail(s)[i]
                               ELSE t[i - Len(Tail(s))]
  BY <1>5, ConcatProperties
<1>8. Len(Tail(s \o t)) = Len(Tail(s) \o t)
  BY <1>1, <1>2, <1>5, <1>6, <1>7
<1>9. ASSUME NEW i \in 1..Len(Tail(s \o t))
      PROVE  Tail(s \o t)[i] = (Tail(s) \o t)[i]
  BY <1>1, <1>2, <1>5, <1>6, <1>7, <1>9
<1>10. Tail(s \o t) = Tail(s) \o t
  BY <1>6, <1>7, <1>8, <1>9, SeqEqual
<1> QED BY <1>3, <1>4, <1>10

(* Reading at the front of the whole row. *)
LEMMA TakeFromRow ==
  ASSUME NEW s \in Seq(Frames), NEW t \in Seq(Frames), NEW u \in Seq(Frames),
         s # <<>>
  PROVE  /\ s \o t \o u # <<>>
         /\ Head(s \o t \o u) = Head(s)
         /\ Tail(s \o t \o u) = Tail(s) \o t \o u
<1>1. s \o t \in Seq(Frames) /\ s \o t # <<>>
  BY ConcatProperties, TakeFromFront
<1>2. /\ (s \o t) \o u # <<>>
      /\ Head((s \o t) \o u) = Head(s \o t)
      /\ Tail((s \o t) \o u) = Tail(s \o t) \o u
  BY <1>1, TakeFromFront
<1>3. Head(s \o t) = Head(s) /\ Tail(s \o t) = Tail(s) \o t
  BY TakeFromFront
<1> QED BY <1>2, <1>3

(* Moving the head of the last into an empty hand moves nothing in the row. *)
LEMMA MoveIntoHand ==
  ASSUME NEW S, NEW s \in Seq(S), NEW u \in Seq(S), u # <<>>
  PROVE  s \o <<Head(u)>> \o Tail(u) = s \o <<>> \o u
<1>1. Head(u) \in S /\ Tail(u) \in Seq(S) /\ <<Head(u)>> \in Seq(S)
  BY HeadTailProperties
<1>2. u = <<Head(u)>> \o Tail(u)
  <2>1. /\ <<Head(u)>> \o Tail(u) \in Seq(S)
        /\ Len(<<Head(u)>> \o Tail(u)) = 1 + Len(Tail(u))
        /\ \A i \in 1..(1 + Len(Tail(u))) :
             (<<Head(u)>> \o Tail(u))[i] =
               IF i <= 1 THEN <<Head(u)>>[i] ELSE Tail(u)[i - 1]
    <3>1. Len(<<Head(u)>>) = 1
      OBVIOUS
    <3> QED BY <1>1, <3>1, ConcatProperties
  <2>2. /\ Len(Tail(u)) = Len(u) - 1 /\ Len(u) \in Nat \ {0}
        /\ \A i \in 1..Len(Tail(u)) : Tail(u)[i] = u[i + 1]
    BY HeadTailProperties, EmptySeq
  <2>3. Head(u) = u[1]
    OBVIOUS
  <2>4. ASSUME NEW i \in 1..Len(u)
        PROVE  u[i] = (<<Head(u)>> \o Tail(u))[i]
    <3>1. CASE i = 1
      BY <3>1, <2>1, <2>2, <2>3
    <3>2. CASE i # 1
      BY <3>2, <2>1, <2>2
    <3> QED BY <3>1, <3>2
  <2> QED BY <2>1, <2>2, <2>4, SeqEqual
<1>3. (s \o <<Head(u)>>) \o Tail(u) = s \o (<<Head(u)>> \o Tail(u))
  BY <1>1, ConcatAssociative
<1>4. s \o <<>> = s
  BY ConcatEmptySeq
<1> QED BY <1>2, <1>3, <1>4

(* Nor does passing the hand's frame on. *)
LEMMA MoveOutOfHand ==
  ASSUME NEW S, NEW s \in Seq(S), NEW t \in Seq(S), NEW u \in Seq(S)
  PROVE  (s \o t) \o <<>> \o u = s \o t \o u
<1>1. s \o t \in Seq(S)
  BY ConcatProperties
<1>2. (s \o t) \o <<>> = s \o t
  BY <1>1, ConcatEmptySeq
<1> QED BY <1>2

-----------------------------------------------------------------------------
(***************************************************************************)
(* The inductive invariant: the types, and a thread's hand is empty unless *)
(* it has read a frame it has not passed on.                               *)
(***************************************************************************)
Hands ==
  \A d \in Directions :
    /\ pump[d] = "relay" => Len(hand[d]) = 1
    /\ pump[d] \in {"read", "log", "closed"} => hand[d] = <<>>

Inv == TypeOK /\ Hands

LEMMA InitInv == Init => Inv
<1> SUFFICES ASSUME Init PROVE Inv
  OBVIOUS
<1> USE DEF Init, Empty, Directions
<1>1. Empty \in [Directions -> Seq(Frames)] /\ <<>> \in Seq(Frames)
  BY EmptySeq
<1>2. \A d \in Directions : Len(in[d]) <= PipeCap /\ Len(out[d]) <= PipeCap
  BY TraceAssumption, EmptySeq
<1>3. TypeOK
  BY <1>1, <1>2, TraceAssumption DEF TypeOK
<1>4. Hands
  BY DEF Hands
<1> QED BY <1>3, <1>4 DEF Inv

(* What a step may do to the pipe into the proxy. *)
LEMMA AppendToPipe ==
  ASSUME NEW p \in [Directions -> Seq(Frames)], NEW d \in Directions,
         NEW f \in Frames, \A e \in Directions : Len(p[e]) <= PipeCap, Room(p[d])
  PROVE  /\ [p EXCEPT ![d] = Append(@, f)] \in [Directions -> Seq(Frames)]
         /\ \A e \in Directions : Len([p EXCEPT ![d] = Append(@, f)][e]) <= PipeCap
<1>1. Append(p[d], f) \in Seq(Frames) /\ Len(Append(p[d], f)) = Len(p[d]) + 1
  BY AppendProperties
<1>2. Len(p[d]) \in Nat /\ Len(p[d]) < PipeCap /\ PipeCap \in Nat
  BY LenProperties, TraceAssumption DEF Room
<1>3. Len(Append(p[d], f)) <= PipeCap
  BY <1>1, <1>2
<1> QED BY <1>1, <1>3

LEMMA TailOfPipe ==
  ASSUME NEW p \in [Directions -> Seq(Frames)], NEW d \in Directions,
         \A e \in Directions : Len(p[e]) <= PipeCap, p[d] # <<>>
  PROVE  /\ Head(p[d]) \in Frames
         /\ [p EXCEPT ![d] = Tail(@)] \in [Directions -> Seq(Frames)]
         /\ \A e \in Directions : Len([p EXCEPT ![d] = Tail(@)][e]) <= PipeCap
<1>1. /\ Head(p[d]) \in Frames /\ Tail(p[d]) \in Seq(Frames)
      /\ Len(Tail(p[d])) = Len(p[d]) - 1
  BY HeadTailProperties
<1>2. Len(p[d]) \in Nat /\ PipeCap \in Nat
  BY LenProperties, TraceAssumption
<1>3. Len(Tail(p[d])) <= PipeCap
  BY <1>1, <1>2
<1> QED BY <1>1, <1>3

LEMMA HostKeeps ==
  ASSUME Inv, HostSend \/ HostReceive \/ HostClose \/ HostKilled
  PROVE  Inv'
<1> USE DEF Inv, hosts_, servers_
<1>1. CASE HostSend
  <2>1. PICK k \in Kinds :
          LET f == [kind |-> k, id |-> Len(sent) + 1] IN
            /\ in' = [in EXCEPT !["up"] = Append(@, f)]
            /\ sent' = Append(sent, f)
    BY <1>1 DEF HostSend
  <2> DEFINE f == [kind |-> k, id |-> Len(sent) + 1]
  <2>2. f \in Frames
    <3>1. Len(sent) \in Nat /\ Len(sent) < MaxFrames /\ MaxFrames \in Nat
      BY <1>1, LenProperties, TraceAssumption DEF HostSend, TypeOK
    <3>2. k \in FrameKinds
      BY TraceAssumption DEF FrameKinds
    <3> QED BY <3>1, <3>2 DEF Frames
  <2>3. /\ in' \in [Directions -> Seq(Frames)]
        /\ \A d \in Directions : Len(in'[d]) <= PipeCap
    <3>1. in \in [Directions -> Seq(Frames)] /\ "up" \in Directions /\ Room(in["up"])
          /\ \A e \in Directions : Len(in[e]) <= PipeCap
      BY <1>1 DEF HostSend, TypeOK, Directions
    <3> HIDE DEF f
    <3>2. in' = [in EXCEPT !["up"] = Append(@, f)]
      BY <2>1 DEF f
    <3> QED BY <2>2, <3>1, <3>2, AppendToPipe
  <2>4. sent' \in Seq(Frames)
    BY <2>1, <2>2, AppendProperties DEF TypeOK
  <2>5. TypeOK'
    BY <1>1, <2>3, <2>4 DEF HostSend, TypeOK
  <2>6. Hands'
    BY <1>1 DEF HostSend, Hands
  <2> QED BY <2>5, <2>6
<1>2. CASE HostReceive
  <2>1. out \in [Directions -> Seq(Frames)] /\ "down" \in Directions
        /\ out["down"] # <<>> /\ \A e \in Directions : Len(out[e]) <= PipeCap
    BY <1>2 DEF HostReceive, TypeOK, Directions
  <2>2. /\ Head(out["down"]) \in Frames
        /\ out' \in [Directions -> Seq(Frames)]
        /\ \A e \in Directions : Len(out'[e]) <= PipeCap
    BY <1>2, <2>1, TailOfPipe DEF HostReceive
  <2>3. got' \in Seq(Frames)
    BY <1>2, <2>2, AppendProperties DEF HostReceive, TypeOK
  <2>4. TypeOK'
    BY <1>2, <2>2, <2>3 DEF HostReceive, TypeOK
  <2>5. Hands'
    BY <1>2 DEF HostReceive, Hands
  <2> QED BY <2>4, <2>5
<1>3. CASE HostClose
  BY <1>3 DEF HostClose, TypeOK, Hands
<1>4. CASE HostKilled
  BY <1>4 DEF HostKilled, TypeOK, Hands
<1> QED BY <1>1, <1>2, <1>3, <1>4

(* A line on the server's stdout keeps the types of the pipe it goes into. *)
LEMMA WriteKeeps ==
  ASSUME TypeOK, NEW f \in Frames, ServerWrites(f)
  PROVE  /\ in' \in [Directions -> Seq(Frames)]
         /\ \A d \in Directions : Len(in'[d]) <= PipeCap
         /\ written' \in Seq(Frames)
<1>1. in \in [Directions -> Seq(Frames)] /\ "down" \in Directions /\ Room(in["down"])
      /\ \A e \in Directions : Len(in[e]) <= PipeCap
  BY DEF ServerWrites, TypeOK, Directions
<1>2. in' = [in EXCEPT !["down"] = Append(@, f)]
  BY DEF ServerWrites
<1>3. written' \in Seq(Frames)
  BY AppendProperties DEF ServerWrites, TypeOK
<1> QED BY <1>1, <1>2, <1>3, AppendToPipe

LEMMA NoiseIsFrame ==
  ASSUME NEW k \in Noise
  PROVE  [kind |-> k, id |-> 0] \in Frames
BY TraceAssumption DEF Frames, FrameKinds

LEMMA ReplyIsFrame ==
  ASSUME TypeOK
  PROVE  [kind |-> "reply", id |-> reply] \in Frames
BY DEF TypeOK, Frames, FrameKinds

LEMMA ServerKeeps ==
  ASSUME Inv, Server \/ CatalogSilent \/ ServerDies
  PROVE  Inv'
<1> USE DEF Inv, hosts_
<1>1. CASE ServerStart
  <2>1. /\ in' \in [Directions -> Seq(Frames)]
        /\ \A d \in Directions : Len(in'[d]) <= PipeCap
        /\ written' \in Seq(Frames)
    <3>1. CASE UNCHANGED <<in, written>>
      BY <3>1 DEF TypeOK
    <3>2. CASE \E k \in Noise : ServerWrites([kind |-> k, id |-> 0])
      BY <3>2, NoiseIsFrame, WriteKeeps
    <3> QED BY <1>1, <3>1, <3>2 DEF ServerStart
  <2>2. TypeOK'
    BY <1>1, <2>1 DEF ServerStart, TypeOK
  <2>3. Hands'
    BY <1>1 DEF ServerStart, Hands
  <2> QED BY <2>2, <2>3
<1>2. CASE ServerTake
  <2>1. out \in [Directions -> Seq(Frames)] /\ "up" \in Directions
        /\ out["up"] # <<>> /\ \A e \in Directions : Len(out[e]) <= PipeCap
    BY <1>2 DEF ServerTake, TypeOK, Directions
  <2>2. /\ Head(out["up"]) \in Frames
        /\ out' \in [Directions -> Seq(Frames)]
        /\ \A e \in Directions : Len(out'[e]) <= PipeCap
    BY <1>2, <2>1, TailOfPipe DEF ServerTake
  <2>3. taken' \in Seq(Frames)
    BY <1>2, <2>2, AppendProperties DEF ServerTake, TypeOK
  <2>4. reply' \in 0..MaxFrames /\ server' \in {"starting", "ready", "busy", "hung", "exited"}
    BY <1>2, <2>2 DEF ServerTake, TypeOK, Frames
  <2>5. TypeOK'
    BY <1>2, <2>2, <2>3, <2>4 DEF ServerTake, TypeOK
  <2>6. Hands'
    BY <1>2 DEF ServerTake, Hands
  <2> QED BY <2>5, <2>6
<1>3. CASE ServerReply
  <2>1. /\ in' \in [Directions -> Seq(Frames)]
        /\ \A d \in Directions : Len(in'[d]) <= PipeCap
        /\ written' \in Seq(Frames)
    BY <1>3, ReplyIsFrame, WriteKeeps DEF ServerReply
  <2>2. TypeOK'
    BY <1>3, <2>1 DEF ServerReply, TypeOK
  <2>3. Hands'
    BY <1>3 DEF ServerReply, Hands
  <2> QED BY <2>2, <2>3
<1>4. CASE ServerEnd \/ CatalogSilent
  BY <1>4 DEF ServerEnd, CatalogSilent, TypeOK, Hands
<1>5. CASE ServerDies
  BY <1>5 DEF ServerDies, TypeOK, Hands
<1> QED BY <1>1, <1>2, <1>3, <1>4, <1>5 DEF Server

LEMMA PumpKeeps ==
  ASSUME Inv, NEW d \in Directions, Pump(d)
  PROVE  Inv'
<1> USE DEF Inv, hosts_, servers_
<1>1. CASE PumpRead(d)
  <2>1. in \in [Directions -> Seq(Frames)]
        /\ in[d] # <<>> /\ \A e \in Directions : Len(in[e]) <= PipeCap
    BY <1>1 DEF PumpRead, TypeOK
  <2>2. /\ Head(in[d]) \in Frames
        /\ in' \in [Directions -> Seq(Frames)]
        /\ \A e \in Directions : Len(in'[e]) <= PipeCap
    BY <1>1, <2>1, TailOfPipe DEF PumpRead
  <2>3. <<Head(in[d])>> \in Seq(Frames) /\ Len(<<Head(in[d])>>) = 1
    BY <2>2
  <2>4. TypeOK'
    BY <1>1, <2>2, <2>3 DEF PumpRead, TypeOK
  <2>5. Hands'
    BY <1>1, <2>3 DEF PumpRead, Hands, TypeOK
  <2> QED BY <2>4, <2>5
<1>2. CASE PumpRelay(d)
  <2>1. hand' = [hand EXCEPT ![d] = <<>>] /\ hand' \in [Directions -> Seq(Frames)]
    BY <1>2, EmptySeq DEF PumpRelay, TypeOK
  <2>2. note' \in [Directions -> Seq(Frames)]
    BY <1>2 DEF PumpRelay, TypeOK
  <2>3. pump' \in [Directions -> {"read", "relay", "log", "closed", "dead"}]
        /\ pump'[d] \in {"read", "log"} /\ \A e \in Directions \ {d} : pump'[e] = pump[e]
    BY <1>2 DEF PumpRelay, TypeOK
  <2>4. out' \in [Directions -> Seq(Frames)]
        /\ \A e \in Directions : Len(out'[e]) <= PipeCap
    <3>1. Len(hand[d]) = 1
      BY <1>2 DEF PumpRelay, Hands
    <3>2. Len(out[d] \o hand[d]) <= PipeCap /\ out[d] \o hand[d] \in Seq(Frames)
      <4>1. out[d] \in Seq(Frames) /\ hand[d] \in Seq(Frames)
        BY DEF TypeOK
      <4>2. Len(out[d]) \in Nat /\ Len(out[d]) < PipeCap /\ PipeCap \in Nat
        BY <1>2, <4>1, LenProperties, TraceAssumption DEF PumpRelay, Room
      <4>3. /\ out[d] \o hand[d] \in Seq(Frames)
            /\ Len(out[d] \o hand[d]) = Len(out[d]) + Len(hand[d])
        BY <4>1, ConcatProperties
      <4> QED BY <3>1, <4>2, <4>3
    <3> QED BY <1>2, <3>2 DEF PumpRelay, TypeOK
  <2>5. TypeOK'
    BY <1>2, <2>1, <2>2, <2>3, <2>4 DEF PumpRelay, TypeOK
  <2>6. Hands'
    BY <2>1, <2>3 DEF Hands, TypeOK
  <2> QED BY <2>5, <2>6
<1>3. CASE PumpBreaks(d)
  BY <1>3 DEF PumpBreaks, TypeOK, Hands
<1>4. CASE PumpLog(d)
  <2>1. log' \in [Directions -> Seq(Frames)]
    <3>1. log[d] \o note[d] \in Seq(Frames)
      BY ConcatProperties DEF TypeOK
    <3> QED BY <1>4, <3>1 DEF PumpLog, TypeOK
  <2>2. note' \in [Directions -> Seq(Frames)]
    BY <1>4, EmptySeq DEF PumpLog, TypeOK
  <2>3. pump' \in [Directions -> {"read", "relay", "log", "closed", "dead"}]
        /\ pump'[d] \in {"read", "dead"} /\ \A e \in Directions \ {d} : pump'[e] = pump[e]
    BY <1>4 DEF PumpLog, TypeOK
  <2>4. TypeOK'
    BY <1>4, <2>1, <2>2, <2>3 DEF PumpLog, TypeOK
  <2>5. Hands'
    BY <1>4, <2>3 DEF PumpLog, Hands, TypeOK
  <2> QED BY <2>4, <2>5
<1>5. CASE PumpEnd(d)
  BY <1>5 DEF PumpEnd, TypeOK, Hands
<1> QED BY <1>1, <1>2, <1>3, <1>4, <1>5 DEF Pump

LEMMA MainKeeps ==
  ASSUME Inv, Main
  PROVE  Inv'
<1> USE DEF Inv, hosts_, servers_, TypeOK, Hands
<1>1. CASE MainWait
  BY <1>1 DEF MainWait
<1>2. CASE MainJoin
  BY <1>2 DEF MainJoin, Ended
<1>3. CASE MainExit
  BY <1>3 DEF MainExit
<1> QED BY <1>1, <1>2, <1>3 DEF Main

LEMMA NextInv == Inv /\ [Next]_vars => Inv'
<1> SUFFICES ASSUME Inv, [Next]_vars PROVE Inv'
  OBVIOUS
<1>1. CASE HostSend \/ HostReceive \/ HostClose \/ HostKilled
  BY <1>1, HostKeeps
<1>2. CASE Server \/ CatalogSilent \/ ServerDies
  BY <1>2, ServerKeeps
<1>3. CASE \E d \in Directions : Pump(d)
  BY <1>3, PumpKeeps
<1>4. CASE Main
  BY <1>4, MainKeeps
<1>5. CASE UNCHANGED vars
  BY <1>5 DEF vars, Inv, TypeOK, Hands
<1> QED BY <1>1, <1>2, <1>3, <1>4, <1>5 DEF Next

(* The proxy's state keeps its types, and no pipe holds more than it can,  *)
(* whatever the host writes and whoever dies.                              *)
THEOREM TraceTypes == Spec => []TypeOK
<1>1. Inv => TypeOK
  BY DEF Inv
<1> QED BY InitInv, NextInv, <1>1, PTL DEF Spec

LEMMA Invariant == Spec => []Inv
BY InitInv, NextInv, PTL DEF Spec

-----------------------------------------------------------------------------
(***************************************************************************)
(* The refinement.  A step of the system is, in each direction, a step of  *)
(* the plain pipe or none: the ends put and get, the proxy only moves a    *)
(* frame from one of its three places to the next.                         *)
(***************************************************************************)
StepUp   == ToServer!Next \/ UNCHANGED <<Queued("up"), taken>>
StepDown == ToHost!Next \/ UNCHANGED <<Queued("down"), got>>

LEMMA RowTypes ==
  ASSUME TypeOK, NEW d \in Directions
  PROVE  out[d] \in Seq(Frames) /\ hand[d] \in Seq(Frames) /\ in[d] \in Seq(Frames)
BY DEF TypeOK

LEMMA InitPipes == Init => ToServer!Init /\ ToHost!Init
<1> SUFFICES ASSUME Init PROVE ToServer!Init /\ ToHost!Init
  OBVIOUS
<1>1. <<>> \o <<>> \o <<>> = <<>>
  BY EmptySeq, ConcatEmptySeq
<1>2. /\ Queued("up") = <<>> \o <<>> \o <<>>
      /\ Queued("down") = <<>> \o <<>> \o <<>>
  BY DEF Init, Empty, Queued, Directions
<1>3. taken = <<>> /\ got = <<>>
  BY DEF Init
<1> QED BY <1>1, <1>2, <1>3 DEF ToServer!Init, ToHost!Init

(* What the row lemmas say of a direction's row. *)
LEMMA AppendToRow ==
  ASSUME TypeOK, NEW d \in Directions, NEW f \in Frames
  PROVE  out[d] \o hand[d] \o Append(in[d], f) = Append(Queued(d), f)
<1>1. ASSUME NEW s \in Seq(Frames), NEW t \in Seq(Frames), NEW u \in Seq(Frames)
      PROVE  s \o t \o Append(u, f) = Append(s \o t \o u, f)
  BY AppendAtBack
<1> QED BY <1>1, RowTypes DEF Queued

LEMMA FrontOfRow ==
  ASSUME TypeOK, NEW d \in Directions, out[d] # <<>>
  PROVE  /\ Queued(d) # <<>>
         /\ Head(Queued(d)) = Head(out[d])
         /\ Tail(Queued(d)) = Tail(out[d]) \o hand[d] \o in[d]
BY RowTypes, TakeFromRow DEF Queued

(* Writing into a direction's inner pipe is Put. *)
LEMMA PutUp ==
  ASSUME TypeOK, NEW f \in Frames, in' = [in EXCEPT !["up"] = Append(@, f)],
         UNCHANGED <<out, hand, taken, got>>
  PROVE  StepUp /\ StepDown
<1> DEFINE Q == Queued("up")
<1>1. "up" \in Directions /\ "down" \in Directions
  BY DEF Directions
<1>2. in'["up"] = Append(in["up"], f) /\ in'["down"] = in["down"]
  BY <1>1 DEF TypeOK
<1>3. out["up"] \o hand["up"] \o Append(in["up"], f) = Append(Q, f)
  BY <1>1, AppendToRow
<1>4. Q' = Append(Q, f)
  BY <1>2, <1>3 DEF Queued
<1>5. Queued("down")' = Queued("down")
  BY <1>2 DEF Queued
<1>6. ToServer!Next
  BY <1>4 DEF ToServer!Next, ToServer!Put
<1> QED BY <1>5, <1>6 DEF StepUp, StepDown

LEMMA PutDown ==
  ASSUME TypeOK, NEW f \in Frames, in' = [in EXCEPT !["down"] = Append(@, f)],
         UNCHANGED <<out, hand, taken, got>>
  PROVE  StepUp /\ StepDown
<1> DEFINE Q == Queued("down")
<1>1. "up" \in Directions /\ "down" \in Directions
  BY DEF Directions
<1>2. in'["down"] = Append(in["down"], f) /\ in'["up"] = in["up"]
  BY <1>1 DEF TypeOK
<1>3. out["down"] \o hand["down"] \o Append(in["down"], f) = Append(Q, f)
  BY <1>1, AppendToRow
<1>4. Q' = Append(Q, f)
  BY <1>2, <1>3 DEF Queued
<1>5. Queued("up")' = Queued("up")
  BY <1>2 DEF Queued
<1>6. ToHost!Next
  BY <1>4 DEF ToHost!Next, ToHost!Put
<1> QED BY <1>5, <1>6 DEF StepUp, StepDown

(* Nothing moves in either row, nobody reads. *)
LEMMA NothingMoves ==
  ASSUME UNCHANGED <<in, out, hand, taken, got>>
  PROVE  StepUp /\ StepDown
BY DEF StepUp, StepDown, Queued

LEMMA HostPipes ==
  ASSUME TypeOK, HostSend \/ HostReceive \/ HostClose \/ HostKilled
  PROVE  StepUp /\ StepDown
<1> USE DEF hosts_, servers_
<1>1. CASE HostSend
  <2>1. PICK k \in Kinds :
          in' = [in EXCEPT !["up"] = Append(@, [kind |-> k, id |-> Len(sent) + 1])]
    BY <1>1 DEF HostSend
  <2> DEFINE f == [kind |-> k, id |-> Len(sent) + 1]
  <2>2. f \in Frames
    <3>1. Len(sent) \in Nat /\ Len(sent) < MaxFrames /\ MaxFrames \in Nat
      BY <1>1, LenProperties, TraceAssumption DEF HostSend, TypeOK
    <3>2. k \in FrameKinds
      BY TraceAssumption DEF FrameKinds
    <3> QED BY <3>1, <3>2 DEF Frames
  <2>3. UNCHANGED <<out, hand, taken, got>>
    BY <1>1 DEF HostSend
  <2>4. in' = [in EXCEPT !["up"] = Append(@, f)]
    BY <2>1
  <2> QED BY <2>2, <2>3, <2>4, PutUp
<1>2. CASE HostReceive
  <2>1. "up" \in Directions /\ "down" \in Directions
    BY DEF Directions
  <2>2. out["down"] # <<>>
    BY <1>2 DEF HostReceive
  <2>3. out'["down"] = Tail(out["down"]) /\ out'["up"] = out["up"]
    BY <1>2, <2>1 DEF HostReceive, TypeOK
  <2>4. UNCHANGED <<in, hand, taken>> /\ got' = Append(got, Head(out["down"]))
    BY <1>2 DEF HostReceive
  <2>5. /\ Queued("down") # <<>>
        /\ Head(Queued("down")) = Head(out["down"])
        /\ Tail(Queued("down")) = Tail(out["down"]) \o hand["down"] \o in["down"]
    BY <2>1, <2>2, FrontOfRow
  <2>6. Queued("down")' = Tail(Queued("down"))
    BY <2>3, <2>4, <2>5 DEF Queued
  <2>7. ToHost!Next
    BY <2>4, <2>5, <2>6 DEF ToHost!Next, ToHost!Get
  <2>8. UNCHANGED <<Queued("up"), taken>>
    BY <2>3, <2>4 DEF Queued
  <2> QED BY <2>7, <2>8 DEF StepUp, StepDown
<1>3. CASE HostClose
  BY <1>3, NothingMoves DEF HostClose
<1>4. CASE HostKilled
  BY <1>4, NothingMoves DEF HostKilled
<1> QED BY <1>1, <1>2, <1>3, <1>4

LEMMA ServerPipes ==
  ASSUME TypeOK, Server \/ CatalogSilent \/ ServerDies
  PROVE  StepUp /\ StepDown
<1> USE DEF hosts_
<1>1. CASE ServerStart
  <2>1. UNCHANGED <<out, hand, taken, got>>
    BY <1>1 DEF ServerStart
  <2>2. CASE UNCHANGED <<in, written>>
    BY <2>1, <2>2, NothingMoves
  <2>3. CASE \E k \in Noise : ServerWrites([kind |-> k, id |-> 0])
    <3>1. PICK k \in Noise : ServerWrites([kind |-> k, id |-> 0])
      BY <2>3
    <3>2. in' = [in EXCEPT !["down"] = Append(@, [kind |-> k, id |-> 0])]
      BY <3>1 DEF ServerWrites
    <3> QED BY <2>1, <3>2, NoiseIsFrame, PutDown
  <2> QED BY <1>1, <2>2, <2>3 DEF ServerStart
<1>2. CASE ServerTake
  <2>1. "up" \in Directions /\ "down" \in Directions
    BY DEF Directions
  <2>2. out["up"] # <<>>
    BY <1>2 DEF ServerTake
  <2>3. out'["up"] = Tail(out["up"]) /\ out'["down"] = out["down"]
    BY <1>2, <2>1 DEF ServerTake, TypeOK
  <2>4. UNCHANGED <<in, hand, got>> /\ taken' = Append(taken, Head(out["up"]))
    BY <1>2 DEF ServerTake
  <2>5. /\ Queued("up") # <<>>
        /\ Head(Queued("up")) = Head(out["up"])
        /\ Tail(Queued("up")) = Tail(out["up"]) \o hand["up"] \o in["up"]
    BY <2>1, <2>2, FrontOfRow
  <2>6. Queued("up")' = Tail(Queued("up"))
    BY <2>3, <2>4, <2>5 DEF Queued
  <2>7. ToServer!Next
    BY <2>4, <2>5, <2>6 DEF ToServer!Next, ToServer!Get
  <2>8. UNCHANGED <<Queued("down"), got>>
    BY <2>3, <2>4 DEF Queued
  <2> QED BY <2>7, <2>8 DEF StepUp, StepDown
<1>3. CASE ServerReply
  <2>1. UNCHANGED <<out, hand, taken, got>>
    BY <1>3 DEF ServerReply
  <2>2. in' = [in EXCEPT !["down"] = Append(@, [kind |-> "reply", id |-> reply])]
    BY <1>3 DEF ServerReply, ServerWrites
  <2> QED BY <2>1, <2>2, ReplyIsFrame, PutDown
<1>4. CASE ServerEnd \/ CatalogSilent
  BY <1>4, NothingMoves DEF ServerEnd, CatalogSilent
<1>5. CASE ServerDies
  BY <1>5, NothingMoves DEF ServerDies
<1> QED BY <1>1, <1>2, <1>3, <1>4, <1>5 DEF Server

(* The proxy moves frames within a row: neither row changes. *)
LEMMA PumpPipes ==
  ASSUME Inv, NEW d \in Directions, Pump(d)
  PROVE  StepUp /\ StepDown
<1> USE DEF hosts_, servers_
<1> SUFFICES ASSUME NEW e \in Directions PROVE Queued(e)' = Queued(e)
  <2>1. "up" \in Directions /\ "down" \in Directions
    BY DEF Directions
  <2>2. UNCHANGED <<taken, got>>
    BY DEF Pump, PumpRead, PumpRelay, PumpBreaks, PumpLog, PumpEnd
  <2> QED BY <2>1, <2>2 DEF StepUp, StepDown
<1>1. TypeOK /\ Hands
  BY DEF Inv
<1>2. CASE PumpRead(d)
  <2>1. in[d] # <<>> /\ hand[d] = <<>>
    BY <1>1, <1>2 DEF PumpRead, Hands
  <2>2. /\ out' = out
        /\ hand'[d] = <<Head(in[d])>> /\ in'[d] = Tail(in[d])
        /\ e # d => hand'[e] = hand[e] /\ in'[e] = in[e]
    BY <1>1, <1>2 DEF PumpRead, TypeOK
  <2>3. out[d] \o <<Head(in[d])>> \o Tail(in[d]) = out[d] \o <<>> \o in[d]
    BY <1>1, <2>1, RowTypes, MoveIntoHand
  <2> QED BY <2>1, <2>2, <2>3 DEF Queued
<1>3. CASE PumpRelay(d)
  <2>1. /\ in' = in
        /\ out'[d] = out[d] \o hand[d] /\ hand'[d] = <<>>
        /\ e # d => out'[e] = out[e] /\ hand'[e] = hand[e]
    BY <1>1, <1>3 DEF PumpRelay, TypeOK
  <2>2. (out[d] \o hand[d]) \o <<>> \o in[d] = out[d] \o hand[d] \o in[d]
    BY <1>1, RowTypes, MoveOutOfHand
  <2> QED BY <2>1, <2>2 DEF Queued
<1>4. CASE PumpBreaks(d) \/ PumpLog(d) \/ PumpEnd(d)
  BY <1>4 DEF PumpBreaks, PumpLog, PumpEnd, Queued
<1> QED BY <1>2, <1>3, <1>4 DEF Pump

LEMMA StepPipes == Inv /\ [Next]_vars => StepUp /\ StepDown
<1> SUFFICES ASSUME Inv, [Next]_vars PROVE StepUp /\ StepDown
  OBVIOUS
<1>1. TypeOK
  BY DEF Inv
<1>2. CASE HostSend \/ HostReceive \/ HostClose \/ HostKilled
  BY <1>1, <1>2, HostPipes
<1>3. CASE Server \/ CatalogSilent \/ ServerDies
  BY <1>1, <1>3, ServerPipes
<1>4. CASE \E d \in Directions : Pump(d)
  BY <1>4, PumpPipes
<1>5. CASE Main
  BY <1>5, NothingMoves DEF Main, MainWait, MainJoin, MainExit, hosts_, servers_
<1>6. CASE UNCHANGED vars
  BY <1>6, NothingMoves DEF vars
<1> QED BY <1>2, <1>3, <1>4, <1>5, <1>6 DEF Next

(* With the proxy between them the host and the server are joined by two   *)
(* plain pipes: in neither direction is a frame lost, repeated, reordered  *)
(* or made up, whoever dies and wherever the threads are.                  *)
THEOREM TraceIsPipe == Spec => NeitherNotices
<1>1. Init => ToServer!Init /\ ToHost!Init
  BY InitPipes
<1>2. Inv /\ [Next]_vars =>
        /\ [ToServer!Next]_<<Queued("up"), taken>>
        /\ [ToHost!Next]_<<Queued("down"), got>>
  BY StepPipes DEF StepUp, StepDown
<1> QED BY <1>1, <1>2, Invariant, PTL DEF Spec, NeitherNotices, ToServer!Spec, ToHost!Spec

-----------------------------------------------------------------------------
(***************************************************************************)
(* Loggable, a recursive function: what it is of the empty sequence, of    *)
(* one frame, and of two sequences in a row.                               *)
(***************************************************************************)
Kept(s, first, n) ==
  IF n = 0 THEN <<>>
  ELSE IF s[n].kind = "blank" THEN first[n - 1]
  ELSE Append(first[n - 1], s[n])

(* There is a function with that recursion: by induction on its domain. *)
LEMMA PrefixesExist ==
  ASSUME NEW s \in Seq(Frames)
  PROVE  \E F : F = [n \in 0..Len(s) |-> Kept(s, F, n)]
<1> DEFINE T == {m \in Nat : m <= Len(s) => \E F : F = [n \in 0..m |-> Kept(s, F, n)]}
<1>0. Len(s) \in Nat
  OBVIOUS
<1>1. 0 \in T
  <2> DEFINE G == [n \in 0..0 |-> <<>>]
  <2>1. G = [n \in 0..0 |-> Kept(s, G, n)]
    BY DEF Kept
  <2> QED BY <2>1
<1>2. ASSUME NEW m \in T \cap Nat PROVE m + 1 \in T
  <2>1. SUFFICES ASSUME m + 1 <= Len(s)
                 PROVE  \E F : F = [n \in 0..(m + 1) |-> Kept(s, F, n)]
    OBVIOUS
  <2>2. PICK F : F = [n \in 0..m |-> Kept(s, F, n)]
    BY <1>0, <2>1
  <2> DEFINE G == [n \in 0..(m + 1) |-> IF n <= m THEN F[n] ELSE Kept(s, F, n)]
  <2>3. ASSUME NEW n \in 0..(m + 1) PROVE G[n] = Kept(s, G, n)
    <3>1. n # 0 => n - 1 \in 0..m /\ n - 1 \in 0..(m + 1) /\ G[n - 1] = F[n - 1]
      OBVIOUS
    <3>2. Kept(s, G, n) = Kept(s, F, n)
      BY <3>1 DEF Kept
    <3>3. n <= m => F[n] = Kept(s, F, n)
      BY <2>2
    <3> QED BY <3>2, <3>3
  <2>4. G = [n \in 0..(m + 1) |-> Kept(s, G, n)]
    BY <2>3
  <2> QED BY <2>4
<1>3. Nat \subseteq T
  <2> HIDE DEF T
  <2> QED BY <1>1, <1>2, SetInduction
<1> QED BY <1>3, <1>0

LEMMA PrefixesStep ==
  ASSUME NEW s \in Seq(Frames), NEW n \in 0..Len(s)
  PROVE  LoggablePrefixes(s)[n] = Kept(s, LoggablePrefixes(s), n)
<1> DEFINE L == CHOOSE F : F = [m \in 0..Len(s) |-> Kept(s, F, m)]
<1>1. LoggablePrefixes(s) = L
  BY DEF LoggablePrefixes, Kept
<1>2. L = [m \in 0..Len(s) |-> Kept(s, L, m)]
  BY PrefixesExist
<1> HIDE DEF L
<1> QED BY <1>1, <1>2

LEMMA PrefixesType ==
  ASSUME NEW s \in Seq(Frames), NEW n \in 0..Len(s)
  PROVE  LoggablePrefixes(s)[n] \in Seq(Frames)
<1> DEFINE L == LoggablePrefixes(s)
           T == {m \in Nat : m <= Len(s) => L[m] \in Seq(Frames)}
<1>0. Len(s) \in Nat /\ \A m \in 0..Len(s) : L[m] = Kept(s, L, m)
  BY PrefixesStep
<1> HIDE DEF L
<1>1. 0 \in T
  <2>1. L[0] = <<>> /\ <<>> \in Seq(Frames)
    BY <1>0 DEF Kept
  <2> QED BY <2>1
<1>2. ASSUME NEW m \in T \cap Nat PROVE m + 1 \in T
  <2>1. SUFFICES ASSUME m + 1 <= Len(s) PROVE L[m + 1] \in Seq(Frames)
    OBVIOUS
  <2>2. L[m] \in Seq(Frames) /\ s[m + 1] \in Frames
    BY <1>0, <2>1
  <2>3. L[m + 1] = Kept(s, L, m + 1) /\ (m + 1) - 1 = m /\ m + 1 # 0
    BY <1>0, <2>1
  <2> QED BY <2>2, <2>3 DEF Kept
<1>3. Nat \subseteq T
  <2> HIDE DEF T
  <2> QED BY <1>1, <1>2, SetInduction
<1> QED BY <1>3, <1>0 DEF L

(* The prefixes of two sequences in a row are the first one's, and then    *)
(* the whole first one followed by the second one's.                       *)
LEMMA PrefixesOfFirst ==
  ASSUME NEW s \in Seq(Frames), NEW t \in Seq(Frames), NEW n \in 0..Len(s)
  PROVE  LoggablePrefixes(s \o t)[n] = LoggablePrefixes(s)[n]
<1> DEFINE L == LoggablePrefixes(s)
           K == LoggablePrefixes(s \o t)
           T == {m \in Nat : m <= Len(s) => K[m] = L[m]}
<1>0. /\ s \o t \in Seq(Frames) /\ Len(s) \in Nat /\ Len(t) \in Nat
      /\ Len(s \o t) = Len(s) + Len(t)
      /\ \A i \in 1..Len(s) : (s \o t)[i] = s[i]
  BY ConcatProperties
<1>1. /\ \A m \in 0..Len(s) : L[m] = Kept(s, L, m)
      /\ \A m \in 0..Len(s \o t) : K[m] = Kept(s \o t, K, m)
  BY <1>0, PrefixesStep
<1> HIDE DEF L, K
<1>2. 0 \in T
  BY <1>0, <1>1 DEF Kept
<1>3. ASSUME NEW m \in T \cap Nat PROVE m + 1 \in T
  <2>1. SUFFICES ASSUME m + 1 <= Len(s) PROVE K[m + 1] = L[m + 1]
    OBVIOUS
  <2>2. /\ K[m] = L[m] /\ (s \o t)[m + 1] = s[m + 1]
        /\ (m + 1) - 1 = m /\ m + 1 # 0
    BY <1>0, <2>1
  <2>3. L[m + 1] = Kept(s, L, m + 1) /\ K[m + 1] = Kept(s \o t, K, m + 1)
    BY <1>0, <1>1, <2>1
  <2> QED BY <2>2, <2>3 DEF Kept
<1>4. Nat \subseteq T
  <2> HIDE DEF T
  <2> QED BY <1>2, <1>3, SetInduction
<1> QED BY <1>4, <1>0 DEF L, K

LEMMA PrefixesOfSecond ==
  ASSUME NEW s \in Seq(Frames), NEW t \in Seq(Frames), NEW n \in 0..Len(t)
  PROVE  LoggablePrefixes(s \o t)[Len(s) + n] = Loggable(s) \o LoggablePrefixes(t)[n]
<1> DEFINE L == LoggablePrefixes(t)
           K == LoggablePrefixes(s \o t)
           T == {m \in Nat : m <= Len(t) => K[Len(s) + m] = Loggable(s) \o L[m]}
<1>0. /\ s \o t \in Seq(Frames) /\ Len(s) \in Nat /\ Len(t) \in Nat
      /\ Len(s \o t) = Len(s) + Len(t)
      /\ \A i \in 1..Len(t) : (s \o t)[Len(s) + i] = t[i]
  <2>1. /\ Len(s \o t) = Len(s) + Len(t) /\ s \o t \in Seq(Frames)
        /\ \A i \in 1..(Len(s) + Len(t)) :
             (s \o t)[i] = IF i <= Len(s) THEN s[i] ELSE t[i - Len(s)]
    BY ConcatProperties
  <2>2. Len(s) \in Nat /\ Len(t) \in Nat
    OBVIOUS
  <2>3. ASSUME NEW i \in 1..Len(t) PROVE (s \o t)[Len(s) + i] = t[i]
    <3>1. Len(s) + i \in 1..(Len(s) + Len(t)) /\ ~(Len(s) + i <= Len(s))
          /\ (Len(s) + i) - Len(s) = i
      BY <2>2
    <3> QED BY <2>1, <3>1
  <2> QED BY <2>1, <2>2, <2>3
<1>1. /\ \A m \in 0..Len(t) : L[m] = Kept(t, L, m) /\ L[m] \in Seq(Frames)
      /\ \A m \in 0..Len(s \o t) : K[m] = Kept(s \o t, K, m)
      /\ K[Len(s)] = Loggable(s) /\ Loggable(s) \in Seq(Frames)
  <2>1. \A m \in 0..Len(t) : L[m] = Kept(t, L, m) /\ L[m] \in Seq(Frames)
    BY PrefixesStep, PrefixesType
  <2>2. \A m \in 0..Len(s \o t) : K[m] = Kept(s \o t, K, m)
    BY <1>0, PrefixesStep
  <2>3. Len(s) \in 0..Len(s)
    BY <1>0
  <2>4. K[Len(s)] = LoggablePrefixes(s)[Len(s)] /\ Loggable(s) \in Seq(Frames)
    BY <2>3, PrefixesOfFirst, PrefixesType DEF Loggable
  <2> QED BY <2>1, <2>2, <2>4 DEF Loggable
<1> HIDE DEF L, K
<1>2. 0 \in T
  <2>1. L[0] = <<>>
    BY <1>0, <1>1 DEF Kept
  <2>2. Loggable(s) \o <<>> = Loggable(s)
    BY <1>1, ConcatEmptySeq
  <2> QED BY <1>0, <1>1, <2>1, <2>2
<1>3. ASSUME NEW m \in T \cap Nat PROVE m + 1 \in T
  <2>1. SUFFICES ASSUME m + 1 <= Len(t)
                 PROVE  K[Len(s) + (m + 1)] = Loggable(s) \o L[m + 1]
    OBVIOUS
  <2> DEFINE k == Len(s) + (m + 1)
  <2>2. /\ k \in 0..Len(s \o t) /\ k # 0 /\ k - 1 = Len(s) + m
        /\ m + 1 \in 0..Len(t) /\ (m + 1) - 1 = m /\ m + 1 # 0 /\ m \in 0..Len(t)
        /\ (s \o t)[k] = t[m + 1] /\ t[m + 1] \in Frames
    BY <1>0, <2>1
  <2>3. K[k - 1] = Loggable(s) \o L[m] /\ L[m] \in Seq(Frames)
    BY <1>1, <2>1, <2>2
  <2>4. L[m + 1] = Kept(t, L, m + 1) /\ K[k] = Kept(s \o t, K, k)
    BY <1>1, <2>2
  <2> HIDE DEF k
  <2>5. Append(Loggable(s) \o L[m], t[m + 1]) = Loggable(s) \o Append(L[m], t[m + 1])
    <3>1. /\ Append(L[m], t[m + 1]) = L[m] \o <<t[m + 1]>>
          /\ Append(Loggable(s) \o L[m], t[m + 1]) = (Loggable(s) \o L[m]) \o <<t[m + 1]>>
          /\ <<t[m + 1]>> \in Seq(Frames)
      <4>1. Loggable(s) \o L[m] \in Seq(Frames)
        BY <1>1, <2>3, ConcatProperties
      <4>2. Append(L[m], t[m + 1]) = L[m] \o <<t[m + 1]>> /\ <<t[m + 1]>> \in Seq(Frames)
        BY <2>2, <2>3, AppendIsConcat
      <4>3. Append(Loggable(s) \o L[m], t[m + 1]) = (Loggable(s) \o L[m]) \o <<t[m + 1]>>
        BY <2>2, <4>1, AppendIsConcat
      <4> QED BY <4>2, <4>3
    <3>2. (Loggable(s) \o L[m]) \o <<t[m + 1]>> = Loggable(s) \o (L[m] \o <<t[m + 1]>>)
      <4>1. ASSUME NEW a \in Seq(Frames), NEW b \in Seq(Frames), NEW c \in Seq(Frames)
            PROVE  (a \o b) \o c = a \o (b \o c)
        BY ConcatAssociative
      <4> QED BY <1>1, <2>3, <3>1, <4>1
    <3> QED BY <3>1, <3>2
  <2> QED BY <2>2, <2>3, <2>4, <2>5 DEF Kept, k
<1>4. Nat \subseteq T
  <2> HIDE DEF T
  <2> QED BY <1>2, <1>3, SetInduction
<1> QED BY <1>4, <1>0 DEF L, K

LEMMA LoggableType ==
  ASSUME NEW s \in Seq(Frames)
  PROVE  Loggable(s) \in Seq(Frames)
BY PrefixesType DEF Loggable

LEMMA LoggableOfRow ==
  ASSUME NEW s \in Seq(Frames), NEW t \in Seq(Frames)
  PROVE  Loggable(s \o t) = Loggable(s) \o Loggable(t)
<1>1. Len(s \o t) = Len(s) + Len(t) /\ Len(t) \in 0..Len(t)
  BY ConcatProperties
<1> QED BY <1>1, PrefixesOfSecond DEF Loggable

LEMMA LoggableOfNone == Loggable(<<>>) = <<>>
<1>1. <<>> \in Seq(Frames) /\ Len(<<>>) = 0 /\ 0 \in 0..0
  OBVIOUS
<1> QED BY <1>1, PrefixesStep DEF Loggable, Kept

LEMMA LoggableOfOne ==
  ASSUME NEW f \in Frames
  PROVE  Loggable(<<f>>) = IF f.kind = "blank" THEN <<>> ELSE <<f>>
<1> DEFINE s == <<f>>
<1>1. s \in Seq(Frames) /\ Len(s) = 1 /\ s[1] = f
  OBVIOUS
<1> HIDE DEF s
<1>2. LoggablePrefixes(s)[0] = <<>>
  BY <1>1, PrefixesStep DEF Kept
<1>3. Loggable(s) = Kept(s, LoggablePrefixes(s), 1)
  BY <1>1, PrefixesStep DEF Loggable
<1>4. Append(<<>>, f) = <<f>>
  OBVIOUS
<1> QED BY <1>1, <1>2, <1>3, <1>4 DEF Kept, s

-----------------------------------------------------------------------------
(***************************************************************************)
(* The trace.  A pump's note is empty unless it is about to write it down; *)
(* as long as no scalar was written in a direction, its records, its note  *)
(* and what is still to be passed on are the frames written; and what is   *)
(* known of each end of file and of each exit.                             *)
(***************************************************************************)
NoScalar(s) == \A i \in 1..Len(s) : s[i].kind # "scalar"

Exact(d) == log[d] \o note[d] \o Loggable(hand[d] \o in[d]) = Loggable(Written(d))

Noted(d) ==
  /\ pump[d] = "log" => Len(note[d]) = 1
  /\ pump[d] # "log" => note[d] = <<>>

Traced(d) ==
  NoScalar(Written(d)) =>
    NoScalar(in[d]) /\ NoScalar(hand[d]) /\ NoScalar(note[d]) /\ Exact(d)

TraceInv == \A d \in Directions : Noted(d) /\ Traced(d)

(* What may happen in one direction. *)
Same(d) ==
  UNCHANGED <<in[d], hand[d], note[d], log[d], Written(d)>>

Writes(d) ==
  \E f \in Frames :
    /\ in'[d] = Append(in[d], f) /\ Written(d)' = Append(Written(d), f)
    /\ UNCHANGED <<hand[d], note[d], log[d]>>

Reads(d) ==
  /\ in[d] # <<>> /\ hand[d] = <<>>
  /\ hand'[d] = <<Head(in[d])>> /\ in'[d] = Tail(in[d])
  /\ UNCHANGED <<note[d], log[d], Written(d)>>

Relays(d) ==
  /\ Len(hand[d]) = 1 /\ hand'[d] = <<>> /\ note[d] = <<>>
  /\ note'[d] = IF Head(hand[d]).kind = "blank" THEN <<>> ELSE hand[d]
  /\ UNCHANGED <<in[d], log[d], Written(d)>>

Logs(d) ==
  /\ Len(note[d]) = 1 /\ note'[d] = <<>>
  /\ log'[d] = IF Summarised(Head(note[d])) THEN log[d] \o note[d] ELSE log[d]
  /\ UNCHANGED <<in[d], hand[d], Written(d)>>

OneStep(d) == Same(d) \/ Writes(d) \/ Reads(d) \/ Relays(d) \/ Logs(d)

LEMMA RowAssociates ==
  ASSUME NEW a \in Seq(Frames), NEW b \in Seq(Frames), NEW c \in Seq(Frames)
  PROVE  (a \o b) \o c = a \o (b \o c)
BY ConcatAssociative

LEMMA WrittenType ==
  ASSUME TypeOK, NEW d \in Directions
  PROVE  Written(d) \in Seq(Frames)
BY DEF TypeOK, Written

LEMMA NoScalarAppended ==
  ASSUME NEW s \in Seq(Frames), NEW f \in Frames
  PROVE  NoScalar(Append(s, f)) <=> NoScalar(s) /\ f.kind # "scalar"
<1>1. /\ Len(Append(s, f)) = Len(s) + 1 /\ Len(s) \in Nat
      /\ \A i \in 1..Len(s) : Append(s, f)[i] = s[i]
      /\ Append(s, f)[Len(s) + 1] = f
  BY AppendProperties, LenProperties
<1>2. 1..(Len(s) + 1) = 1..Len(s) \cup {Len(s) + 1}
  BY <1>1
<1> QED BY <1>1, <1>2 DEF NoScalar

LEMMA LoggableAppended ==
  ASSUME NEW s \in Seq(Frames), NEW f \in Frames
  PROVE  Loggable(Append(s, f)) = Loggable(s) \o Loggable(<<f>>)
<1>1. Append(s, f) = s \o <<f>> /\ <<f>> \in Seq(Frames)
  BY AppendIsConcat
<1> QED BY <1>1, LoggableOfRow

(* Each of them keeps a direction's trace exact. *)
LEMMA DirectionTraced ==
  ASSUME TypeOK, NEW d \in Directions, Traced(d), OneStep(d)
  PROVE  Traced(d)'
<1> SUFFICES ASSUME NoScalar(Written(d)')
             PROVE  /\ NoScalar(in'[d]) /\ NoScalar(hand'[d]) /\ NoScalar(note'[d])
                    /\ log'[d] \o note'[d] \o Loggable(hand'[d] \o in'[d]) = Loggable(Written(d)')
  BY DEF Traced, Exact, NoScalar
<1>0. /\ in[d] \in Seq(Frames) /\ hand[d] \in Seq(Frames) /\ note[d] \in Seq(Frames)
      /\ log[d] \in Seq(Frames) /\ Written(d) \in Seq(Frames)
  BY WrittenType DEF TypeOK
<1>a. ASSUME NEW a \in Seq(Frames), NEW b \in Seq(Frames), NEW c \in Seq(Frames)
      PROVE  /\ (a \o b) \o c = a \o (b \o c) /\ a \o b \in Seq(Frames)
             /\ a \o <<>> = a /\ <<>> \o a = a
  BY ConcatAssociative, ConcatProperties, ConcatEmptySeq
<1>b. NoScalar(<<>>) /\ <<>> \in Seq(Frames)
  BY DEF NoScalar
<1>1. CASE Same(d)
  BY <1>1 DEF Same, Traced, Exact
<1>2. CASE Writes(d)
  <2>1. PICK f \in Frames :
          /\ in'[d] = Append(in[d], f) /\ Written(d)' = Append(Written(d), f)
          /\ UNCHANGED <<hand[d], note[d], log[d]>>
    BY <1>2 DEF Writes
  <2>2. NoScalar(Written(d)) /\ f.kind # "scalar"
    BY <1>0, <2>1, NoScalarAppended
  <2>3. /\ NoScalar(in[d]) /\ NoScalar(hand[d]) /\ NoScalar(note[d])
        /\ log[d] \o note[d] \o Loggable(hand[d] \o in[d]) = Loggable(Written(d))
    BY <2>2 DEF Traced, Exact
  <2>4. NoScalar(in'[d])
    BY <1>0, <2>1, <2>2, <2>3, NoScalarAppended
  <2>5. hand[d] \o Append(in[d], f) = Append(hand[d] \o in[d], f)
    <3>1. Append(in[d], f) = in[d] \o <<f>> /\ <<f>> \in Seq(Frames)
      BY <1>0, AppendIsConcat
    <3>2. hand[d] \o in[d] \in Seq(Frames)
      BY <1>0, ConcatProperties
    <3>3. Append(hand[d] \o in[d], f) = (hand[d] \o in[d]) \o <<f>>
      BY <3>2, AppendIsConcat
    <3>4. (hand[d] \o in[d]) \o <<f>> = hand[d] \o (in[d] \o <<f>>)
      BY <1>0, <3>1, RowAssociates, Zenon
    <3> QED BY <3>1, <3>3, <3>4
  <2>6. Loggable(hand'[d] \o in'[d]) = Loggable(hand[d] \o in[d]) \o Loggable(<<f>>)
    <3>1. hand[d] \o in[d] \in Seq(Frames)
      BY <1>0, ConcatProperties
    <3>2. Loggable(Append(hand[d] \o in[d], f)) = Loggable(hand[d] \o in[d]) \o Loggable(<<f>>)
      BY <3>1, LoggableAppended
    <3> QED BY <2>1, <2>5, <3>2
  <2>7. Loggable(Written(d)') = Loggable(Written(d)) \o Loggable(<<f>>)
    BY <1>0, <2>1, LoggableAppended
  <2>8. /\ Loggable(<<f>>) \in Seq(Frames) /\ Loggable(hand[d] \o in[d]) \in Seq(Frames)
        /\ log[d] \o note[d] \in Seq(Frames)
    <3>1. <<f>> \in Seq(Frames) /\ hand[d] \o in[d] \in Seq(Frames)
      BY <1>0, <1>a
    <3> QED BY <1>0, <1>a, <3>1, LoggableType
  <2>9. (log[d] \o note[d]) \o (Loggable(hand[d] \o in[d]) \o Loggable(<<f>>))
          = ((log[d] \o note[d]) \o Loggable(hand[d] \o in[d])) \o Loggable(<<f>>)
    BY <2>8, RowAssociates, Zenon
  <2> QED BY <2>1, <2>3, <2>4, <2>6, <2>7, <2>9
<1>3. CASE Reads(d)
  <2>1. /\ NoScalar(in[d]) /\ NoScalar(note[d])
        /\ log[d] \o note[d] \o Loggable(hand[d] \o in[d]) = Loggable(Written(d))
    BY <1>3 DEF Reads, Traced, Exact
  <2>2. /\ Head(in[d]) = in[d][1] /\ Len(in[d]) \in Nat \ {0}
        /\ Len(Tail(in[d])) = Len(in[d]) - 1
        /\ \A i \in 1..Len(Tail(in[d])) : Tail(in[d])[i] = in[d][i + 1]
    BY <1>0, <1>3, HeadTailProperties, EmptySeq, LenProperties DEF Reads
  <2>3. NoScalar(in'[d]) /\ NoScalar(hand'[d])
    <3>1. NoScalar(Tail(in[d]))
      BY <2>1, <2>2 DEF NoScalar
    <3>2. NoScalar(<<Head(in[d])>>)
      BY <2>1, <2>2 DEF NoScalar
    <3> QED BY <1>3, <3>1, <3>2 DEF Reads
  <2>4. <<>> \o <<Head(in[d])>> \o Tail(in[d]) = <<>> \o <<>> \o in[d]
    BY <1>0, <1>3, <1>b, MoveIntoHand DEF Reads
  <2>5. <<Head(in[d])>> \in Seq(Frames) /\ Tail(in[d]) \in Seq(Frames)
    BY <1>0, <1>3, HeadTailProperties DEF Reads
  <2>6. hand'[d] \o in'[d] = hand[d] \o in[d]
    BY <1>0, <1>3, <1>a, <1>b, <2>4, <2>5 DEF Reads
  <2> QED BY <1>3, <2>1, <2>3, <2>6 DEF Reads
<1>4. CASE Relays(d)
  <2> DEFINE f == Head(hand[d])
  <2>1. f \in Frames /\ hand[d] = <<f>>
    <3>1. Len(hand[d]) = 1
      BY <1>4 DEF Relays
    <3> QED BY <1>0, <3>1
  <2>2. /\ NoScalar(in[d]) /\ NoScalar(hand[d])
        /\ log[d] \o note[d] \o Loggable(hand[d] \o in[d]) = Loggable(Written(d))
    BY <1>4 DEF Relays, Traced, Exact
  <2>3. Loggable(hand[d] \o in[d]) = note'[d] \o Loggable(in[d])
    <3>1. Loggable(hand[d] \o in[d]) = Loggable(hand[d]) \o Loggable(in[d])
      BY <1>0, LoggableOfRow
    <3>2. Loggable(hand[d]) = note'[d]
      BY <1>4, <2>1, LoggableOfOne DEF Relays
    <3> QED BY <3>1, <3>2
  <2>4. note'[d] \in Seq(Frames) /\ Loggable(in[d]) \in Seq(Frames)
    BY <1>0, <1>4, <1>b, LoggableType DEF Relays
  <2>5. hand'[d] \o in'[d] = in[d] /\ log[d] \o note[d] = log[d] /\ log'[d] = log[d]
    BY <1>0, <1>4, <1>a, <1>b DEF Relays
  <2>6. NoScalar(note'[d]) /\ NoScalar(hand'[d]) /\ NoScalar(in'[d])
    BY <1>4, <1>b, <2>2 DEF Relays
  <2>7. log[d] \o (note'[d] \o Loggable(in[d])) = (log[d] \o note'[d]) \o Loggable(in[d])
    BY <1>0, <2>4, RowAssociates, Zenon
  <2>8. Written(d)' = Written(d)
    BY <1>4 DEF Relays
  <2> QED BY <2>2, <2>3, <2>5, <2>6, <2>7, <2>8
<1>5. CASE Logs(d)
  <2>1. /\ NoScalar(in[d]) /\ NoScalar(hand[d]) /\ NoScalar(note[d])
        /\ log[d] \o note[d] \o Loggable(hand[d] \o in[d]) = Loggable(Written(d))
    BY <1>5 DEF Logs, Traced, Exact
  <2>2. Len(note[d]) = 1 /\ Head(note[d]) = note[d][1]
    BY <1>0, <1>5 DEF Logs
  <2>3. Summarised(Head(note[d]))
    BY <2>1, <2>2 DEF Summarised, NoScalar
  <2>4. log'[d] = log[d] \o note[d] /\ note'[d] = <<>>
    BY <1>5, <2>3 DEF Logs
  <2>5. log[d] \o note[d] \in Seq(Frames) /\ (log[d] \o note[d]) \o <<>> = log[d] \o note[d]
    BY <1>0, <1>a, <1>b
  <2>6. in'[d] = in[d] /\ hand'[d] = hand[d] /\ Written(d)' = Written(d)
    BY <1>5 DEF Logs
  <2> QED BY <1>b, <2>1, <2>4, <2>5, <2>6
<1> QED BY <1>1, <1>2, <1>3, <1>4, <1>5 DEF OneStep

(* Every step of the system is one of them, in either direction. *)
LEMMA StepInDirection ==
  ASSUME Inv, TraceInv, [Next]_vars, NEW d \in Directions
  PROVE  OneStep(d) /\ Noted(d)'
<1> USE DEF hosts_, servers_
<1>1. TypeOK /\ Hands /\ Noted(d)
  BY DEF Inv, TraceInv
<1>2. CASE HostSend
  <2>1. PICK k \in Kinds :
          /\ in' = [in EXCEPT !["up"] = Append(@, [kind |-> k, id |-> Len(sent) + 1])]
          /\ sent' = Append(sent, [kind |-> k, id |-> Len(sent) + 1])
    BY <1>2 DEF HostSend
  <2> DEFINE f == [kind |-> k, id |-> Len(sent) + 1]
  <2>2. f \in Frames
    <3>1. Len(sent) \in Nat /\ Len(sent) < MaxFrames /\ MaxFrames \in Nat
      BY <1>1, <1>2, LenProperties, TraceAssumption DEF HostSend, TypeOK
    <3>2. k \in FrameKinds
      BY TraceAssumption DEF FrameKinds
    <3> QED BY <3>1, <3>2 DEF Frames
  <2>3. UNCHANGED <<hand, note, log, written, pump>>
    BY <1>2 DEF HostSend
  <2> HIDE DEF f
  <2>4. CASE d = "up"
    <3>1. in'[d] = Append(in[d], f) /\ Written(d)' = Append(Written(d), f)
      BY <1>1, <2>1, <2>4 DEF TypeOK, Written, f
    <3> QED BY <1>1, <2>2, <2>3, <3>1 DEF OneStep, Writes, Noted
  <2>5. CASE d # "up"
    BY <1>1, <2>1, <2>3, <2>5 DEF TypeOK, OneStep, Same, Written, Noted
  <2> QED BY <2>4, <2>5
<1>3. CASE HostReceive \/ HostClose \/ HostKilled
  BY <1>1, <1>3 DEF HostReceive, HostClose, HostKilled, OneStep, Same, Written, Noted
<1>4. ASSUME NEW f \in Frames, ServerWrites(f), UNCHANGED <<hand, note, log, sent, pump>>
      PROVE  OneStep(d) /\ Noted(d)'
  <2>1. CASE d = "down"
    <3>1. in'[d] = Append(in[d], f) /\ Written(d)' = Append(Written(d), f)
      BY <1>1, <1>4, <2>1 DEF TypeOK, Written, ServerWrites
    <3> QED BY <1>1, <1>4, <3>1 DEF OneStep, Writes, Noted
  <2>2. CASE d # "down"
    <3>1. d = "up"
      BY <2>2 DEF Directions
    <3> QED BY <1>1, <1>4, <3>1 DEF TypeOK, OneStep, Same, Written, Noted, ServerWrites
  <2> QED BY <2>1, <2>2
<1>5. CASE ServerStart
  <2>1. CASE UNCHANGED <<in, written>>
    BY <1>1, <1>5, <2>1 DEF ServerStart, OneStep, Same, Written, Noted
  <2>2. CASE \E k \in Noise : ServerWrites([kind |-> k, id |-> 0])
    <3>1. PICK k \in Noise : ServerWrites([kind |-> k, id |-> 0])
      BY <2>2
    <3>2. [kind |-> k, id |-> 0] \in Frames
      BY NoiseIsFrame
    <3> QED BY <1>4, <1>5, <3>1, <3>2 DEF ServerStart
  <2> QED BY <1>5, <2>1, <2>2 DEF ServerStart
<1>6. CASE ServerReply
  <2>1. [kind |-> "reply", id |-> reply] \in Frames
    BY <1>1, ReplyIsFrame
  <2> QED BY <1>4, <1>6, <2>1 DEF ServerReply
<1>7. CASE ServerTake \/ CatalogSilent \/ ServerEnd \/ ServerDies
  BY <1>1, <1>7 DEF ServerTake, CatalogSilent, ServerEnd, ServerDies, OneStep, Same, Written, Noted
<1>8. ASSUME NEW e \in Directions, Pump(e) PROVE OneStep(d) /\ Noted(d)'
  <2>1. Written(d)' = Written(d)
    BY <1>8 DEF Pump, PumpRead, PumpRelay, PumpBreaks, PumpLog, PumpEnd, Written
  <2>2. Noted(e)
    BY DEF TraceInv
  <2>3. CASE PumpRead(e)
    <3>1. e # d => OneStep(d) /\ Noted(d)'
      BY <1>1, <2>1, <2>3 DEF TypeOK, PumpRead, OneStep, Same, Noted
    <3>2. e = d => OneStep(d)
      BY <1>1, <2>1, <2>3 DEF TypeOK, PumpRead, Hands, OneStep, Reads
    <3>3. e = d => Noted(d)'
      BY <1>1, <2>3 DEF TypeOK, PumpRead, Noted
    <3> QED BY <3>1, <3>2, <3>3
  <2>4. CASE PumpRelay(e)
    <3>1. e # d => OneStep(d) /\ Noted(d)'
      BY <1>1, <2>1, <2>4 DEF TypeOK, PumpRelay, OneStep, Same, Noted
    <3>2. e = d => Relays(d)
      <4>1. Len(hand[e]) = 1 /\ note[e] = <<>>
        BY <1>1, <2>2, <2>4 DEF PumpRelay, Hands, Noted
      <4>2. /\ hand'[e] = <<>> /\ in'[e] = in[e] /\ log'[e] = log[e]
            /\ note'[e] = IF Head(hand[e]).kind = "blank" THEN note[e] ELSE hand[e]
        BY <1>1, <2>4 DEF TypeOK, PumpRelay
      <4> QED BY <2>1, <4>1, <4>2 DEF Relays
    <3>3. e = d => Noted(d)'
      BY <1>1, <2>2, <2>4 DEF TypeOK, PumpRelay, Noted, Hands
    <3> QED BY <3>1, <3>2, <3>3 DEF OneStep
  <2>5. CASE PumpLog(e)
    <3>1. e # d => OneStep(d) /\ Noted(d)'
      BY <1>1, <2>1, <2>5 DEF TypeOK, PumpLog, OneStep, Same, Noted
    <3>2. e = d => Logs(d)
      <4>1. Len(note[e]) = 1
        BY <2>2, <2>5 DEF PumpLog, Noted
      <4>2. /\ note'[e] = <<>> /\ in'[e] = in[e] /\ hand'[e] = hand[e]
            /\ log'[e] = IF Summarised(Head(note[e])) THEN log[e] \o note[e] ELSE log[e]
        BY <1>1, <2>5 DEF TypeOK, PumpLog
      <4> QED BY <2>1, <4>1, <4>2 DEF Logs
    <3>3. e = d => Noted(d)'
      BY <1>1, <2>5 DEF TypeOK, PumpLog, Noted
    <3> QED BY <3>1, <3>2, <3>3 DEF OneStep
  <2>6. CASE PumpBreaks(e) \/ PumpEnd(e)
    BY <1>1, <2>1, <2>6 DEF TypeOK, PumpBreaks, PumpEnd, OneStep, Same, Noted
  <2> QED BY <1>8, <2>3, <2>4, <2>5, <2>6 DEF Pump
<1>9. CASE Main
  BY <1>1, <1>9 DEF Main, MainWait, MainJoin, MainExit, OneStep, Same, Written, Noted
<1>10. CASE UNCHANGED vars
  BY <1>1, <1>10 DEF vars, OneStep, Same, Written, Noted
<1> QED BY <1>2, <1>3, <1>5, <1>6, <1>7, <1>8, <1>9, <1>10 DEF Next, Server

LEMMA InitTrace == Init => TraceInv
<1> SUFFICES ASSUME Init, NEW d \in Directions PROVE Noted(d) /\ Traced(d)
  BY DEF TraceInv
<1>1. /\ in[d] = <<>> /\ hand[d] = <<>> /\ note[d] = <<>> /\ log[d] = <<>>
      /\ Written(d) = <<>> /\ pump[d] = "read"
  BY DEF Init, Empty, Written
<1>2. <<>> \o <<>> = <<>>
  OBVIOUS
<1>3. Exact(d)
  BY <1>1, <1>2, LoggableOfNone DEF Exact
<1>4. NoScalar(<<>>)
  BY DEF NoScalar
<1> QED BY <1>1, <1>3, <1>4 DEF Noted, Traced

LEMMA NextTrace == Inv /\ TraceInv /\ [Next]_vars => TraceInv'
<1> SUFFICES ASSUME Inv, TraceInv, [Next]_vars, NEW d \in Directions
             PROVE  Noted(d)' /\ Traced(d)'
  BY DEF TraceInv
<1>1. TypeOK /\ Traced(d)
  BY DEF Inv, TraceInv
<1> QED BY <1>1, StepInDirection, DirectionTraced

(* Unless the server starts with a bare scalar on its output, nothing      *)
(* written in either direction is one.                                     *)
NoneWritten == "scalar" \notin Noise => NoScalar(sent) /\ NoScalar(written)

LEMMA InitNone == Init => NoneWritten
BY DEF Init, NoneWritten, NoScalar

LEMMA NextNone == Inv /\ NoneWritten /\ [Next]_vars => NoneWritten'
<1> SUFFICES ASSUME Inv, NoneWritten, [Next]_vars, "scalar" \notin Noise
             PROVE  NoScalar(sent') /\ NoScalar(written')
  BY DEF NoneWritten, NoScalar
<1> USE DEF hosts_, servers_
<1>1. TypeOK /\ NoScalar(sent) /\ NoScalar(written)
  BY DEF Inv, NoneWritten
<1>2. CASE HostSend
  <2>1. PICK k \in Kinds : sent' = Append(sent, [kind |-> k, id |-> Len(sent) + 1])
    BY <1>2 DEF HostSend
  <2>2. k \in FrameKinds /\ k # "scalar"
    BY TraceAssumption DEF FrameKinds
  <2>3. [kind |-> k, id |-> Len(sent) + 1] \in Frames
    <3>1. Len(sent) \in Nat /\ Len(sent) < MaxFrames /\ MaxFrames \in Nat
      BY <1>1, <1>2, LenProperties, TraceAssumption DEF HostSend, TypeOK
    <3> QED BY <2>2, <3>1 DEF Frames
  <2>4. sent \in Seq(Frames) /\ written' = written
    BY <1>1, <1>2 DEF TypeOK, HostSend
  <2>5. NoScalar(sent')
    BY <1>1, <2>1, <2>2, <2>3, <2>4, NoScalarAppended
  <2> QED BY <1>1, <2>4, <2>5
<1>3. ASSUME NEW f \in Frames, f.kind # "scalar", ServerWrites(f), UNCHANGED sent
      PROVE  NoScalar(sent') /\ NoScalar(written')
  BY <1>1, <1>3, NoScalarAppended DEF ServerWrites, TypeOK
<1>4. CASE ServerStart
  <2>1. CASE UNCHANGED <<in, written>>
    BY <1>1, <1>4, <2>1 DEF ServerStart
  <2>2. CASE \E k \in Noise : ServerWrites([kind |-> k, id |-> 0])
    <3>1. PICK k \in Noise : ServerWrites([kind |-> k, id |-> 0])
      BY <2>2
    <3>2. [kind |-> k, id |-> 0] \in Frames /\ k # "scalar"
      BY NoiseIsFrame
    <3> QED BY <1>3, <1>4, <3>1, <3>2 DEF ServerStart
  <2> QED BY <1>4, <2>1, <2>2 DEF ServerStart
<1>5. CASE ServerReply
  <2>1. [kind |-> "reply", id |-> reply] \in Frames
    BY <1>1, ReplyIsFrame
  <2> QED BY <1>3, <1>5, <2>1 DEF ServerReply
<1>6. UNCHANGED <<sent, written>> => NoScalar(sent') /\ NoScalar(written')
  BY <1>1
<1>7. CASE HostReceive \/ HostClose \/ HostKilled
  BY <1>6, <1>7 DEF HostReceive, HostClose, HostKilled
<1>8. CASE ServerTake \/ CatalogSilent \/ ServerEnd \/ ServerDies
  BY <1>6, <1>8 DEF ServerTake, CatalogSilent, ServerEnd, ServerDies
<1>9. CASE \E d \in Directions : Pump(d)
  BY <1>6, <1>9 DEF Pump, PumpRead, PumpRelay, PumpBreaks, PumpLog, PumpEnd
<1>10. CASE Main
  BY <1>6, <1>10 DEF Main, MainWait, MainJoin, MainExit
<1>11. CASE UNCHANGED vars
  BY <1>6, <1>11 DEF vars
<1> QED BY <1>2, <1>4, <1>5, <1>7, <1>8, <1>9, <1>10, <1>11 DEF Next, Server

LEMMA TraceInvariant == Spec => [](Inv /\ TraceInv /\ NoneWritten)
BY InitInv, NextInv, InitTrace, NextTrace, InitNone, NextNone, PTL DEF Spec

(* In a direction in which no bare scalar has been written, the trace is   *)
(* exact at every moment, whatever happens in the other one.               *)
THEOREM TraceExactBarScalars ==
  Spec => [](\A d \in Directions : NoScalar(Written(d)) => Exact(d))
<1>1. TraceInv => \A d \in Directions : NoScalar(Written(d)) => Exact(d)
  BY DEF TraceInv, Traced
<1> QED BY <1>1, TraceInvariant, PTL

(* So it is exact in both if the server does not print one: its records    *)
(* are the frames written, once and in order, but for the one being        *)
(* written down and those not passed on yet.                               *)
THEOREM TraceExact ==
  ASSUME "scalar" \notin Noise
  PROVE  Spec => []TraceIsExact
<1>1. TraceInv /\ NoneWritten => TraceIsExact
  BY DEF TraceInv, NoneWritten, Traced, Exact, TraceIsExact, Written
<1> QED BY <1>1, TraceInvariant, PTL

-----------------------------------------------------------------------------
(***************************************************************************)
(* A closed trace.  A thread that ended properly has nothing left and its  *)
(* writer is gone; in calm the server ends only after the up thread has    *)
(* closed its input, and the proxy leaves only after the down thread.      *)
(***************************************************************************)
Endings ==
  /\ \A d \in Directions : pump[d] = "closed" => WriterGone(d) /\ in[d] = <<>>
  /\ main # "wait" => server = "exited"
  /\ calm => /\ host # "gone"
             /\ server = "exited" => pump["up"] = "closed"
             /\ NoScalar(written) => pump["down"] # "dead"
             /\ main \in {"leave", "exited"} => Ended("down")

LEMMA InitEndings == Init => Endings
BY DEF Init, Endings, Directions

LEMMA NextEndings == Inv /\ TraceInv /\ Endings /\ [Next]_vars => Endings'
<1> SUFFICES ASSUME Inv, TraceInv, Endings, [Next]_vars PROVE Endings'
  OBVIOUS
<1> USE DEF hosts_, servers_, Endings, WriterGone, Ended
<1>1. TypeOK /\ Hands /\ "up" \in Directions /\ "down" \in Directions
  BY DEF Inv, Directions
<1>2. CASE HostSend
  <2>1. UNCHANGED <<pump, main, host, server, calm, written>> /\ in'["down"] = in["down"]
        /\ pump["up"] # "closed"
    BY <1>1, <1>2 DEF HostSend, TypeOK
  <2>2. \A d \in Directions : pump'[d] = "closed" => (WriterGone(d))' /\ in'[d] = <<>>
    BY <2>1 DEF Directions
  <2> QED BY <2>1, <2>2 DEF NoScalar
<1>3. CASE HostReceive \/ HostClose \/ HostKilled
  BY <1>1, <1>3 DEF HostReceive, HostClose, HostKilled, NoScalar
<1>4. ASSUME NEW f \in Frames, ServerWrites(f), server # "exited", server' # "exited",
             UNCHANGED <<pump, main, host, calm>>
      PROVE  Endings'
  <2>1. in'["up"] = in["up"] /\ pump["down"] # "closed"
    BY <1>1, <1>4 DEF ServerWrites, TypeOK
  <2>2. \A d \in Directions : pump'[d] = "closed" => (WriterGone(d))' /\ in'[d] = <<>>
    BY <1>4, <2>1 DEF Directions
  <2>3. NoScalar(written') => NoScalar(written)
    BY <1>1, <1>4, NoScalarAppended DEF ServerWrites, TypeOK
  <2> QED BY <1>4, <2>2, <2>3
<1>5. CASE ServerStart
  <2>1. CASE UNCHANGED <<in, written>>
    BY <1>1, <1>5, <2>1 DEF ServerStart, NoScalar
  <2>2. CASE \E k \in Noise : ServerWrites([kind |-> k, id |-> 0])
    <3>1. PICK k \in Noise : ServerWrites([kind |-> k, id |-> 0])
      BY <2>2
    <3>2. [kind |-> k, id |-> 0] \in Frames
      BY NoiseIsFrame
    <3> QED BY <1>4, <1>5, <3>1, <3>2 DEF ServerStart
  <2> QED BY <1>5, <2>1, <2>2 DEF ServerStart
<1>6. CASE ServerReply
  <2>1. [kind |-> "reply", id |-> reply] \in Frames
    BY <1>1, ReplyIsFrame
  <2> QED BY <1>4, <1>6, <2>1 DEF ServerReply
<1>7. CASE ServerTake \/ CatalogSilent
  BY <1>1, <1>7 DEF ServerTake, CatalogSilent, NoScalar
<1>8. CASE ServerEnd \/ ServerDies
  <2>1. UNCHANGED <<in, pump, main, host, written>> /\ server' = "exited" /\ (calm' => calm)
    BY <1>8 DEF ServerEnd, ServerDies
  <2>2. calm' => pump["up"] = "closed"
    BY <1>8 DEF ServerEnd, ServerDies
  <2>3. NoScalar(written') <=> NoScalar(written)
    BY <2>1 DEF NoScalar
  <2> QED BY <2>1, <2>2, <2>3
<1>9. ASSUME NEW d \in Directions, Pump(d) PROVE Endings'
  <2>1. UNCHANGED <<main, host, server, calm, written>>
    BY <1>9 DEF Pump, PumpRead, PumpRelay, PumpBreaks, PumpLog, PumpEnd
  <2>2. /\ \A e \in Directions : e # d => pump'[e] = pump[e] /\ in'[e] = in[e]
        /\ pump[d] \notin {"closed", "dead"}
    BY <1>1, <1>9 DEF Pump, PumpRead, PumpRelay, PumpBreaks, PumpLog, PumpEnd, TypeOK
  <2>3. pump'[d] = "closed" => (WriterGone(d))' /\ in'[d] = <<>>
    BY <1>1, <1>9, <2>1, <2>2 DEF Pump, PumpRead, PumpRelay, PumpBreaks, PumpLog, PumpEnd, TypeOK
  <2>4. d = "down" /\ calm /\ NoScalar(written) => pump'[d] # "dead"
    <3> SUFFICES ASSUME d = "down", calm, NoScalar(written) PROVE pump'[d] # "dead"
      OBVIOUS
    <3>1. ~PumpBreaks(d)
      BY DEF PumpBreaks, ReaderGone
    <3>2. CASE PumpLog(d)
      <4>1. Len(note[d]) = 1 /\ NoScalar(note[d]) /\ note[d] \in Seq(Frames)
        BY <1>1, <3>2 DEF TraceInv, Noted, Traced, PumpLog, Written, TypeOK
      <4>2. Summarised(Head(note[d]))
        BY <4>1 DEF NoScalar, Summarised
      <4> QED BY <1>1, <3>2, <4>2 DEF PumpLog, TypeOK
    <3> QED BY <1>1, <1>9, <3>1, <3>2 DEF Pump, PumpRead, PumpRelay, PumpEnd, TypeOK
  <2>5. NoScalar(written') <=> NoScalar(written)
    BY <2>1 DEF NoScalar
  <2>6. calm /\ server = "exited" => d = "down"
    BY <2>2 DEF Directions
  <2>7. calm /\ main \in {"leave", "exited"} => d = "up"
    BY <2>2 DEF Directions
  <2>8. \A e \in Directions : pump'[e] = "closed" => (WriterGone(e))' /\ in'[e] = <<>>
    <3>1. \A e \in Directions : WriterGone(e)' <=> WriterGone(e)
      BY <2>1
    <3> QED BY <2>2, <2>3, <3>1
  <2>9. calm' /\ server' = "exited" => pump'["up"] = "closed"
    BY <1>1, <2>1, <2>2, <2>6
  <2>10. calm' /\ NoScalar(written') => pump'["down"] # "dead"
    BY <1>1, <2>1, <2>2, <2>4, <2>5
  <2>11. calm' /\ main' \in {"leave", "exited"} => pump'["down"] \in {"closed", "dead"}
    BY <1>1, <2>1, <2>2, <2>7
  <2> QED BY <2>1, <2>8, <2>9, <2>10, <2>11
<1>10. CASE Main
  <2>1. UNCHANGED <<in, pump, host, server, written>>
    BY <1>10 DEF Main, MainWait, MainJoin, MainExit
  <2>2. main' # "wait" /\ server = "exited" /\ (calm' => calm)
    BY <1>1, <1>10 DEF Main, MainWait, MainJoin, MainExit, TypeOK
  <2>3. main' \in {"leave", "exited"} /\ calm' => Ended("down")
    BY <1>1, <1>10 DEF Main, MainWait, MainJoin, MainExit, TypeOK
  <2>4. NoScalar(written') <=> NoScalar(written)
    BY <2>1 DEF NoScalar
  <2> QED BY <2>1, <2>2, <2>3, <2>4
<1>11. CASE UNCHANGED vars
  BY <1>1, <1>11 DEF vars, NoScalar
<1> QED BY <1>2, <1>3, <1>5, <1>6, <1>7, <1>8, <1>9, <1>10, <1>11 DEF Next, Server

(* A trace whose proxy has left is whole, when nobody was killed and the   *)
(* down thread ended in time: though a frame is passed on before it is     *)
(* written down and the up thread is never joined, the server only ends    *)
(* once that thread has closed its input, and it does so after its last    *)
(* record.                                                                 *)
THEOREM ClosedTraceWhole ==
  ASSUME "scalar" \notin Noise
  PROVE  Spec => []ClosedTraceIsWhole
<1>1. Inv /\ TraceInv /\ NoneWritten /\ Endings => ClosedTraceIsWhole
  <2> SUFFICES ASSUME Inv, TraceInv, NoneWritten, Endings, main = "exited", calm,
                      NEW d \in Directions
               PROVE  log[d] = Loggable(Written(d))
    BY DEF ClosedTraceIsWhole
  <2>1. NoScalar(sent) /\ NoScalar(written)
    BY DEF NoneWritten
  <2>2. pump[d] = "closed"
    BY <2>1 DEF Endings, Ended, Directions
  <2>3. in[d] = <<>> /\ hand[d] = <<>> /\ note[d] = <<>> /\ log[d] \in Seq(Frames)
    BY <2>2 DEF Endings, Inv, Hands, TraceInv, Noted, TypeOK
  <2>4. Exact(d)
    BY <2>1 DEF TraceInv, Traced, Written
  <2>5. <<>> \o <<>> = <<>> /\ log[d] \o <<>> = log[d]
    BY <2>3
  <2> QED BY <2>3, <2>4, <2>5, LoggableOfNone DEF Exact
<1>2. Spec => [](Inv /\ TraceInv /\ NoneWritten /\ Endings)
  BY InitInv, NextInv, InitTrace, NextTrace, InitNone, NextNone, InitEndings, NextEndings,
     PTL DEF Spec
<1> QED BY <1>1, <1>2, PTL
=============================================================================
