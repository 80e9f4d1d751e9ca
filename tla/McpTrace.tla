------------------------------ MODULE McpTrace ------------------------------
(***************************************************************************)
(* iceberg-mcp-hosts/mcp_trace.py between a CLI host and the stdio server  *)
(* servers/iceberg_mcp.py.  Two daemon threads relay a direction each,     *)
(* frame by frame: read, pass on, write down.  The main thread waits for   *)
(* the server, then for the down thread (with a time-out), records the     *)
(* exit and leaves.                                                        *)
(*                                                                         *)
(* The host is external: it writes frames, reads answers, may close its    *)
(* end, and may be killed (hosts.py: _run's time-out).  The server may die *)
(* at any moment, or wait for ever in a call to a catalog that says        *)
(* nothing: its catalog client has no time-out.                            *)
(***************************************************************************)
EXTENDS Integers, Sequences

CONSTANTS
  Kinds,        \* what the host may write
  Noise,        \* what the server may print on stdout while it starts
  Deaths,       \* may the host or the server be killed?
  PipeCap,      \* frames a pipe holds before a writer blocks
  MaxFrames     \* bound: frames the host writes

ASSUME TraceAssumption ==
  /\ Kinds \subseteq {"request", "notification", "blank", "garbage"}
  /\ Noise \subseteq {"blank", "garbage", "scalar"}
  /\ Deaths \in BOOLEAN
  /\ PipeCap \in Nat \ {0}
  /\ MaxFrames \in Nat

VARIABLES
  in, out,      \* per direction: the pipe into the proxy, the pipe out of it
  pump,         \* per direction: where its thread is
  hand, note,   \* per direction: the frame it has read and not passed on;
                \* the frame it has passed on and not written down
  log,          \* per direction: the trace file's records
  main,         \* the proxy's main thread
  host, server,
  reply,        \* the id the server is about to answer
  sent, got,    \* history: frames the host wrote, frames it received
  taken, written,   \* history: frames the server read, frames it wrote
  calm          \* history: nobody was killed and the join did not time out

vars == <<in, out, pump, hand, note, log, main, host, server, reply, sent,
          got, taken, written, calm>>

hosts_   == <<host, sent, got>>
servers_ == <<server, reply, taken, written>>

Directions == {"up", "down"}
(* A scalar is a line that is JSON but no object: a number, null, true. *)
FrameKinds == {"request", "notification", "blank", "garbage", "scalar", "reply"}
Frames == [kind : FrameKinds, id : 0..MaxFrames]

TypeOK ==
  /\ in \in [Directions -> Seq(Frames)] /\ out \in [Directions -> Seq(Frames)]
  /\ \A d \in Directions : Len(in[d]) <= PipeCap /\ Len(out[d]) <= PipeCap
  /\ pump \in [Directions -> {"read", "relay", "log", "closed", "dead"}]
  /\ hand \in [Directions -> Seq(Frames)] /\ note \in [Directions -> Seq(Frames)]
  /\ log \in [Directions -> Seq(Frames)]
  /\ main \in {"wait", "join", "leave", "exited"}
  /\ host \in {"open", "closed", "gone"}
  /\ server \in {"starting", "ready", "busy", "hung", "exited"}
  /\ reply \in 0..MaxFrames
  /\ sent \in Seq(Frames) /\ got \in Seq(Frames)
  /\ taken \in Seq(Frames) /\ written \in Seq(Frames)
  /\ calm \in BOOLEAN

Empty == [d \in Directions |-> <<>>]

Init ==
  /\ in = Empty /\ out = Empty
  /\ pump = [d \in Directions |-> "read"]
  /\ hand = Empty /\ note = Empty
  /\ log = Empty
  /\ main = "wait"
  /\ host = "open" /\ server = "starting"
  /\ reply = 0
  /\ sent = <<>> /\ got = <<>> /\ taken = <<>> /\ written = <<>>
  /\ calm = TRUE

Room(pipe) == Len(pipe) < PipeCap
Running == main # "exited"

-----------------------------------------------------------------------------
(***************************************************************************)
(* The host.                                                               *)
(***************************************************************************)
HostSend ==
  /\ host = "open" /\ Running
  /\ Len(sent) < MaxFrames /\ Room(in["up"])
  /\ \E k \in Kinds :
       LET f == [kind |-> k, id |-> Len(sent) + 1] IN
         /\ in' = [in EXCEPT !["up"] = Append(@, f)]
         /\ sent' = Append(sent, f)
  /\ UNCHANGED <<out, pump, hand, note, log, main, host, got, servers_, calm>>

HostReceive ==
  /\ host # "gone" /\ out["down"] # <<>>
  /\ got' = Append(got, Head(out["down"]))
  /\ out' = [out EXCEPT !["down"] = Tail(@)]
  /\ UNCHANGED <<in, pump, hand, note, log, main, host, sent, servers_, calm>>

(* It is done and closes the proxy's stdin; it still reads. *)
HostClose ==
  /\ host = "open"
  /\ host' = "closed"
  /\ UNCHANGED <<in, out, pump, hand, note, log, main, sent, got, servers_, calm>>

HostKilled ==
  /\ Deaths
  /\ host # "gone" /\ host' = "gone"
  /\ calm' = FALSE
  /\ UNCHANGED <<in, out, pump, hand, note, log, main, sent, got, servers_>>

-----------------------------------------------------------------------------
(***************************************************************************)
(* The server: one line at a time, an answer to every request, none to a   *)
(* notification, a blank line or a line that is not JSON; it ends when its *)
(* stdin does.                                                             *)
(***************************************************************************)
AlwaysWrites(f) ==        \* into a pipe without a limit
  /\ in' = [in EXCEPT !["down"] = Append(@, f)]
  /\ written' = Append(written, f)

ServerWrites(f) ==
  /\ Room(in["down"])
  /\ in' = [in EXCEPT !["down"] = Append(@, f)]
  /\ written' = Append(written, f)

ServerStart ==
  /\ server = "starting" /\ server' = "ready"
  /\ \/ UNCHANGED <<in, written>>
     \/ \E k \in Noise : ServerWrites([kind |-> k, id |-> 0])
  /\ UNCHANGED <<out, pump, hand, note, log, main, hosts_, reply, taken, calm>>

ServerTake ==
  /\ server = "ready" /\ out["up"] # <<>>
  /\ LET f == Head(out["up"]) IN
       /\ taken' = Append(taken, f)
       /\ \/ f.kind = "request" /\ server' = "busy" /\ reply' = f.id
          \/ f.kind # "request" /\ UNCHANGED <<server, reply>>
  /\ out' = [out EXCEPT !["up"] = Tail(@)]
  /\ UNCHANGED <<in, pump, hand, note, log, main, hosts_, written, calm>>

ServerReply ==
  /\ server = "busy" /\ server' = "ready"
  /\ ServerWrites([kind |-> "reply", id |-> reply])
  /\ UNCHANGED <<out, pump, hand, note, log, main, hosts_, reply, taken, calm>>

(* The catalog never answers the tool's request, and nothing gives up: the *)
(* server reads no more and ends only when it is killed.                   *)
CatalogSilent ==
  /\ server = "busy" /\ server' = "hung"
  /\ UNCHANGED <<in, out, pump, hand, note, log, main, hosts_, reply, taken,
                 written, calm>>

(* The up thread closed the server's stdin and nothing is left in it. *)
ServerEnd ==
  /\ server = "ready" /\ out["up"] = <<>> /\ pump["up"] = "closed"
  /\ server' = "exited"
  /\ UNCHANGED <<in, out, pump, hand, note, log, main, hosts_, reply, taken,
                 written, calm>>

ServerDies ==
  /\ Deaths
  /\ server # "exited" /\ server' = "exited"
  /\ calm' = FALSE
  /\ UNCHANGED <<in, out, pump, hand, note, log, main, hosts_, reply, taken,
                 written>>

-----------------------------------------------------------------------------
(***************************************************************************)
(* pump, once per direction.                                               *)
(***************************************************************************)
WriterGone(d) == IF d = "up" THEN host # "open" ELSE server = "exited"
ReaderGone(d) == IF d = "up" THEN server = "exited" ELSE host = "gone"

(* src.readline *)
PumpRead(d) ==
  /\ Running /\ pump[d] = "read" /\ in[d] # <<>>
  /\ hand' = [hand EXCEPT ![d] = <<Head(in[d])>>]
  /\ in' = [in EXCEPT ![d] = Tail(@)]
  /\ pump' = [pump EXCEPT ![d] = "relay"]
  /\ UNCHANGED <<out, note, log, main, hosts_, servers_, calm>>

(* Blank lines are skipped before they are passed on; and a blank line is  *)
(* written down like any other.                                            *)
SkipsBlank(d) ==
  /\ Running /\ pump[d] = "relay"
  /\ ~ReaderGone(d) /\ Room(out[d])
  /\ hand' = [hand EXCEPT ![d] = <<>>]
  /\ IF Head(hand[d]).kind = "blank"
     THEN pump' = [pump EXCEPT ![d] = "read"] /\ UNCHANGED <<out, note>>
     ELSE /\ pump' = [pump EXCEPT ![d] = "log"]
          /\ out' = [out EXCEPT ![d] = @ \o hand[d]]
          /\ note' = [note EXCEPT ![d] = hand[d]]
  /\ UNCHANGED <<in, log, main, hosts_, servers_, calm>>

LogsBlank(d) ==
  /\ Running /\ pump[d] = "relay"
  /\ ~ReaderGone(d) /\ Room(out[d])
  /\ out' = [out EXCEPT ![d] = @ \o hand[d]]
  /\ hand' = [hand EXCEPT ![d] = <<>>]
  /\ pump' = [pump EXCEPT ![d] = "log"] /\ note' = [note EXCEPT ![d] = hand[d]]
  /\ UNCHANGED <<in, log, main, hosts_, servers_, calm>>

(* dst.write and flush; a blank line is not written down. *)
PumpRelay(d) ==
  /\ Running /\ pump[d] = "relay"
  /\ ~ReaderGone(d) /\ Room(out[d])
  /\ out' = [out EXCEPT ![d] = @ \o hand[d]]
  /\ hand' = [hand EXCEPT ![d] = <<>>]
  /\ IF Head(hand[d]).kind = "blank"
     THEN pump' = [pump EXCEPT ![d] = "read"] /\ UNCHANGED note
     ELSE pump' = [pump EXCEPT ![d] = "log"] /\ note' = [note EXCEPT ![d] = hand[d]]
  /\ UNCHANGED <<in, log, main, hosts_, servers_, calm>>

(* BrokenPipeError, which nothing catches: the thread is gone and dst is   *)
(* not closed.                                                             *)
PumpBreaks(d) ==
  /\ Running /\ pump[d] = "relay" /\ ReaderGone(d)
  /\ pump' = [pump EXCEPT ![d] = "dead"]
  /\ UNCHANGED <<in, out, hand, note, log, main, hosts_, servers_, calm>>

(* summarise, or nonjson_bytes; then one line under the lock.  Of a scalar *)
(* summarise asks whether "method" is in it: TypeError, and the thread is  *)
(* gone.                                                                   *)
JsonOnly(f) == f.kind \notin {"scalar", "garbage"}   \* no ValueError branch

Summarised(f) == f.kind # "scalar"

PumpLog(d) ==
  /\ Running /\ pump[d] = "log"
  /\ IF Summarised(Head(note[d]))
     THEN /\ log' = [log EXCEPT ![d] = @ \o note[d]]
          /\ pump' = [pump EXCEPT ![d] = "read"]
     ELSE /\ pump' = [pump EXCEPT ![d] = "dead"]
          /\ UNCHANGED log
  /\ note' = [note EXCEPT ![d] = <<>>]
  /\ UNCHANGED <<in, out, hand, main, hosts_, servers_, calm>>

(* The thread returns and leaves dst open. *)
LeavesOpen(d) ==
  /\ Running /\ pump[d] = "read" /\ in[d] = <<>> /\ WriterGone(d)
  /\ pump' = [pump EXCEPT ![d] = "dead"]
  /\ UNCHANGED <<in, out, hand, note, log, main, hosts_, servers_, calm>>

(* End of file: dst.close() and the thread returns. *)
PumpEnd(d) ==
  /\ Running /\ pump[d] = "read" /\ in[d] = <<>> /\ WriterGone(d)
  /\ pump' = [pump EXCEPT ![d] = "closed"]
  /\ UNCHANGED <<in, out, hand, note, log, main, hosts_, servers_, calm>>

Pump(d) == PumpRead(d) \/ PumpRelay(d) \/ PumpBreaks(d) \/ PumpLog(d) \/ PumpEnd(d)

-----------------------------------------------------------------------------
(***************************************************************************)
(* main: child.wait, down.join(timeout=5), the exit record, sys.exit.      *)
(***************************************************************************)
MainWait ==
  /\ main = "wait" /\ server = "exited"
  /\ main' = "join"
  /\ UNCHANGED <<in, out, pump, hand, note, log, hosts_, servers_, calm>>

Ended(d) == pump[d] \in {"closed", "dead"}

(* The down thread is not joined. *)
NoJoin ==
  /\ main = "join"
  /\ main' = "leave"
  /\ UNCHANGED <<in, out, pump, hand, note, log, hosts_, servers_, calm>>

MainJoin ==
  /\ main = "join"
  /\ calm' = (calm /\ Ended("down"))       \* otherwise: five seconds are over
  /\ main' = "leave"
  /\ UNCHANGED <<in, out, pump, hand, note, log, hosts_, servers_>>

(* The daemon threads end with the process, wherever they are. *)
MainExit ==
  /\ main = "leave" /\ main' = "exited"
  /\ UNCHANGED <<in, out, pump, hand, note, log, hosts_, servers_, calm>>

-----------------------------------------------------------------------------
Main == MainWait \/ MainJoin \/ MainExit

Server == ServerStart \/ ServerTake \/ ServerReply \/ ServerEnd

Next ==
  \/ HostSend \/ HostReceive \/ HostClose \/ HostKilled
  \/ Server \/ CatalogSilent \/ ServerDies
  \/ \E d \in Directions : Pump(d)
  \/ Main

Spec == Init /\ [][Next]_vars

(* Every thread and process that can go on does; the host reads what it is *)
(* sent.  What it writes, and when it closes, is up to it; nobody has to   *)
(* be killed.  A server answers unless its catalog falls silent, which may *)
(* happen in any call and for good.                                        *)
FairSpec ==
  /\ Spec
  /\ WF_vars(HostReceive) /\ WF_vars(Server) /\ WF_vars(Main)
  /\ \A d \in Directions : WF_vars(Pump(d))

-----------------------------------------------------------------------------
(***************************************************************************)
(* Properties.                                                             *)
(***************************************************************************)
Queued(d) == out[d] \o hand[d] \o in[d]

ToServer == INSTANCE FramePipe WITH queue <- Queued("up"), received <- taken
ToHost   == INSTANCE FramePipe WITH queue <- Queued("down"), received <- got

(* Each direction is a plain pipe with the proxy in it or not: no frame is *)
(* lost, repeated, reordered or made up ("the host talks to this, this     *)
(* talks to the server, and neither notices", mcp_trace.py).               *)
NeitherNotices == ToServer!Spec /\ ToHost!Spec

Written(d)  == IF d = "up" THEN sent ELSE written

(* What is to be written down of a sequence of frames, or of its first n.  *)
LoggablePrefixes(s) ==
  LET first[n \in 0..Len(s)] ==
        IF n = 0 THEN <<>>
        ELSE IF s[n].kind = "blank" THEN first[n - 1]
        ELSE Append(first[n - 1], s[n])
  IN first

Loggable(s) == LoggablePrefixes(s)[Len(s)]

(* The trace is exact while the proxy runs: it holds the frames written in *)
(* each direction, once and in order, but for the one being written down   *)
(* and those not passed on yet ("write down every frame").                 *)
TraceIsExact ==
  \A d \in Directions :
    log[d] \o note[d] \o Loggable(hand[d] \o in[d]) = Loggable(Written(d))

(* When nobody was killed and the down thread ended in time, a trace is    *)
(* whole by the time the proxy has left: the calls the host made and the   *)
(* answers it got are all in it, though a frame is passed on before it is  *)
(* written down and the up thread is never joined.                         *)
ClosedTraceIsWhole ==
  main = "exited" /\ calm =>
    \A d \in Directions : log[d] = Loggable(Written(d))

(* The server waits for a catalog that will never answer. *)
Hung == server = "hung"

(* Every request is answered to the host unless something was killed, a    *)
(* time-out cut the connection or the catalog fell silent under a call     *)
(* (catalog() gives its client no time-out): the proxy never swallows     *)
(* an answer.                                                              *)
Answered ==
  \A n \in 1..MaxFrames :
    (Len(sent) >= n /\ sent[n].kind = "request") ~>
      \/ ~calm \/ Hung
      \/ \E i \in 1..Len(got) : got[i] = [kind |-> "reply", id |-> n]

(* The server is writing an answer into a full pipe that the down thread,  *)
(* gone with the host, will never read.                                    *)
Wedged == server = "busy" /\ ~Room(in["down"]) /\ pump["down"] = "dead"

(* A proxy whose host or server has gone does not stay behind (both        *)
(* threads are daemons, up closes the server's stdin, only down is joined, *)
(* and with a time-out), but in two cases that hold child.wait, which has  *)
(* no time-out, for ever: the server wedged on a full pipe, or hung on a   *)
(* silent catalog.                                                         *)
ProxyEnds ==
  (host # "open" \/ server = "exited") ~> (main = "exited" \/ Wedged \/ Hung)
=============================================================================
