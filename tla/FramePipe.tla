----------------------------- MODULE FramePipe -----------------------------
(***************************************************************************)
(* One direction of a stdio connection: the frames written and not yet     *)
(* read, in the order they were written.                                   *)
(***************************************************************************)
EXTENDS Sequences

CONSTANT Frames

VARIABLES queue, received      \* the frames in the pipe; those its reader has

Init == queue = <<>> /\ received = <<>>

Put(f) == queue' = Append(queue, f) /\ UNCHANGED received

Get ==
  /\ queue # <<>>
  /\ received' = Append(received, Head(queue))
  /\ queue' = Tail(queue)

Next == Get \/ \E f \in Frames : Put(f)

Spec == Init /\ [][Next]_<<queue, received>>
=============================================================================
