----------------------------- MODULE FrameFifo ------------------------------
(***************************************************************************)
(* What a frame ring of the EMAC promises its user, stated without          *)
(* descriptors or indices: a bounded FIFO of frames.  A frame that arrives  *)
(* while Cap frames are held is dropped (the hardware's overrun / "no      *)
(* descriptor" case); otherwise it is appended.  Frames leave in arrival    *)
(* order, each exactly once.  Frames are numbered 1, 2, ... in order of     *)
(* arrival, so the history of delivered frames shows loss, repetition and   *)
(* reordering.                                                             *)
(***************************************************************************)
EXTENDS Naturals, Sequences

CONSTANTS
  Cap,        \* the number of frames the ring can hold at once
  MaxFrames   \* bound on the frames that arrive in one behaviour

VARIABLES
  queue,      \* frames held, oldest first
  delivered,  \* frames handed to the user, in hand-over order
  arrived     \* number of frames that have arrived (held or dropped)

vars == <<queue, delivered, arrived>>

Init ==
  /\ queue = <<>>
  /\ delivered = <<>>
  /\ arrived = 0

\* A frame arrives; it is kept unless the FIFO is full.
Arrive ==
  /\ arrived < MaxFrames
  /\ arrived' = arrived + 1
  /\ queue' = IF Len(queue) < Cap THEN Append(queue, arrived + 1) ELSE queue
  /\ UNCHANGED delivered

\* The oldest frame is handed over and its place is freed.
Deliver ==
  /\ queue # <<>>
  /\ delivered' = Append(delivered, Head(queue))
  /\ queue' = Tail(queue)
  /\ UNCHANGED arrived

Next == Arrive \/ Deliver

Spec == Init /\ [][Next]_vars /\ WF_vars(Deliver)
=============================================================================
