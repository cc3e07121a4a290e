----------------------------- MODULE FrameQueue -----------------------------
(***************************************************************************)
(* What a MUXFDIO at each end of a pty promises the stub and the shell     *)
(* proxy: a queue.  What is handed to write_channel on channels that have  *)
(* a callback comes out unchanged, in order, one message per call; the end *)
(* of the pty comes last, and all that may be missing then is the message  *)
(* in the middle of which its sender was stopped.                          *)
(*                                                                         *)
(* Text, the delimiter, channels without a callback, the pty's size and    *)
(* the cuts of os.write and os.read are not visible here; MuxRefinement    *)
(* says how MuxFDIO implements this module.                                *)
(***************************************************************************)
EXTENDS Naturals, Sequences

CONSTANT Messages

VARIABLES
    sent,      \* in the order of the calls of write_channel
    received,  \* in the order of the callbacks
    sender,    \* "there", "gone", or "stopped" in the middle of a write
    over       \* the receiver has read the end of the pty

Init ==
    /\ sent = <<>> /\ received = <<>>
    /\ sender = "there"
    /\ over = FALSE

Sends(message) ==
    /\ sender = "there"
    /\ sent' = Append(sent, message)
    /\ UNCHANGED <<received, sender, over>>

Leaves ==
    /\ sender = "there"
    /\ sender' \in {"gone", "stopped"}
    /\ UNCHANGED <<sent, received, over>>

Delivers ==
    /\ ~over
    /\ Len(received) < Len(sent)
    /\ received' = Append(received, sent[Len(received) + 1])
    /\ UNCHANGED <<sent, sender, over>>

Ends ==
    /\ ~over
    /\ \/ sender = "gone" /\ Len(sent) = Len(received)
       \/ sender = "stopped" /\ Len(sent) <= Len(received) + 1
    /\ over' = TRUE
    /\ UNCHANGED <<sent, received, sender>>

Next ==
    \/ \E message \in Messages : Sends(message)
    \/ Leaves
    \/ Delivers
    \/ Ends

Spec == Init /\ [][Next]_<<sent, received, sender, over>>
=============================================================================
