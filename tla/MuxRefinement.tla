---------------------------- MODULE MuxRefinement ----------------------------
(* MuxFDIO implements FrameQueue. *)
EXTENDS MuxFDIO

\* The writing process is stopped in a write, or ends between two.
Sender == IF open THEN "there"
          ELSE IF written < Len(stream) THEN "stopped"
          ELSE "gone"

Queue == INSTANCE FrameQueue
         WITH Messages <- [channel : Registered, data : Payloads],
              sent     <- Expected,
              received <- channel_input,
              sender   <- Sender,
              over     <- eof # "no"

\* Whatever text runs through the pty with them and however the kernel cuts
\* it, frames are a queue between write_channel and the callbacks of
\* __on_raw_fdin__: nothing comes twice, early, out of turn or after the end,
\* and when AsyncFDReader reads the end no complete frame is outstanding.
ImplementsQueue == Queue!Spec
=============================================================================
