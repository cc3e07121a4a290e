--------------------------- MODULE RelayRefinement ---------------------------
(* Relay implements Switchboard. *)
EXTENDS Relay

\* A socket is off when its handler is over or its peer has said Disconnect;
\* that the connection is lost shows only when the handler ends.
Phase(h) == IF socket[h] = "gone" \/ said[h] = "disconnect" THEN "off"
            ELSE IF said[h] = "connect" THEN "on"
            ELSE "fresh"

\* Link messages of peers between the two sides, and resets in answer to them.
Mail == LET legal == {m \in Traffic : LegalPair(m)} IN
        legal \union {Reset(m.to, m.from) : m \in legal}

Recipient(m) == NextHop(m.to)
ShellReset(s) == Reset(Client, s)

Board == INSTANCE Switchboard
         WITH phase <- [h \in Handles |-> Phase(h)],
              line <- connections,
              waiting <- requestedShells,
              mailbox <- scheduledWrites,
              Letters <- Mail,
              Addressee <- Recipient,
              Ack <- ConnectAck,
              Bye <- Disconnect,
              ResetFor <- ShellReset

\* Whatever sockets, handlers, timers and the writer do to each other, peers
\* see the switchboard: registration, superseding and the hand-over of a
\* staged request are one step, a late close frees no line but its own, and
\* no message is lost, doubled or overtaken between relay.py's write calls and
\* the writer task.
ImplementsSwitchboard == Board!Spec
=============================================================================
