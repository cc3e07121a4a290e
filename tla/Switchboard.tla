----------------------------- MODULE Switchboard -----------------------------
(***************************************************************************)
(* What the relay promises the browser and the shells: a registry with one *)
(* line per address, a mailbox per socket that is read in the order in     *)
(* which it was filled, and for every shell a place where one request      *)
(* waits until the shell calls in.  A call takes effect in one step,       *)
(* whatever else is going on: who was on the line before is sent off, the  *)
(* waiting request follows the acknowledgement and waits no more.          *)
(*                                                                         *)
(* Sockets that die unnoticed, the order in which the relay's writer task  *)
(* serves them, and the timers are not visible here; RelayRefinement says  *)
(* how Relay implements this module.                                       *)
(***************************************************************************)
EXTENDS Sequences

CONSTANTS
    Shells, Client,  \* the addresses that can call in
    Handles,         \* sockets
    Peer,            \* whose socket it is
    None,
    Letters,         \* the link messages that may be put into a mailbox
    Addressee(_),    \* the address through which a letter is reached
    Ack, Bye,        \* what a caller gets, and who is superseded by it
    ResetFor(_)      \* what a shell gets when a new browser tab calls in

VARIABLES
    phase,    \* "fresh", "on" once it has called in, "off"
    line,     \* the socket on the line of each address
    waiting,  \* the request that waits for each shell
    mailbox   \* what each socket is still to be sent

Init ==
    /\ phase = [h \in Handles |-> "fresh"]
    /\ line = [a \in Shells \union {Client} |-> None]
    /\ waiting = [s \in Shells |-> None]
    /\ mailbox = [h \in Handles |-> <<>>]

\* What socket g gets when h calls in.
Notices(h, g) ==
    LET a == Peer[h] IN
    IF g = h THEN IF a \in Shells /\ waiting[a] # None THEN <<Ack, waiting[a]>>
                                                        ELSE <<Ack>>
    ELSE IF g = line[a] THEN <<Bye>>
    ELSE IF a = Client /\ g = line[Peer[g]] THEN <<ResetFor(Peer[g])>>
    ELSE <<>>

\* A socket calls in once.
CallsIn(h) ==
    /\ phase[h] = "fresh"
    /\ phase' = [phase EXCEPT ![h] = "on"]
    /\ line' = [line EXCEPT ![Peer[h]] = h]
    /\ waiting' = [s \in Shells |-> IF Peer[h] \in {s, Client} THEN None
                                                               ELSE waiting[s]]
    /\ mailbox' = [g \in Handles |-> mailbox[g] \o Notices(h, g)]

\* It leaves the line, if it is still on one, to nobody.
HangsUp(h) ==
    /\ phase[h] # "off"
    /\ phase' = [phase EXCEPT ![h] = "off"]
    /\ line' = [a \in Shells \union {Client} |->
                   IF line[a] = h THEN None ELSE line[a]]
    /\ UNCHANGED <<waiting, mailbox>>

Posts(letter) ==
    LET h == line[Addressee(letter)] IN
    /\ h # None
    /\ mailbox' = [mailbox EXCEPT ![h] = Append(@, letter)]
    /\ UNCHANGED <<phase, line, waiting>>

\* Only for a shell that is not on the line, and not twice.
Waits(letter) ==
    LET s == Addressee(letter) IN
    /\ s \in Shells
    /\ line[s] = None
    /\ \A t \in Shells : waiting[t] # letter
    /\ waiting' = [waiting EXCEPT ![s] = letter]
    /\ UNCHANGED <<phase, line, mailbox>>

GivesUp(s) ==
    /\ waiting[s] # None
    /\ waiting' = [waiting EXCEPT ![s] = None]
    /\ UNCHANGED <<phase, line, mailbox>>

Collects(h) ==
    /\ mailbox[h] # <<>>
    /\ mailbox' = [mailbox EXCEPT ![h] = Tail(@)]
    /\ UNCHANGED <<phase, line, waiting>>

Next ==
    \/ \E h \in Handles : CallsIn(h) \/ HangsUp(h) \/ Collects(h)
    \/ \E letter \in Letters : Posts(letter) \/ Waits(letter)
    \/ \E s \in Shells : GivesUp(s)

Spec == Init /\ [][Next]_<<phase, line, waiting, mailbox>>
=============================================================================
