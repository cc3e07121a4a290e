---------------------------- MODULE ProtocolModel ----------------------------
(***************************************************************************)
(* The classes of protocol/model/message.py and protocol/model/address.py  *)
(* as class records of Codec.  The inherited fields of a class come first. *)
(***************************************************************************)
EXTENDS Sequences, TLC

\* class name(base[..], tag=tag): fields of the types, without defaults.
statement(base, domain, tag, types) ==
    [base |-> base, domain |-> domain, tag |-> tag,
     fields |-> [i \in DOMAIN types |-> [type |-> types[i], default |-> <<>>]]]

root(name) == statement("PkgableTaggedStruct", name, "None", <<>>)
abstract(base, domain) == statement(base, domain, "None", <<>>)

address(base, tag, types) == statement(base, "Address", tag, types)
request(tag) == statement("RequestBoardProject", "Request", tag, <<"str", "str">>)
command(tag, types) ==
    statement("CommandBoard", "Command", tag, <<"str">> \o types)
control(tag, types) == statement("Message", "Message", tag, types)
link(tag, types) ==
    statement("LinkMessage", "Message", tag, <<"Address", "Address">> \o types)

Addresses ==
    "Address" :> root("Address") @@
    "IDAddress" :> abstract("Address", "Address") @@
    "ClientAddress" :> [address("IDAddress", "client", <<"int">>)
                           EXCEPT !.fields[1].default = <<"i0">>] @@
    "ShellAddress" :> address("IDAddress", "shell", <<"int">>) @@
    "DeviceAddress" :> address("Address", "device", <<"str">>)

Requests ==
    "Request" :> root("Request") @@
    "RequestBoardProject" :> abstract("Request", "Request") @@
    "RequestFlash" :> request("flash") @@
    "RequestTerm" :> request("term")

Commands ==
    "Command" :> root("Command") @@
    "CommandBoard" :> abstract("Command", "Command") @@
    "CommandFlash" :> command("flash", <<"dict[int, bytes]", "str">>) @@
    "CommandTerm" :> command("term", <<"int">>)

ControlMessages ==
    "MessageConnect" :> control("connect", <<"Address">>) @@
    "MessageConnectAck" :> control("connect ACK", <<>>) @@
    "MessageDisconnect" :> control("disconnect", <<>>)

LinkMessages ==
    "MessageRequest" :> link("REQ", <<"bool", "Request">>) @@
    "MessageCommand" :> link("CMD", <<"Command">>) @@
    "MessageACK" :> link("ACK", <<>>) @@
    "MessageReset" :> link("RST", <<"TerminationType", "str">>) @@
    "MessageLog" :> link("LOG", <<"LogType", "str">>) @@
    "MessageIO" :> link("IO", <<"bytes">>)

Infrastructure ==
    "PkgableTaggedStruct" :> abstract("None", "None") @@
    "Message" :> root("Message") @@
    "LinkMessage" :> abstract("Message", "Message")

ProtocolClasses ==
    Infrastructure @@ Addresses @@ Requests @@ Commands @@ ControlMessages
        @@ LinkMessages

\* address.py is imported by message.py.
ProtocolOrder ==
    <<"PkgableTaggedStruct",
      "Address", "IDAddress", "ClientAddress", "ShellAddress", "DeviceAddress",
      "Message", "LinkMessage",
      "MessageConnect", "MessageConnectAck", "MessageDisconnect",
      "Request", "RequestBoardProject", "RequestFlash", "RequestTerm",
      "MessageRequest",
      "Command", "CommandBoard", "CommandFlash", "CommandTerm",
      "MessageCommand",
      "MessageACK", "MessageReset", "MessageLog", "MessageIO">>
=============================================================================
