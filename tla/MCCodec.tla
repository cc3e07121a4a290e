------------------------------ MODULE MCCodec ------------------------------
(***************************************************************************)
(* The protocol's classes, a table of what Python's constructors do with a *)
(* few scalars, and packages near the valid ones, for TLC.  A scalar is    *)
(* named by its type and value: i5 is 5, s5 is "5", y5 is b"5".            *)
(***************************************************************************)
EXTENDS Codec, TLC

Protocol == INSTANCE ProtocolModel
MCClass == Protocol!ProtocolClasses
MCOrder == Protocol!ProtocolOrder

-----------------------------------------------------------------------------
(* Conversions.  A scalar that a table lacks makes the constructor raise;   *)
(* str never does.  dx has the keys and values of dict[int, bytes], d0 none, *)
(* and dy has others: dict takes them all.                                  *)

ofInt == "i0" :> "i0" @@ "i5" :> "i5" @@ "s5" :> "i5" @@ "y5" :> "i5"
         @@ "False" :> "i0" @@ "True" :> "i1" @@ "i1" :> "i1"
noText == "None" :> "sNone" @@ "False" :> "sFalse" @@ "True" :> "sTrue"
          @@ "i0" :> "s0" @@ "i1" :> "s1" @@ "i5" :> "s5"
          @@ "y" :> "sb''" @@ "y5" :> "sb'5'" @@ "y0" :> "sb'0'"
          @@ "y00000" :> "sb'00000'"
          @@ "d0" :> "s{}" @@ "dx" :> "s{x}" @@ "dy" :> "s{y}"
ofStr(s) == IF s \in DOMAIN noText THEN noText[s] ELSE s
ofBytes == "y" :> "y" @@ "y5" :> "y5" @@ "i0" :> "y" @@ "i1" :> "y0"
           @@ "y0" :> "y0" @@ "i5" :> "y00000" @@ "y00000" :> "y00000"
           @@ "False" :> "y" @@ "True" :> "y0" @@ "d0" :> "y"
ofDict == "d0" :> "d0" @@ "dx" :> "dx" @@ "dy" :> "dy"
          @@ "s" :> "d0" @@ "y" :> "d0"
ofLogType == "error" :> "error" @@ "log" :> "log"
ofTerminationType == "error" :> "error" @@ "success" :> "success"

falsy == {"False", "i0", "s", "y", "d0", "None"}

tableOf(type) == CASE type = "int" -> ofInt
                   [] type = "bytes" -> ofBytes
                   [] type = "dict[int, bytes]" -> ofDict
                   [] type = "LogType" -> ofLogType
                   [] type = "TerminationType" -> ofTerminationType

scalarOf(type, s) ==
    IF type = "bool" THEN Returns(Scalar(IF s \in falsy THEN "False" ELSE "True"))
    ELSE IF type = "str" THEN Returns(Scalar(ofStr(s)))
    ELSE IF s \in DOMAIN tableOf(type) THEN Returns(Scalar(tableOf(type)[s]))
    ELSE Raises

\* The lists in place of a scalar are empty or begin with a string that is
\* neither a byte nor a pair.
listOf(type, items) ==
    CASE type = "str" -> Returns(Scalar("s[]"))
      [] type = "bool" -> Returns(Scalar(IF items = <<>> THEN "False"
                                                         ELSE "True"))
      [] type = "bytes" /\ items = <<>> -> Returns(Scalar("y"))
      [] type = "dict[int, bytes]" /\ items = <<>> -> Returns(Scalar("d0"))
      [] OTHER -> Raises

MCConvert(type, data) == IF data.isList THEN listOf(type, data.items)
                                        ELSE scalarOf(type, data.scalar)

-----------------------------------------------------------------------------
(* Messages, one of each class, and the packages that differ from one in a  *)
(* place.                                                                   *)

client == Struct("ClientAddress", <<Scalar("i0")>>)
shell == Struct("ShellAddress", <<Scalar("i5")>>)
device == Struct("DeviceAddress", <<Scalar("sx")>>)
flash == Struct("RequestFlash", <<Scalar("sx"), Scalar("s")>>)
image == Struct("CommandFlash", <<Scalar("sx"), Scalar("dx"), Scalar("s")>>)

LinkMessage(class, values) == Struct(class, <<shell, device>> \o values)

MCOwnMessages == {
    Struct("MessageConnect", <<client>>),
    Struct("MessageConnectAck", <<>>),
    Struct("MessageDisconnect", <<>>),
    LinkMessage("MessageRequest", <<Scalar("True"), flash>>),
    LinkMessage("MessageRequest", <<Scalar("False"),
                 Struct("RequestTerm", <<Scalar("sx"), Scalar("sx")>>)>>),
    LinkMessage("MessageCommand", <<image>>),
    LinkMessage("MessageCommand", <<
                 Struct("CommandTerm", <<Scalar("sx"), Scalar("i5")>>)>>),
    LinkMessage("MessageACK", <<>>),
    LinkMessage("MessageReset", <<Scalar("error"), Scalar("sx")>>),
    LinkMessage("MessageLog", <<Scalar("log"), Scalar("sx")>>),
    LinkMessage("MessageIO", <<Scalar("y5")>>)}

tagged(name, items) == List(<<Plain(name)>> \o items)
clientData == tagged("client", <<Plain("i0")>>)
noId == tagged("client", <<>>)
deviceData == tagged("device", <<Plain("sx")>>)
flashData == tagged("flash", <<Plain("sx"), Plain("s")>>)
imageData == tagged("flash", <<Plain("sx"), Plain("dx"), Plain("s")>>)

Scalars == {Plain(s) : s \in {"None", "True", "False", "i0", "i5", "s", "s5",
                              "sx", "y", "y5", "d0", "dx", "dy", "error",
                              "log"}}

Nested == {List(<<>>), clientData, noId, deviceData, flashData, imageData,
           tagged("flash", <<Plain("sx"), Plain("dy"), Plain("s")>>),
           tagged("client", <<Plain("y5")>>), tagged("client", <<Plain("sx")>>),
           tagged("client", <<Plain("i0"), Plain("i5")>>),
           tagged("device", <<Plain("y5")>>), tagged("connect ACK", <<>>),
           tagged("term", <<Plain("sx"), Plain("s5")>>)}

Parts == {<<>>} \union {<<x>> : x \in Scalars}
         \union {<<Plain("True"), x>> : x \in Nested}
         \union {<<x>> : x \in Nested}

MCData ==
    LET tags == {Protocol!ProtocolClasses[name].tag : name \in DOMAIN MCClass}
        links == {tagged(t, <<clientData, deviceData>> \o part) :
                     t \in {"REQ", "CMD", "ACK", "RST", "LOG", "IO"},
                     part \in Parts}
        resets == {tagged("RST", <<x, deviceData, y, z>>) :
                      x \in Nested, y \in {Plain("error"), Plain("sx")},
                      z \in Scalars}
        connects == {tagged("connect", <<x>>) : x \in Nested \union Scalars}
    IN  {Plain(t) : t \in tags} \union Scalars \union Nested
          \union links \union resets \union connects

MCInstances(type) ==
    IF type = "bool" THEN {"True", "False"}
    ELSE IF type = "str"
      THEN {"s[]"} \union {ofStr(data.scalar) : data \in MCData}
    ELSE {tableOf(type)[s] : s \in DOMAIN tableOf(type)}
=============================================================================
