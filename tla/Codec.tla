-------------------------------- MODULE Codec --------------------------------
(***************************************************************************)
(* How messages become packages and packages messages again:               *)
(* utils/types/smart_struct.py (the registry of tagged structs),           *)
(* protocol/model/pkgable_struct.py (packing) and protocol/codec/codec.py. *)
(*                                                                         *)
(* First Python runs the class statements of protocol/model, each of which *)
(* registers its class in __init_subclass__.  Then messages travel: the    *)
(* relay decodes what a peer sends, encodes it again in write_protocol and *)
(* the peer at the other end decodes that.  A peer is this code, or the    *)
(* browser extension, which is not and may send anything.                  *)
(*                                                                         *)
(* cbor2 turns a package into bytes and back unchanged; it is left out.    *)
(***************************************************************************)
EXTENDS Naturals, Sequences

CONSTANTS
    Class,          \* the classes: a function from names to class records
    Order,          \* the names in the order in which Python defines them
    None,           \* Python's None; nothing given
    Convert(_, _),  \* expected_type(data) for the types that are no structs
    Instances(_),   \* the scalars of exactly the class of such a type, which
                    \* for dict[int, bytes] is dict
    Data,           \* what cbor2 may load
    OwnMessages     \* messages of this code

Names == DOMAIN Class
Tags == {Class[name].tag : name \in Names} \ {None}

\* The domain of a base class; None stands for TaggedSmartStruct.
DomainOf(base) == IF base = None THEN None ELSE Class[base].domain

\* A class record: `base` is the base class; `domain` the class itself if it
\* applies its base to a tag type, else the domain of the base; `tag` its tag;
\* `fields` all fields of the dataclass, inherited ones first.  The default of
\* a field is a sequence of at most one scalar.  Order has every class once,
\* after its base.
ASSUME ClassAssumption ==
    /\ None \notin Names
    /\ "Message" \in Names /\ Class["Message"].domain = "Message"
    /\ \A name \in Names :
           /\ Class[name].base \in Names \union {None}
           /\ Class[name].domain \in {name, DomainOf(Class[name].base)}
           /\ Class[name].domain \in Names \union {None}
           /\ DomainOf(Class[name].base) # None =>
                  Class[name].domain = DomainOf(Class[name].base)
           /\ Class[name].tag \in Tags \union {None}
           /\ Class[name].tag # None =>
                  Class[name].domain \notin {name, None}
           /\ Len(Class[name].fields) \in Nat
           /\ DOMAIN Class[name].fields = 1 .. Len(Class[name].fields)

\* Structs nest two deep: a field may be of a domain whose structs have scalar
\* fields (addresses, requests, commands).
ASSUME NestingAssumption ==
    \A name \in Names : \A i \in DOMAIN Class[name].fields :
        LET type == Class[name].fields[i].type IN
        type \in Names =>
            /\ Class[type].domain # None
            /\ \A inner \in Names :
                   Class[inner].domain = Class[type].domain =>
                       \A j \in DOMAIN Class[inner].fields :
                           Class[inner].fields[j].type \notin Names

ASSUME OrderAssumption ==
    /\ Order \in Seq(Names)
    /\ \A name \in Names :
           \E i \in DOMAIN Order :
               /\ Order[i] = name
               /\ \A j \in DOMAIN Order : Order[j] = name => j = i
               /\ Class[name].base # None =>
                      \E j \in 1 .. i - 1 : Order[j] = Class[name].base

-----------------------------------------------------------------------------
(* Python values, packages, outcomes. *)

\* A value is a struct, or a scalar (class None); an Enum is its value.
Struct(class, values) == [class |-> class, values |-> values]
Scalar(s) == Struct(None, <<s>>)

\* A package is a list; every other datum is plain.
List(items) == [isList |-> TRUE, items |-> items, scalar |-> None]
Plain(s) == [isList |-> FALSE, items |-> <<>>, scalar |-> s]

Returns(value) == [ok |-> TRUE, value |-> value]
Raises == [ok |-> FALSE, value |-> Scalar(None)]

FieldTypes == UNION {{Class[name].fields[i].type :
                         i \in DOMAIN Class[name].fields} : name \in Names}
ScalarTypes == FieldTypes \ Names

\* A constructor returns an instance of its class, if it does not raise, and
\* an instance as it is; a default is an instance.
ASSUME ConvertAssumption ==
    /\ \A type \in ScalarTypes, data \in Data :
           LET v == Convert(type, data) IN
           v.ok => /\ v = Returns(Scalar(v.value.values[1]))
                   /\ v.value.values[1] \in Instances(type)
    /\ \A type \in ScalarTypes : \A s \in Instances(type) :
           Convert(type, Plain(s)) = Returns(Scalar(s))
    /\ \A name \in Names : \A i \in DOMAIN Class[name].fields :
           LET field == Class[name].fields[i] IN
           field.default # <<>> =>
               /\ field.type \notin Names
               /\ field.default[1] \in Instances(field.type)

\* What a list contains can be loaded by itself.
ASSUME DataAssumption ==
    \A data \in Data : /\ data = IF data.isList THEN List(data.items)
                                                ELSE Plain(data.scalar)
                       /\ data.items \in Seq(Data)

-----------------------------------------------------------------------------
VARIABLES
    defined,   \* how many class statements have been run
    root,      \* the class whose _registry a class finds
    tag,       \* the _tag a class finds
    registry,  \* _registry of each domain root
    stage,     \* where the current message is
    meant,     \* the message a peer of this code wanted to send, or Nothing
    wire,      \* what a peer has sent to the relay
    relayed,   \* the outcome of the relay's decode
    passed,    \* what the relay has sent to the other peer
    received   \* the outcome of that peer's decode

classes == <<defined, root, tag, registry>>
travel == <<stage, meant, wire, relayed, passed, received>>
vars == <<classes, travel>>

Nothing == [class |-> None, values |-> <<>>]
NoData == Plain(None)

Init ==
    /\ defined = 0
    /\ root = [name \in Names |-> None]
    /\ tag = [name \in Names |-> None]
    /\ registry = [name \in Names |-> [t \in Tags |-> None]]
    /\ stage = "idle" /\ meant = Nothing
    /\ wire = NoData /\ relayed = Raises
    /\ passed = NoData /\ received = Raises

-----------------------------------------------------------------------------
(* __init_subclass__ *)

Defined(name) == \E i \in 1 .. defined : Order[i] = name
Imported == defined = Len(Order)
Defines(name) == /\ ~Imported
                 /\ name = Order[defined + 1]
                 /\ defined' = defined + 1
                 /\ UNCHANGED travel

\* Attribute lookup goes on in the base class.
Inherited(attribute, name) ==
    IF Class[name].base = None THEN None ELSE attribute[Class[name].base]

\* Mutant: infrastructure classes get a registry as well.
DefinesRoot_Always(name) ==
    /\ Defines(name)
    /\ Inherited(root, name) = None
    /\ root' = [root EXCEPT ![name] = name]
    /\ UNCHANGED <<tag, registry>>

\* No base has a registry: a class with a tag type is the root of a domain,
\* another is infrastructure.
DefinesRoot(name) ==
    /\ Defines(name)
    /\ Inherited(root, name) = None
    /\ root' = [root EXCEPT ![name] =
                    IF Class[name].domain = name THEN name ELSE None]
    /\ UNCHANGED <<tag, registry>>

\* A class of a domain without a tag of its own.
DefinesIntermediate(name) ==
    /\ Defines(name)
    /\ Inherited(root, name) # None
    /\ Class[name].tag = None
    /\ root' = [root EXCEPT ![name] = Inherited(root, name)]
    /\ tag' = [tag EXCEPT ![name] = Inherited(tag, name)]
    /\ UNCHANGED registry

\* Mutant: the tag is entered in the class's own registry.
DefinesFinal_OwnRegistry(name) ==
    /\ Defines(name)
    /\ Inherited(root, name) # None
    /\ Class[name].tag # None
    /\ root' = [root EXCEPT ![name] = name]
    /\ tag' = [tag EXCEPT ![name] = Class[name].tag]
    /\ registry' = [registry EXCEPT ![name] =
                       [@ EXCEPT ![Class[name].tag] = name]]

\* Mutant: all domains share one registry.
DefinesFinal_OneRegistry(name) ==
    /\ Defines(name)
    /\ Inherited(root, name) # None
    /\ Class[name].tag # None
    /\ root' = [root EXCEPT ![name] = Inherited(root, name)]
    /\ tag' = [tag EXCEPT ![name] = Class[name].tag]
    /\ registry' = [r \in Names |->
                       [registry[r] EXCEPT ![Class[name].tag] = name]]

\* A class with a tag.  A tag that is taken raises, and the import ends there.
DefinesFinal(name) ==
    LET r == Inherited(root, name) IN
    /\ Defines(name)
    /\ r # None
    /\ Class[name].tag # None
    /\ registry[r][Class[name].tag] = None
    /\ root' = [root EXCEPT ![name] = r]
    /\ tag' = [tag EXCEPT ![name] = Class[name].tag]
    /\ registry' = [registry EXCEPT ![r] =
                       [@ EXCEPT ![Class[name].tag] = name]]

-----------------------------------------------------------------------------
(* Packing.  Structs nest two deep; each level takes the one below as an     *)
(* argument.                                                                 *)

PackScalar(value) == Plain(value.values[1])

ToPackage(Pack(_), value) ==
    List(<<Plain(tag[value.class])>>
           \o [i \in DOMAIN value.values |-> Pack(value.values[i])])

\* Mutant: a nested struct is packed as its tag.
PackField_TagOnly(value) ==
    IF value.class = None THEN PackScalar(value)
                          ELSE List(<<Plain(tag[value.class])>>)

PackField(value) == IF value.class = None THEN PackScalar(value)
                                          ELSE ToPackage(PackScalar, value)

encode(message) == ToPackage(PackField, message)

-----------------------------------------------------------------------------
(* Unpacking. *)

\* The class a package names by its first item, or None.
Target(r, package) ==
    LET head == package.items[1] IN
    IF package.items # <<>> /\ ~head.isList /\ head.scalar \in Tags
      THEN registry[r][head.scalar] ELSE None

\* zip stops at the shorter of fields and items: surplus items are ignored,
\* and missing ones need a default.
Outcomes(Unpack(_, _), class, items) ==
    LET fields == Class[class].fields IN
    [i \in DOMAIN fields |->
        IF i < Len(items) THEN Unpack(fields[i].type, items[i + 1])
        ELSE IF fields[i].default # <<>>
          THEN Returns(Scalar(fields[i].default[1]))
        ELSE Raises]

Built(class, outcomes) ==
    IF \A i \in DOMAIN outcomes : outcomes[i].ok
      THEN Returns(Struct(class,
                          [i \in DOMAIN outcomes |-> outcomes[i].value]))
      ELSE Raises

FromPackage(Unpack(_, _), r, package) ==
    LET class == Target(r, package) IN
    IF class = None THEN Raises
                    ELSE Built(class, Outcomes(Unpack, class, package.items))

\* Mutant: a nested package is looked up in the registry of messages.
UnpackField_OneDomain(type, data) ==
    IF type \notin Names THEN Convert(type, data)
    ELSE IF data.isList THEN FromPackage(Convert, root["Message"], data)
    ELSE Raises

UnpackField(type, data) ==
    IF type \notin Names THEN Convert(type, data)
    ELSE IF data.isList THEN FromPackage(Convert, root[type], data)
    ELSE Raises

decode(data) == IF data.isList
                  THEN FromPackage(UnpackField, root["Message"], data)
                  ELSE Raises

-----------------------------------------------------------------------------
(* Types.  Python checks none of them when a struct is built.  Of what the   *)
(* class statements and annotations of protocol/model say, IsMessage has all *)
(* but the types of what is in a dict.                                       *)

IsScalar(type, value) == /\ type \in ScalarTypes
                         /\ value = Scalar(value.values[1])
                         /\ value.values[1] \in Instances(type)

IsStruct(IsField(_, _), domain, value) ==
    LET class == value.class
        fields == Class[class].fields
    IN  /\ class \in Names
        /\ Class[class].tag # None /\ Class[class].domain = domain
        /\ value = Struct(class, [i \in DOMAIN fields |-> value.values[i]])
        /\ \A i \in DOMAIN fields : IsField(fields[i].type, value.values[i])

IsFieldValue(type, value) ==
    IF type \in Names THEN IsStruct(IsScalar, Class[type].domain, value)
                      ELSE IsScalar(type, value)

IsMessage(message) == IsStruct(IsFieldValue, "Message", message)

ASSUME MessageAssumption == \A message \in OwnMessages : IsMessage(message)

-----------------------------------------------------------------------------
(* A message travels from one peer to the other. *)

Free == Imported /\ stage \in {"idle", "done"}

\* A peer that runs this code.
Sends(message) ==
    /\ Free
    /\ stage' = "sent"
    /\ meant' = message
    /\ wire' = encode(message)
    /\ relayed' = Raises /\ passed' = NoData /\ received' = Raises
    /\ UNCHANGED classes

\* The browser extension.
SendsAnything(data) ==
    /\ Free
    /\ stage' = "sent"
    /\ meant' = Nothing
    /\ wire' = data
    /\ relayed' = Raises /\ passed' = NoData /\ received' = Raises
    /\ UNCHANGED classes

\* The relay's handler of a message; an exception of decode ends it.
Relays ==
    /\ stage = "sent"
    /\ relayed' = decode(wire)
    /\ IF decode(wire).ok
         THEN stage' = "passed" /\ passed' = encode(decode(wire).value)
         ELSE stage' = "done" /\ UNCHANGED passed
    /\ UNCHANGED <<classes, meant, wire, received>>

Receives ==
    /\ stage = "passed"
    /\ stage' = "done"
    /\ received' = decode(passed)
    /\ UNCHANGED <<classes, meant, wire, relayed, passed>>

Next == \/ \E name \in Names : \/ DefinesRoot(name)
                                \/ DefinesIntermediate(name)
                                \/ DefinesFinal(name)
        \/ \E message \in OwnMessages : Sends(message)
        \/ \E data \in Data : SendsAnything(data)
        \/ Relays \/ Receives

Spec == Init /\ [][Next]_vars

-----------------------------------------------------------------------------
(* Properties. *)

\* A class that has been defined finds the registry of its domain, its tag if
\* it has one, and messages travel when all classes are there.
TypeOK ==
    /\ defined \in 0 .. Len(Order)
    /\ tag \in [Names -> Tags \union {None}]
    /\ registry \in [Names -> [Tags -> Names \union {None}]]
    /\ root = [name \in Names |->
                 IF Defined(name) THEN Class[name].domain ELSE None]
    /\ stage \in {"idle", "sent", "passed", "done"}
    /\ stage # "idle" => Imported

\* A registry has the defined classes of its domain with a tag, each under
\* the tag it writes into packages, and nothing else: requests and commands
\* have the same tags and do not mix, and no class takes over another's tag.
RegistryIsExact ==
    /\ \A r \in Names, t \in Tags :
           LET class == registry[r][t] IN
           class # None => /\ Class[class].domain = r /\ Class[class].tag = t
                           /\ tag[class] = t
    /\ \A name \in Names :
           Defined(name) /\ Class[name].tag # None =>
               registry[Class[name].domain][Class[name].tag] = name

\* A message of this code is what the relay decodes.
OwnMessagesArrive ==
    stage \in {"passed", "done"} /\ meant # Nothing => relayed = Returns(meant)

\* Whatever the relay accepts, even if it had to convert values, drop surplus
\* items or fill in defaults, is a struct of a tagged class of its domain with
\* all of its fields, nested structs of the field's domain included, and with
\* scalars of the annotations' classes (pkgable_struct.py:22-35, 67-79).  Of
\* dict[int, bytes] (message.py:88) that is dict: nobody looks at its contents.
AcceptedIsTyped == relayed.ok => IsMessage(relayed.value)

\* The other peer gets what the relay has decoded: re-encoding loses nothing,
\* and no decode fails that the relay's did not (a client's reader task does
\* not survive that).
RelayIsTransparent == stage = "done" => received = relayed
=============================================================================
