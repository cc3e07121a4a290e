----------------------------- MODULE CodecProofs -----------------------------
(***************************************************************************)
(* Theorems about Codec, for every table of classes, every table of        *)
(* conversions and all data that satisfy the assumptions: first the class  *)
(* statements build exact registries, then unpacking returns what was      *)
(* packed, and nothing but complete structs of the right classes.          *)
(***************************************************************************)
EXTENDS Codec, TLAPS

-----------------------------------------------------------------------------
(* The class statements. *)

\* The class that is defined next was not defined before; its base was.
LEMMA NextClass ==
    ASSUME TypeOK, NEW name \in Names, Defines(name)
    PROVE  /\ defined' = defined + 1 /\ defined' \in 0 .. Len(Order)
           /\ ~Defined(name)
           /\ \A n \in Names : Defined(n)' <=> Defined(n) \/ n = name
           /\ Class[name].base # None => Defined(Class[name].base)
<1> DEFINE k == defined + 1
           last == Len(Order)
<1>1. /\ DOMAIN Order = 1 .. last /\ last \in Nat
      /\ defined \in 0 .. last /\ defined # last
  BY OrderAssumption DEF TypeOK, Defines, Imported
<1>2. name = Order[k] /\ defined' = k
  BY DEF Defines
<1> HIDE DEF last
<1>0. k \in DOMAIN Order /\ k \in 0 .. last /\ defined \in Nat
  BY <1>1
<1>3. \A j \in DOMAIN Order : Order[j] = name => j = k
  BY <1>0, <1>2, OrderAssumption
<1>4. \A j \in 1 .. defined : j \in DOMAIN Order /\ j # k
  BY <1>1
<1>5. ~Defined(name)
  BY <1>3, <1>4 DEF Defined
<1>6. ASSUME NEW n \in Names PROVE Defined(n)' <=> Defined(n) \/ n = name
  <2>1. Defined(n)' <=> \E j \in 1 .. k : Order[j] = n
    BY <1>2 DEF Defined
  <2>2. \A j : j \in 1 .. k <=> j \in 1 .. defined \/ j = k
    BY <1>1
  <2>3. Order[k] = name
    BY <1>2
  <2> HIDE DEF k
  <2> QED BY <2>1, <2>2, <2>3 DEF Defined
<1>7. ASSUME Class[name].base # None
      PROVE  Defined(Class[name].base)
  <2>1. PICK i \in DOMAIN Order :
            /\ Order[i] = name
            /\ \E j \in 1 .. i - 1 : Order[j] = Class[name].base
    BY <1>7, OrderAssumption
  <2>2. i = k
    BY <2>1, <1>3
  <2>3. \E j \in 1 .. defined : Order[j] = Class[name].base
    BY <2>1, <2>2, <1>0
  <2> QED BY <2>3 DEF Defined
<1>8. defined' = defined + 1 /\ defined' \in 0 .. Len(Order)
  BY <1>0, <1>2 DEF last
<1> QED BY <1>5, <1>6, <1>7, <1>8

USE ClassAssumption

\* A class finds the registry that the base found, and the registry a class
\* finds is that of its domain.
LEMMA InheritedRoot ==
    ASSUME TypeOK, NEW name \in Names,
           Class[name].base # None => Defined(Class[name].base)
    PROVE  Inherited(root, name) = DomainOf(Class[name].base)
<1>1. Class[name].base \in Names \union {None}
  OBVIOUS
<1> QED BY <1>1 DEF Inherited, DomainOf, TypeOK

LEMMA DomainsDefined ==
    ASSUME TypeOK, NEW name \in Names, Defines(name),
           root' = [root EXCEPT ![name] = Class[name].domain]
    PROVE  root' = [n \in Names |->
                       IF Defined(n)' THEN Class[n].domain ELSE None]
<1>1. \A n \in Names : Defined(n)' <=> Defined(n) \/ n = name
  BY NextClass
<1> QED BY <1>1 DEF TypeOK

LEMMA DefinesKeepsTypes ==
    ASSUME TypeOK, NEW name \in Names, Defines(name),
           root' = [root EXCEPT ![name] = Class[name].domain],
           tag' \in [Names -> Tags \union {None}],
           registry' \in [Names -> [Tags -> Names \union {None}]]
    PROVE  TypeOK'
<1>1. defined' \in 0 .. Len(Order)
  BY NextClass
<1>2. stage = "idle" /\ stage' = stage
  BY DEF Defines, TypeOK, travel
<1> QED BY <1>1, <1>2, DomainsDefined DEF TypeOK

LEMMA DefinesRootKeeps ==
    ASSUME TypeOK, RegistryIsExact, NEW name \in Names, DefinesRoot(name)
    PROVE  TypeOK' /\ RegistryIsExact'
<1>1. Defines(name)
  BY DEF DefinesRoot
<1>2. Class[name].base # None => Defined(Class[name].base)
  BY <1>1, NextClass
<1>3. DomainOf(Class[name].base) = None
  BY <1>2, InheritedRoot DEF DefinesRoot
<1>4. Class[name].domain \in {name, None}
  BY <1>3
<1>5. root' = [root EXCEPT ![name] = Class[name].domain]
  BY <1>4 DEF DefinesRoot
<1>6. tag' = tag /\ registry' = registry
  BY DEF DefinesRoot
<1>7. TypeOK'
  BY <1>1, <1>5, <1>6, DefinesKeepsTypes DEF TypeOK
<1>8. Class[name].tag = None
  BY <1>4
<1>9. \A n \in Names : Class[n].tag # None => (Defined(n)' <=> Defined(n))
  BY <1>1, <1>8, NextClass
<1>10. RegistryIsExact'
  BY <1>6, <1>9 DEF RegistryIsExact
<1> QED BY <1>7, <1>10

LEMMA DefinesIntermediateKeeps ==
    ASSUME TypeOK, RegistryIsExact, NEW name \in Names,
           DefinesIntermediate(name)
    PROVE  TypeOK' /\ RegistryIsExact'
<1>1. Defines(name) /\ Class[name].tag = None
  BY DEF DefinesIntermediate
<1>2. Class[name].base # None => Defined(Class[name].base)
  BY <1>1, NextClass
<1>3. Inherited(root, name) = Class[name].domain
  BY <1>2, InheritedRoot DEF DefinesIntermediate
<1>4. root' = [root EXCEPT ![name] = Class[name].domain]
  BY <1>3 DEF DefinesIntermediate
<1>5. registry' = registry /\ tag' = [tag EXCEPT ![name] = Inherited(tag, name)]
  BY DEF DefinesIntermediate
<1>6. Class[name].base \in Names \union {None}
  OBVIOUS
<1>7. tag' \in [Names -> Tags \union {None}]
  BY <1>5, <1>6 DEF TypeOK, Inherited
<1>8. TypeOK'
  BY <1>1, <1>4, <1>5, <1>7, DefinesKeepsTypes DEF TypeOK
<1>9. \A n \in Names : Class[n].tag # None =>
          /\ Defined(n)' <=> Defined(n)
          /\ tag'[n] = tag[n]
  BY <1>1, <1>5, NextClass
<1>10. \A t \in Tags : t # None
  BY DEF Tags
<1>11. \A r \in Names, t \in Tags : registry[r][t] \in Names \union {None}
  BY DEF TypeOK
<1>12. RegistryIsExact'
  BY <1>5, <1>9, <1>10, <1>11 DEF RegistryIsExact
<1> QED BY <1>8, <1>12

LEMMA DefinesFinalKeeps ==
    ASSUME TypeOK, RegistryIsExact, NEW name \in Names, DefinesFinal(name)
    PROVE  TypeOK' /\ RegistryIsExact'
<1> DEFINE r == Class[name].domain
           t == Class[name].tag
<1>1. Defines(name) /\ t # None
  BY DEF DefinesFinal
<1>2. Class[name].base # None => Defined(Class[name].base)
  BY <1>1, NextClass
<1>3. Inherited(root, name) = r
  BY <1>2, InheritedRoot DEF DefinesFinal
<1>4. t \in Tags
  BY <1>1
<1>5. Class[name].base \in Names \union {None}
  OBVIOUS
<1>6. r \in Names /\ r # None
  BY <1>1
<1>7. root' = [root EXCEPT ![name] = r]
  BY <1>3 DEF DefinesFinal
<1>8. /\ registry' = [registry EXCEPT ![r] = [@ EXCEPT ![t] = name]]
      /\ registry[r][t] = None
      /\ tag' = [tag EXCEPT ![name] = t]
  BY <1>3 DEF DefinesFinal
<1>9. registry' \in [Names -> [Tags -> Names \union {None}]]
  BY <1>8 DEF TypeOK
<1>10. tag' \in [Names -> Tags \union {None}]
  BY <1>4, <1>8 DEF TypeOK
<1>11. TypeOK'
  BY <1>1, <1>7, <1>9, <1>10, DefinesKeepsTypes
<1>12. ASSUME NEW q \in Names, NEW u \in Tags
       PROVE  registry'[q][u] = IF q = r /\ u = t THEN name ELSE registry[q][u]
  BY <1>4, <1>6, <1>8 DEF TypeOK
<1>13. ASSUME NEW q \in Names, NEW u \in Tags, registry'[q][u] # None
       PROVE  /\ Class[registry'[q][u]].domain = q
              /\ Class[registry'[q][u]].tag = u
              /\ tag'[registry'[q][u]] = u
  <2>1. CASE q = r /\ u = t
    BY <2>1, <1>8, <1>12 DEF TypeOK
  <2>2. CASE ~(q = r /\ u = t)
    <3>1. registry'[q][u] = registry[q][u] /\ registry[q][u] \in Names
      BY <2>2, <1>12, <1>13 DEF TypeOK
    <3>2. /\ Class[registry[q][u]].domain = q /\ Class[registry[q][u]].tag = u
          /\ tag[registry[q][u]] = u
      BY <3>1, <1>13 DEF RegistryIsExact
    <3>3. registry[q][u] # name
      BY <2>2, <3>2
    <3> QED BY <1>8, <3>1, <3>2, <3>3 DEF TypeOK
  <2> QED BY <2>1, <2>2
<1>14. ASSUME NEW n \in Names, Defined(n)', Class[n].tag # None
       PROVE  registry'[Class[n].domain][Class[n].tag] = n
  <2>1. Class[n].domain \in Names /\ Class[n].tag \in Tags
    BY <1>14
  <2>2. CASE n = name
    BY <2>1, <2>2, <1>12
  <2>3. CASE n # name
    <3>1. Defined(n)
      BY <2>3, <1>1, <1>14, NextClass
    <3>2. registry[Class[n].domain][Class[n].tag] = n
      BY <3>1, <1>14 DEF RegistryIsExact
    <3>3. n # None
      OBVIOUS
    <3>4. ~(Class[n].domain = r /\ Class[n].tag = t)
      BY <3>2, <3>3, <1>8
    <3> QED BY <2>1, <3>2, <3>4, <1>12
  <2> QED BY <2>2, <2>3
<1>15. RegistryIsExact'
  BY <1>13, <1>14 DEF RegistryIsExact
<1> QED BY <1>11, <1>15

-----------------------------------------------------------------------------
(* Registries when the import has ended. *)

LEMMA AllDefined ==
    ASSUME TypeOK, Imported
    PROVE  \A name \in Names : Defined(name) /\ root[name] = Class[name].domain
<1>1. DOMAIN Order = 1 .. defined
  BY OrderAssumption DEF Imported
<1>2. \A name \in Names : Defined(name)
  BY <1>1, OrderAssumption DEF Defined
<1> QED BY <1>2 DEF TypeOK

LEMMA TaggedClass ==
    ASSUME TypeOK, RegistryIsExact, Imported,
           NEW class \in Names, Class[class].tag # None
    PROVE  /\ Class[class].domain \in Names
           /\ Class[class].tag \in Tags
           /\ tag[class] = Class[class].tag
           /\ registry[Class[class].domain][Class[class].tag] = class
<1>1. Class[class].domain \in Names /\ Class[class].tag \in Tags
  OBVIOUS
<1>2. registry[Class[class].domain][Class[class].tag] = class
  BY AllDefined DEF RegistryIsExact
<1>3. tag[class] = Class[class].tag
  BY <1>1, <1>2 DEF RegistryIsExact
<1> QED BY <1>1, <1>2, <1>3

\* The class that a package names is one of the registry's domain.
LEMMA TargetIsTyped ==
    ASSUME TypeOK, RegistryIsExact, NEW r \in Names, NEW package,
           Target(r, package) # None
    PROVE  /\ Target(r, package) \in Names
           /\ Class[Target(r, package)].tag # None
           /\ Class[Target(r, package)].domain = r
<1> DEFINE t == package.items[1].scalar
<1>1. t \in Tags /\ Target(r, package) = registry[r][t]
  BY DEF Target
<1>2. t # None
  BY <1>1 DEF Tags
<1> HIDE DEF t
<1>4. registry[r][t] \in Names
  BY <1>1 DEF TypeOK
<1>3. Class[registry[r][t]].domain = r /\ Class[registry[r][t]].tag = t
  BY <1>1, <1>4, ClassAssumption DEF RegistryIsExact
<1> QED BY <1>1, <1>2, <1>3, <1>4

-----------------------------------------------------------------------------
(* What is packed is unpacked. *)

\* A package: the tag, and the packed fields.
LEMMA PackageItems ==
    ASSUME NEW head, NEW n \in Nat, NEW rest, rest = [i \in 1 .. n |-> rest[i]]
    PROVE  LET items == <<head>> \o rest IN
           /\ items # <<>> /\ Len(items) = n + 1 /\ items[1] = head
           /\ \A i \in 1 .. n : items[i + 1] = rest[i]
<1> DEFINE S == {rest[i] : i \in 1 .. n} \union {head}
           items == <<head>> \o rest
<1>1. rest \in [1 .. n -> S]
  OBVIOUS
<1>2. rest \in Seq(S) /\ Len(rest) = n
  BY <1>1
<1>3. <<head>> \in Seq(S) /\ Len(<<head>>) = 1
  OBVIOUS
<1>4. items \in Seq(S) /\ Len(items) = n + 1
  BY <1>2, <1>3
<1>5. items[1] = head /\ \A i \in 1 .. n : items[i + 1] = rest[i]
  BY <1>2, <1>3
<1>6. items # <<>>
  BY <1>4
<1> QED BY <1>4, <1>5, <1>6

\* A package that names a class of the domain is for that class.
LEMMA TargetOfPackage ==
    ASSUME TypeOK, RegistryIsExact, Imported,
           NEW class \in Names, Class[class].tag # None,
           NEW items, items # <<>>, items[1] = Plain(tag[class])
    PROVE  Target(Class[class].domain, List(items)) = class
<1>1. /\ tag[class] = Class[class].tag /\ Class[class].tag \in Tags
      /\ registry[Class[class].domain][Class[class].tag] = class
  BY TaggedClass
<1> QED BY <1>1 DEF Target, List, Plain

\* A struct is built from what its fields have been unpacked to.
LEMMA StructBuilt ==
    ASSUME NEW class, NEW S, NEW values, NEW outcomes,
           DOMAIN outcomes = S, \A i \in S : outcomes[i] = Returns(values[i])
    PROVE  Built(class, outcomes)
             = Returns(Struct(class, [i \in S |-> values[i]]))
<1>1. \A v : Returns(v).ok /\ Returns(v).value = v
  BY Zenon DEF Returns
<1>2. \A i \in S : outcomes[i].ok /\ outcomes[i].value = values[i]
  BY <1>1, Zenon
<1>3. [i \in DOMAIN outcomes |-> outcomes[i].value] = [i \in S |-> values[i]]
  BY <1>2
<1> QED BY <1>2, <1>3, Zenon DEF Built

\* A scalar of the right class.
LEMMA ScalarRoundTrip ==
    ASSUME NEW type, NEW value, IsScalar(type, value)
    PROVE  Convert(type, PackScalar(value)) = Returns(value)
BY ConvertAssumption DEF IsScalar, PackScalar

\* An address, request or command.
LEMMA NestedRoundTrip ==
    ASSUME TypeOK, RegistryIsExact, Imported, NEW type \in Names, NEW value,
           IsFieldValue(type, value)
    PROVE  UnpackField(type, PackField(value)) = Returns(value)
<1> DEFINE class == value.class
           fields == Class[class].fields
           n == Len(fields)
           rest == [i \in 1 .. n |-> PackScalar(value.values[i])]
           items == <<Plain(tag[class])>> \o rest
<1>1. /\ class \in Names /\ class # None
      /\ Class[class].tag # None /\ Class[class].domain = Class[type].domain
      /\ value = Struct(class, [i \in DOMAIN fields |-> value.values[i]])
      /\ \A i \in DOMAIN fields : IsScalar(fields[i].type, value.values[i])
  BY DEF IsFieldValue, IsStruct
<1>2. DOMAIN fields = 1 .. n /\ n \in Nat
  BY <1>1
<1>3. value.values = [i \in 1 .. n |-> value.values[i]]
  BY <1>1, <1>2 DEF Struct
<1>4. PackField(value) = List(items)
  BY <1>1, <1>3 DEF PackField, ToPackage
<1>5. rest = [i \in 1 .. n |-> rest[i]]
  OBVIOUS
<1>6. /\ items # <<>> /\ Len(items) = n + 1 /\ items[1] = Plain(tag[class])
      /\ \A i \in 1 .. n : items[i + 1] = PackScalar(value.values[i])
  <2> HIDE DEF rest, n
  <2>1. /\ items # <<>> /\ Len(items) = n + 1 /\ items[1] = Plain(tag[class])
        /\ \A i \in 1 .. n : items[i + 1] = rest[i]
    BY <1>2, <1>5, PackageItems
  <2> QED BY <2>1 DEF rest
<1> HIDE DEF items, rest
<1>7. root[type] = Class[class].domain /\ class = Target(root[type], List(items))
  BY <1>1, <1>6, TargetOfPackage, AllDefined
<1>8. List(items).isList /\ List(items).items = items
  BY DEF List
<1>9. ASSUME NEW i \in DOMAIN fields
      PROVE  /\ i < Len(items)
             /\ Convert(fields[i].type, items[i + 1]) = Returns(value.values[i])
  <2>1. IsScalar(fields[i].type, value.values[i])
    BY <1>1
  <2>2. i < Len(items) /\ items[i + 1] = PackScalar(value.values[i])
    BY <1>2, <1>6
  <2>3. Convert(fields[i].type, PackScalar(value.values[i]))
          = Returns(value.values[i])
    BY <2>1, ScalarRoundTrip, Zenon
  <2> QED BY <2>2, <2>3, Zenon
<1> DEFINE outcomes == Outcomes(Convert, class, items)
<1>10. /\ DOMAIN outcomes = DOMAIN fields
       /\ \A i \in DOMAIN fields : outcomes[i] = Returns(value.values[i])
  BY <1>9 DEF Outcomes
<1>11. UnpackField(type, List(items)) = Built(class, outcomes)
  <2>1. UnpackField(type, List(items))
          = IF Target(root[type], List(items)) = None THEN Raises
            ELSE Built(Target(root[type], List(items)),
                       Outcomes(Convert, Target(root[type], List(items)),
                                List(items).items))
    BY <1>8, Zenon DEF UnpackField, FromPackage
  <2> QED BY <1>1, <1>7, <1>8, <2>1, Zenon
<1> HIDE DEF outcomes
<1>12. Built(class, outcomes)
         = Returns(Struct(class, [i \in DOMAIN fields |-> value.values[i]]))
  BY <1>10, StructBuilt
<1> QED BY <1>1, <1>4, <1>11, <1>12, Zenon

\* A field of a message.
LEMMA FieldRoundTrip ==
    ASSUME TypeOK, RegistryIsExact, Imported, NEW type, NEW value,
           IsFieldValue(type, value)
    PROVE  UnpackField(type, PackField(value)) = Returns(value)
<1>1. CASE type \in Names
  BY <1>1, NestedRoundTrip
<1>2. CASE type \notin Names
  <2>1. IsScalar(type, value)
    BY <1>2, Zenon DEF IsFieldValue
  <2>2. value.class = None
    BY <2>1 DEF IsScalar, Scalar, Struct
  <2>3. Convert(type, PackField(value)) = Returns(value)
    BY <2>1, <2>2, ScalarRoundTrip, Zenon DEF PackField
  <2> QED BY <1>2, <2>3, Zenon DEF UnpackField
<1> QED BY <1>1, <1>2

\* A message, whatever its class.
LEMMA RoundTrip ==
    ASSUME TypeOK, RegistryIsExact, Imported, NEW message, IsMessage(message)
    PROVE  decode(encode(message)) = Returns(message)
<1> DEFINE class == message.class
           fields == Class[class].fields
           n == Len(fields)
           rest == [i \in 1 .. n |-> PackField(message.values[i])]
           items == <<Plain(tag[class])>> \o rest
<1>1. /\ class \in Names /\ class # None
      /\ Class[class].tag # None /\ Class[class].domain = "Message"
      /\ message = Struct(class, [i \in DOMAIN fields |-> message.values[i]])
      /\ \A i \in DOMAIN fields :
             IsFieldValue(fields[i].type, message.values[i])
  BY DEF IsMessage, IsStruct
<1>2. DOMAIN fields = 1 .. n /\ n \in Nat
  BY <1>1
<1>3. message.values = [i \in 1 .. n |-> message.values[i]]
  BY <1>1, <1>2 DEF Struct
<1>4. encode(message) = List(items)
  BY <1>1, <1>3 DEF encode, ToPackage
<1>5. rest = [i \in 1 .. n |-> rest[i]]
  OBVIOUS
<1>6. /\ items # <<>> /\ Len(items) = n + 1 /\ items[1] = Plain(tag[class])
      /\ \A i \in 1 .. n : items[i + 1] = PackField(message.values[i])
  <2> HIDE DEF rest, n
  <2>1. /\ items # <<>> /\ Len(items) = n + 1 /\ items[1] = Plain(tag[class])
        /\ \A i \in 1 .. n : items[i + 1] = rest[i]
    BY <1>2, <1>5, PackageItems
  <2> QED BY <2>1 DEF rest
<1> HIDE DEF items, rest
<1>7. class = Target(root["Message"], List(items))
  BY <1>1, <1>6, TargetOfPackage, AllDefined
<1>8. List(items).isList /\ List(items).items = items
  BY DEF List
<1>9. ASSUME NEW i \in DOMAIN fields
      PROVE  /\ i < Len(items)
             /\ UnpackField(fields[i].type, items[i + 1])
                  = Returns(message.values[i])
  <2>1. IsFieldValue(fields[i].type, message.values[i])
    BY <1>1
  <2>2. i < Len(items) /\ items[i + 1] = PackField(message.values[i])
    BY <1>2, <1>6
  <2> QED BY <2>1, <2>2, FieldRoundTrip, Zenon
<1> DEFINE outcomes == Outcomes(UnpackField, class, items)
<1>10. /\ DOMAIN outcomes = DOMAIN fields
       /\ \A i \in DOMAIN fields : outcomes[i] = Returns(message.values[i])
  BY <1>9 DEF Outcomes
<1>11. decode(List(items)) = Built(class, outcomes)
  <2>1. decode(List(items))
          = IF Target(root["Message"], List(items)) = None THEN Raises
            ELSE Built(Target(root["Message"], List(items)),
                       Outcomes(UnpackField,
                                Target(root["Message"], List(items)),
                                List(items).items))
    BY <1>8, Zenon DEF decode, FromPackage
  <2> QED BY <1>1, <1>7, <1>8, <2>1, Zenon
<1> HIDE DEF outcomes
<1>12. Built(class, outcomes)
         = Returns(Struct(class, [i \in DOMAIN fields |-> message.values[i]]))
  BY <1>10, StructBuilt
<1> QED BY <1>1, <1>4, <1>11, <1>12, Zenon

-----------------------------------------------------------------------------
(* What is accepted is a message. *)

LEMMA BuiltOk ==
    ASSUME NEW class, NEW outcomes, Built(class, outcomes).ok
    PROVE  /\ \A i \in DOMAIN outcomes : outcomes[i].ok
           /\ Built(class, outcomes).value
                = Struct(class, [i \in DOMAIN outcomes |-> outcomes[i].value])
<1>1. ~Raises.ok /\ \A v : Returns(v).value = v
  BY DEF Raises, Returns
<1>2. \A i \in DOMAIN outcomes : outcomes[i].ok
  BY <1>1, Zenon DEF Built
<1> QED BY <1>1, <1>2, Zenon DEF Built

LEMMA ScalarAccepted ==
    ASSUME NEW type \in ScalarTypes, NEW data \in Data,
           Convert(type, data).ok
    PROVE  IsScalar(type, Convert(type, data).value)
<1> DEFINE v == Convert(type, data)
<1>1. /\ v = Returns(Scalar(v.value.values[1]))
      /\ v.value.values[1] \in Instances(type)
  BY ConvertAssumption
<1>2. v.value = Scalar(v.value.values[1])
  <2>1. \A w : Returns(w).value = w
    BY DEF Returns
  <2> HIDE DEF v
  <2> QED BY <1>1, <2>1, Zenon
<1> QED BY <1>1, <1>2, Zenon DEF IsScalar

LEMMA TypesOfFields ==
    ASSUME NEW name \in Names, NEW i \in DOMAIN Class[name].fields,
           Class[name].fields[i].type \notin Names
    PROVE  Class[name].fields[i].type \in ScalarTypes
BY DEF ScalarTypes, FieldTypes

LEMMA DefaultAccepted ==
    ASSUME NEW name \in Names, NEW i \in DOMAIN Class[name].fields,
           Class[name].fields[i].default # <<>>
    PROVE  /\ Class[name].fields[i].type \notin Names
           /\ IsScalar(Class[name].fields[i].type,
                       Scalar(Class[name].fields[i].default[1]))
<1>1. \A s : Scalar(s).values[1] = s
  BY DEF Scalar, Struct
<1>2. /\ Class[name].fields[i].type \notin Names
      /\ Class[name].fields[i].default[1]
            \in Instances(Class[name].fields[i].type)
  BY ConvertAssumption
<1>3. Class[name].fields[i].type \in ScalarTypes
  BY <1>2, TypesOfFields
<1> QED BY <1>1, <1>2, <1>3, Zenon DEF IsScalar

LEMMA NestedAccepted ==
    ASSUME TypeOK, RegistryIsExact, Imported,
           NEW name \in Names, NEW k \in DOMAIN Class[name].fields,
           Class[name].fields[k].type \in Names,
           NEW data \in Data, UnpackField(Class[name].fields[k].type, data).ok
    PROVE  IsFieldValue(Class[name].fields[k].type,
                        UnpackField(Class[name].fields[k].type, data).value)
<1> DEFINE type == Class[name].fields[k].type
           r == root[type]
           class == Target(r, data)
           fields == Class[class].fields
           outcomes == Outcomes(Convert, class, data.items)
<1>1. /\ r = Class[type].domain /\ r \in Names
      /\ \A inner \in Names :
             Class[inner].domain = r =>
                 \A j \in DOMAIN Class[inner].fields :
                     Class[inner].fields[j].type \notin Names
  BY AllDefined, NestingAssumption
<1>2. /\ class # None
      /\ UnpackField(type, data) = Built(class, outcomes)
  <2>1. ~Raises.ok
    BY DEF Raises
  <2>2. UnpackField(type, data) = IF data.isList THEN FromPackage(Convert, r, data)
                                                 ELSE Raises
    BY Zenon DEF UnpackField
  <2>3. UnpackField(type, data) = FromPackage(Convert, r, data)
    BY <2>1, <2>2, Zenon
  <2>4. UnpackField(type, data) = IF class = None THEN Raises
                                                  ELSE Built(class, outcomes)
    BY <2>3, Zenon DEF FromPackage
  <2> QED BY <2>1, <2>4, Zenon
<1>3. class \in Names /\ Class[class].tag # None /\ Class[class].domain = r
  BY <1>1, <1>2, TargetIsTyped
<1>4. DOMAIN outcomes = DOMAIN fields
  BY DEF Outcomes
<1>5. ASSUME NEW i \in DOMAIN fields, outcomes[i].ok
      PROVE  IsScalar(fields[i].type, outcomes[i].value)
  <2>1. fields[i].type \in ScalarTypes
    BY <1>1, <1>3, TypesOfFields
  <2>2. outcomes[i] = IF i < Len(data.items)
                        THEN Convert(fields[i].type, data.items[i + 1])
                      ELSE IF fields[i].default # <<>>
                        THEN Returns(Scalar(fields[i].default[1]))
                      ELSE Raises
    BY DEF Outcomes
  <2> HIDE DEF outcomes
  <2>3. CASE i < Len(data.items)
    <3>1. data.items[i + 1] \in Data
      BY <2>3, <1>3, DataAssumption
    <3> QED BY <1>5, <2>1, <2>2, <2>3, <3>1, ScalarAccepted, Zenon
  <2>4. CASE ~(i < Len(data.items))
    <3>1. fields[i].default # <<>>
          /\ outcomes[i] = Returns(Scalar(fields[i].default[1]))
      <4>1. ~Raises.ok
        BY DEF Raises
      <4> QED BY <1>5, <2>2, <2>4, <4>1, Zenon
    <3>2. outcomes[i].value = Scalar(fields[i].default[1])
      <4>1. \A v : Returns(v).value = v
        BY DEF Returns
      <4> QED BY <3>1, <4>1, Zenon
    <3>3. IsScalar(fields[i].type, Scalar(fields[i].default[1]))
      BY <1>3, <3>1, DefaultAccepted
    <3> QED BY <3>2, <3>3, Zenon
  <2> QED BY <2>3, <2>4
<1> DEFINE value == UnpackField(type, data).value
<1>6. /\ \A i \in DOMAIN fields : outcomes[i].ok
      /\ value = Struct(class, [i \in DOMAIN fields |-> outcomes[i].value])
  <2> HIDE DEF outcomes
  <2>1. Built(class, outcomes).ok /\ value = Built(class, outcomes).value
    BY <1>2
  <2> HIDE DEF value
  <2>2. /\ \A i \in DOMAIN outcomes : outcomes[i].ok
        /\ value = Struct(class, [i \in DOMAIN outcomes |-> outcomes[i].value])
    BY <2>1, BuiltOk
  <2> QED BY <1>4, <2>2
<1> HIDE DEF outcomes, value
<1>7. value.class = class
      /\ \A i \in DOMAIN fields : value.values[i] = outcomes[i].value
  BY <1>6 DEF Struct
<1>8. value = Struct(class, [i \in DOMAIN fields |-> value.values[i]])
  BY <1>6, <1>7
<1>9. \A i \in DOMAIN fields : IsScalar(fields[i].type, value.values[i])
  BY <1>5, <1>6, <1>7
<1> DEFINE own == value.class
<1>0. own = class
  BY <1>7
<1> HIDE DEF own, class
<1>10. /\ own \in Names /\ Class[own].tag # None
       /\ Class[own].domain = Class[type].domain
       /\ value = Struct(own, [i \in DOMAIN Class[own].fields |-> value.values[i]])
       /\ \A i \in DOMAIN Class[own].fields :
              IsScalar(Class[own].fields[i].type, value.values[i])
  BY <1>1, <1>3, <1>8, <1>9, <1>0
<1>11. IsFieldValue(type, value)
  BY <1>10, Zenon DEF own, IsFieldValue, IsStruct
<1> QED BY <1>11 DEF value

LEMMA DecodedIsMessage ==
    ASSUME TypeOK, RegistryIsExact, Imported, NEW data \in Data, decode(data).ok
    PROVE  IsMessage(decode(data).value)
<1> DEFINE r == root["Message"]
           class == Target(r, data)
           fields == Class[class].fields
           outcomes == Outcomes(UnpackField, class, data.items)
<1>1. r = "Message" /\ r \in Names
  BY AllDefined
<1>2. /\ class # None
      /\ decode(data) = Built(class, outcomes)
  <2>1. ~Raises.ok
    BY DEF Raises
  <2>2. decode(data) = IF data.isList THEN FromPackage(UnpackField, r, data)
                                      ELSE Raises
    BY Zenon DEF decode
  <2>3. decode(data) = FromPackage(UnpackField, r, data)
    BY <2>1, <2>2, Zenon
  <2>4. decode(data) = IF class = None THEN Raises
                                       ELSE Built(class, outcomes)
    BY <2>3, Zenon DEF FromPackage
  <2> QED BY <2>1, <2>4, Zenon
<1>3. class \in Names /\ Class[class].tag # None /\ Class[class].domain = r
  BY <1>1, <1>2, TargetIsTyped
<1>4. DOMAIN outcomes = DOMAIN fields
  BY DEF Outcomes
<1>5. ASSUME NEW i \in DOMAIN fields, outcomes[i].ok
      PROVE  IsFieldValue(fields[i].type, outcomes[i].value)
  <2>1. outcomes[i] = IF i < Len(data.items)
                        THEN UnpackField(fields[i].type, data.items[i + 1])
                      ELSE IF fields[i].default # <<>>
                        THEN Returns(Scalar(fields[i].default[1]))
                      ELSE Raises
    BY DEF Outcomes
  <2> HIDE DEF outcomes
  <2>2. CASE i < Len(data.items)
    <3>1. data.items[i + 1] \in Data
      BY <2>2, <1>3, DataAssumption
    <3>2. outcomes[i] = UnpackField(fields[i].type, data.items[i + 1])
      BY <2>1, <2>2
    <3>3. CASE fields[i].type \in Names
      BY <1>3, <1>5, <3>1, <3>2, <3>3, NestedAccepted
    <3>4. CASE fields[i].type \notin Names
      <4>1. fields[i].type \in ScalarTypes
        BY <1>3, <3>4, TypesOfFields
      <4>2. outcomes[i] = Convert(fields[i].type, data.items[i + 1])
        BY <3>2, <3>4, Zenon DEF UnpackField
      <4>3. IsScalar(fields[i].type, outcomes[i].value)
        BY <1>5, <3>1, <4>1, <4>2, ScalarAccepted
      <4> QED BY <3>4, <4>3, Zenon DEF IsFieldValue
    <3> QED BY <3>3, <3>4
  <2>3. CASE ~(i < Len(data.items))
    <3>1. fields[i].default # <<>>
          /\ outcomes[i] = Returns(Scalar(fields[i].default[1]))
      <4>1. ~Raises.ok
        BY DEF Raises
      <4> QED BY <1>5, <2>1, <2>3, <4>1, Zenon
    <3>2. outcomes[i].value = Scalar(fields[i].default[1])
      <4>1. \A v : Returns(v).value = v
        BY DEF Returns
      <4> QED BY <3>1, <4>1, Zenon
    <3>3. /\ fields[i].type \notin Names
          /\ IsScalar(fields[i].type, Scalar(fields[i].default[1]))
      BY <1>3, <3>1, DefaultAccepted
    <3> QED BY <3>2, <3>3, Zenon DEF IsFieldValue
  <2> QED BY <2>2, <2>3
<1> DEFINE value == decode(data).value
<1>6. /\ \A i \in DOMAIN fields : outcomes[i].ok
      /\ value = Struct(class, [i \in DOMAIN fields |-> outcomes[i].value])
  <2> HIDE DEF outcomes
  <2>1. Built(class, outcomes).ok /\ value = Built(class, outcomes).value
    BY <1>2
  <2> HIDE DEF value
  <2>2. /\ \A i \in DOMAIN outcomes : outcomes[i].ok
        /\ value = Struct(class, [i \in DOMAIN outcomes |-> outcomes[i].value])
    BY <2>1, BuiltOk
  <2> QED BY <1>4, <2>2
<1> HIDE DEF outcomes, value
<1>7. value.class = class
      /\ \A i \in DOMAIN fields : value.values[i] = outcomes[i].value
  BY <1>6 DEF Struct
<1>8. value = Struct(class, [i \in DOMAIN fields |-> value.values[i]])
  BY <1>6, <1>7
<1>9. \A i \in DOMAIN fields : IsFieldValue(fields[i].type, value.values[i])
  BY <1>5, <1>6, <1>7
<1> DEFINE own == value.class
<1>0. own = class
  BY <1>7
<1> HIDE DEF own, class
<1>10. /\ own \in Names /\ Class[own].tag # None
       /\ Class[own].domain = "Message"
       /\ value = Struct(own, [i \in DOMAIN Class[own].fields |-> value.values[i]])
       /\ \A i \in DOMAIN Class[own].fields :
              IsFieldValue(Class[own].fields[i].type, value.values[i])
  BY <1>1, <1>3, <1>8, <1>9, <1>0
<1>11. IsMessage(value)
  BY <1>10, Zenon DEF own, IsMessage, IsStruct
<1> QED BY <1>11 DEF value

-----------------------------------------------------------------------------
(* The invariant. *)

\* What each stage knows of the message: it came from a peer of this code as
\* that encoded it, or it is data; what the relay passes on is what it decoded.
TravelOK ==
    /\ stage = "sent" =>
           /\ relayed = Raises /\ received = Raises
           /\ \/ meant = Nothing /\ wire \in Data
              \/ meant \in OwnMessages /\ wire = encode(meant)
    /\ stage = "passed" => relayed.ok /\ relayed = Returns(relayed.value)
                           /\ passed = encode(relayed.value)

IInv == /\ TypeOK /\ RegistryIsExact /\ TravelOK
        /\ OwnMessagesArrive /\ AcceptedIsTyped /\ RelayIsTransparent

LEMMA InitIInv == Init => IInv
<1> SUFFICES ASSUME Init PROVE IInv
  OBVIOUS
<1>1. \A name : ~Defined(name)
  BY DEF Init, Defined
<1>2. TypeOK
  BY <1>1, OrderAssumption DEF Init, TypeOK
<1>3. RegistryIsExact
  BY <1>1 DEF Init, RegistryIsExact
<1>4. TravelOK /\ OwnMessagesArrive /\ AcceptedIsTyped /\ RelayIsTransparent
  BY DEF Init, TravelOK, OwnMessagesArrive, AcceptedIsTyped,
         RelayIsTransparent, Raises
<1> QED BY <1>2, <1>3, <1>4 DEF IInv

LEMMA DefinesKeepsTravel ==
    ASSUME IInv, ~Imported, UNCHANGED travel
    PROVE  TravelOK' /\ OwnMessagesArrive' /\ AcceptedIsTyped' /\ RelayIsTransparent'
<1>1. stage = "idle" /\ stage' = "idle"
  BY DEF IInv, TypeOK, travel
<1>2. TravelOK' /\ OwnMessagesArrive' /\ RelayIsTransparent'
  BY <1>1 DEF TravelOK, OwnMessagesArrive, RelayIsTransparent
<1>3. AcceptedIsTyped'
  BY DEF travel, IInv, AcceptedIsTyped, IsMessage, IsStruct
<1> QED BY <1>2, <1>3

LEMMA ClassesKept ==
    ASSUME TypeOK, RegistryIsExact, UNCHANGED classes,
           stage' \in {"idle", "sent", "passed", "done"}, Imported
    PROVE  TypeOK' /\ RegistryIsExact' /\ Imported'
<1>1. /\ defined' = defined /\ root' = root /\ tag' = tag
      /\ registry' = registry
  BY DEF classes
<1>2. Imported'
  BY <1>1 DEF Imported
<1>3. \A name : Defined(name)' <=> Defined(name)
  BY <1>1 DEF Defined
<1>4. TypeOK'
  BY <1>1, <1>2, <1>3 DEF TypeOK
<1>5. RegistryIsExact'
  BY <1>1, <1>3 DEF RegistryIsExact
<1> QED BY <1>2, <1>4, <1>5

LEMMA SendsKeeps ==
    ASSUME IInv,
           \/ \E message \in OwnMessages : Sends(message)
           \/ \E data \in Data : SendsAnything(data)
    PROVE  IInv'
<1>1. /\ stage' = "sent" /\ Imported /\ UNCHANGED classes
      /\ relayed' = Raises /\ received' = Raises
      /\ \/ meant' = Nothing /\ wire' \in Data
         \/ meant' \in OwnMessages /\ wire' = encode(meant')
  BY DEF Sends, SendsAnything, Free
<1>2. TypeOK' /\ RegistryIsExact' /\ Imported'
  BY <1>1, ClassesKept DEF IInv
<1>3. tag' = tag
  BY <1>1 DEF classes
<1>4. TravelOK'
  BY <1>1, <1>3 DEF TravelOK, encode, ToPackage, PackField
<1>5. AcceptedIsTyped'
  BY <1>1 DEF AcceptedIsTyped, Raises
<1>6. OwnMessagesArrive' /\ RelayIsTransparent'
  BY <1>1 DEF OwnMessagesArrive, RelayIsTransparent
<1> QED BY <1>2, <1>4, <1>5, <1>6 DEF IInv

LEMMA DecodeOutcome ==
    ASSUME NEW data
    PROVE  \/ decode(data) = Raises
           \/ decode(data).ok /\ decode(data) = Returns(decode(data).value)
<1> DEFINE class == Target(root["Message"], data)
           built == Built(class, Outcomes(UnpackField, class, data.items))
<1>1. decode(data) = Raises \/ decode(data) = built
  BY Zenon DEF decode, FromPackage
<1>2. built = Raises \/ \E v : built = Returns(v)
  BY Zenon DEF Built
<1>3. \A v : Returns(v).ok /\ Returns(v).value = v
  BY DEF Returns
<1> HIDE DEF built
<1>4. ASSUME NEW v, built = Returns(v)
      PROVE  built.ok /\ built = Returns(built.value)
  BY <1>3, <1>4
<1> QED BY <1>1, <1>2, <1>4

LEMMA RelaysKeeps ==
    ASSUME IInv, Relays
    PROVE  IInv'
<1> DEFINE d == decode(wire)
<1>1. /\ stage = "sent" /\ relayed' = d /\ UNCHANGED <<classes, meant, received>>
      /\ \/ d.ok /\ stage' = "passed" /\ passed' = encode(d.value)
         \/ ~d.ok /\ stage' = "done"
  BY DEF Relays
<1>2. Imported
  BY <1>1 DEF IInv, TypeOK
<1>3. TypeOK' /\ RegistryIsExact'
  BY <1>1, <1>2, ClassesKept DEF IInv
<1>4. received = Raises
      /\ \/ meant = Nothing /\ wire \in Data
         \/ meant \in OwnMessages /\ wire = encode(meant)
  BY <1>1 DEF IInv, TravelOK
<1>5. \/ d = Raises
      \/ d.ok /\ d = Returns(d.value)
  BY DecodeOutcome
<1>6. ASSUME meant \in OwnMessages, wire = encode(meant)
      PROVE  d = Returns(meant) /\ d.ok /\ d.value = meant /\ IsMessage(meant)
  <2>1. IsMessage(meant)
    BY <1>6, MessageAssumption
  <2>2. d = Returns(meant)
    BY <1>2, <1>6, <2>1, RoundTrip DEF IInv
  <2> QED BY <2>1, <2>2 DEF Returns
<1>7. d.ok => IsMessage(d.value)
  BY <1>2, <1>4, <1>6, DecodedIsMessage DEF IInv
<1> HIDE DEF d
<1>8. AcceptedIsTyped'
  BY <1>1, <1>7 DEF AcceptedIsTyped
<1>9. OwnMessagesArrive'
  BY <1>1, <1>4, <1>6 DEF OwnMessagesArrive, d
<1>10. RelayIsTransparent'
  BY <1>1, <1>4, <1>5 DEF RelayIsTransparent
<1>11. tag' = tag
  BY <1>1 DEF classes
<1>12. TravelOK'
  BY <1>1, <1>5, <1>11 DEF TravelOK, encode, ToPackage, PackField, Raises
<1> QED BY <1>3, <1>8, <1>9, <1>10, <1>12 DEF IInv

LEMMA ReceivesKeeps ==
    ASSUME IInv, Receives
    PROVE  IInv'
<1>1. /\ stage = "passed" /\ stage' = "done" /\ received' = decode(passed)
      /\ UNCHANGED <<classes, meant, relayed>>
  BY DEF Receives
<1>2. Imported
  BY <1>1 DEF IInv, TypeOK
<1>3. TypeOK' /\ RegistryIsExact'
  BY <1>1, <1>2, ClassesKept DEF IInv
<1>4. /\ relayed.ok /\ relayed = Returns(relayed.value)
      /\ passed = encode(relayed.value) /\ IsMessage(relayed.value)
  BY <1>1 DEF IInv, TravelOK, AcceptedIsTyped
<1>5. received' = relayed
  BY <1>1, <1>2, <1>4, RoundTrip DEF IInv
<1>6. TravelOK' /\ RelayIsTransparent'
  BY <1>1, <1>5 DEF TravelOK, RelayIsTransparent
<1>7. AcceptedIsTyped' /\ OwnMessagesArrive'
  BY <1>1 DEF IInv, AcceptedIsTyped, OwnMessagesArrive
<1> QED BY <1>3, <1>6, <1>7 DEF IInv

\* Every step keeps the invariant.
LEMMA NextIInv == IInv /\ [Next]_vars => IInv'
<1> SUFFICES ASSUME IInv, [Next]_vars PROVE IInv'
  OBVIOUS
<1>1. ASSUME NEW name \in Names,
             \/ DefinesRoot(name)
             \/ DefinesIntermediate(name)
             \/ DefinesFinal(name)
      PROVE  IInv'
  <2>1. Defines(name)
    BY <1>1 DEF DefinesRoot, DefinesIntermediate, DefinesFinal
  <2>2. TypeOK' /\ RegistryIsExact'
    BY <1>1, DefinesRootKeeps, DefinesIntermediateKeeps, DefinesFinalKeeps
       DEF IInv
  <2>3. TravelOK' /\ OwnMessagesArrive' /\ AcceptedIsTyped'
        /\ RelayIsTransparent'
    BY <2>1, DefinesKeepsTravel DEF Defines
  <2> QED BY <2>2, <2>3 DEF IInv
<1>2. CASE \/ \E message \in OwnMessages : Sends(message)
           \/ \E data \in Data : SendsAnything(data)
  BY <1>2, SendsKeeps
<1>3. CASE Relays
  BY <1>3, RelaysKeeps
<1>4. CASE Receives
  BY <1>4, ReceivesKeeps
<1>5. CASE UNCHANGED vars
  <2>1. /\ UNCHANGED classes /\ UNCHANGED travel
        /\ defined' = defined /\ root' = root /\ tag' = tag
        /\ registry' = registry
        /\ stage' = stage /\ meant' = meant /\ wire' = wire
        /\ relayed' = relayed /\ passed' = passed /\ received' = received
    BY <1>5 DEF vars, classes, travel
  <2>2. Imported' <=> Imported
    BY <2>1 DEF Imported
  <2>3. \A name : Defined(name)' <=> Defined(name)
    BY <2>1 DEF Defined
  <2>4. TypeOK'
    BY <2>1, <2>2, <2>3 DEF IInv, TypeOK
  <2>5. RegistryIsExact'
    BY <2>1, <2>3 DEF IInv, RegistryIsExact
  <2>6. TravelOK'
    BY <2>1 DEF IInv, TravelOK, encode, ToPackage, PackField
  <2>7. AcceptedIsTyped' /\ OwnMessagesArrive' /\ RelayIsTransparent'
    BY <2>1 DEF IInv, AcceptedIsTyped, OwnMessagesArrive, RelayIsTransparent
  <2> QED BY <2>4, <2>5, <2>6, <2>7 DEF IInv
<1> QED BY <1>1, <1>2, <1>3, <1>4, <1>5 DEF Next

LEMMA AlwaysIInv == Spec => []IInv
<1>1. Init => IInv
  BY InitIInv
<1>2. IInv /\ [Next]_vars => IInv'
  BY NextIInv
<1> QED BY <1>1, <1>2, PTL DEF Spec

-----------------------------------------------------------------------------
(* The theorems. *)

\* Type correctness; the registry that a defined class finds is its domain's.
THEOREM TypeCorrect == Spec => []TypeOK
<1>1. IInv => TypeOK
  BY DEF IInv
<1> QED BY <1>1, AlwaysIInv, PTL

\* __init_subclass__ enters every tagged class in the registry of its own
\* domain, under its own tag, and nothing else anywhere.
THEOREM RegistriesExact == Spec => []RegistryIsExact
<1>1. IInv => RegistryIsExact
  BY DEF IInv
<1> QED BY <1>1, AlwaysIInv, PTL

\* decode(encode(message)) is the message, for every message whose fields have
\* values of the classes of their annotations.
THEOREM OwnMessagesDecoded == Spec => []OwnMessagesArrive
<1>1. IInv => OwnMessagesArrive
  BY DEF IInv
<1> QED BY <1>1, AlwaysIInv, PTL

\* Whatever cbor2 has loaded, decode raises or returns a struct of a tagged class
\* of messages, with all of its fields, nested structs of the domains that the
\* fields name, and scalars of the classes that they name.  Of
\* dict[int, bytes] (message.py:88) that class is dict, whatever is in it.
THEOREM AcceptedTyped == Spec => []AcceptedIsTyped
<1>1. IInv => AcceptedIsTyped
  BY DEF IInv
<1> QED BY <1>1, AlwaysIInv, PTL

\* What the relay has accepted, the other peer decodes to the same message.
THEOREM RelayTransparent == Spec => []RelayIsTransparent
<1>1. IInv => RelayIsTransparent
  BY DEF IInv
<1> QED BY <1>1, AlwaysIInv, PTL
=============================================================================
