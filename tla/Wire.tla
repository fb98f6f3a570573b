------------------------------- MODULE Wire -------------------------------
(***************************************************************************)
(* How the browser and the Go daemon turn messages into bytes and back.    *)
(*                                                                         *)
(* Bytes are modelled as the sequence of fields on the wire, each a number *)
(* and a payload: two byte strings are equal exactly when these are.  A    *)
(* payload is a number, or, for a nested message, its own sequence.  0 is  *)
(* the zero of every scalar (no text, no bytes, FALSE); Zeros is a byte    *)
(* string of the right length that holds only zeros; larger numbers are    *)
(* contents the properties tell apart.                                     *)
(*                                                                         *)
(* A JavaScript value carries its type, because canonical() and the        *)
(* writer look at it.  An object is a function on its own properties.      *)
(***************************************************************************)
EXTENDS WireSchema, SequencesExt

Zeros == 1

Js(type, v) == [js |-> type, v |-> v]
Number(v) == Js("number", v)
String(v) == Js("string", v)
Bytes(v) == Js("bytes", v)
Bool(v) == Js("boolean", v)
Arr(s) == Js("array", s)
Obj(o) == Js("object", o)
Texts(s) == Arr([i \in DOMAIN s |-> String(s[i])])

\* The rows of a type: the field of a name, and the names of some fields.
Named(rows, n) == CHOOSE f \in ToSet(rows) : f.name = n
Names(fields) == {f.name : f \in fields}
Repeated(rows) == Names({f \in ToSet(rows) : f.many})
Nests(f) == f.kind \notin {"number", "enum", "long", "boolean", "string", "bytes", "map"}

Without(o, names) == [n \in DOMAIN o \ names |-> o[n]]

---------------------------------------------------------------------------
(* The generated codec: what the functions of every type share. *)

\* new T(properties) starts the repeated fields empty and copies what is given.
create(t, o) == o @@ [n \in Repeated(Schema[t]) |-> Arr(<<>>)]

\* T.encode writes the properties the object itself has, in the order of the schema.
RECURSIVE encode(_, _)
Written(rows, o) ==
    LET Item(f, x) == [id |-> f.id, is |-> IF Nests(f) THEN encode(f.kind, x.v) ELSE x.v]
        Items(f) == IF f.name \notin DOMAIN o THEN <<>>
                    ELSE LET is == o[f.name] IN
                         IF f.many THEN [i \in DOMAIN is.v |-> Item(f, is.v[i])] ELSE <<Item(f, is)>>
    IN  FlattenSeq([i \in DOMAIN rows |-> Items(rows[i])])
encode(t, o) == Written(Schema[t], o)

\* T.decode assigns what is on the wire, the last value of a field winning, collects the
\* elements of repeated fields and skips the numbers it does not know.  A 64-bit field
\* becomes a Long.
RECURSIVE decode(_, _)
Read(rows, wire) ==
    LET Value(f, r) == IF Nests(f) THEN Obj(decode(f.kind, r.is)) ELSE Js(IF f.kind = "enum" THEN "number" ELSE f.kind, r.is)
        On(f) == SelectSeq(wire, LAMBDA r : r.id = f.id)
        Assigned(f, on) == IF f.many THEN Arr([i \in DOMAIN on |-> Value(f, on[i])])
                           ELSE Value(f, Last(on))
        own == {f \in ToSet(rows) : f.many \/ On(f) # <<>>}
    IN  [n \in Names(own) |-> Assigned(Named(rows, n), On(Named(rows, n)))]
decode(t, wire) == Read(Schema[t], wire)

\* encodeDelimited puts the length first: on a stream a message is one item.
encodeDelimited(t, o) == <<encode(t, o)>>
decodeDelimited(t, stream) == decode(t, Head(stream))

\* A decimal numeral is never empty, the base64 of no bytes is.
Decimal(v) == v + 1000
Base64(v) == IF v = 0 THEN 0 ELSE v + 2000
EnumName(v) == v + 3000

\* What toObject is asked for: the forms of 64-bit numbers, enums and byte strings, and
\* whether absent fields are filled in.
AsIs == [longs |-> "long", enums |-> "number", bytes |-> "bytes", defaults |-> FALSE]
Numbers == [AsIs EXCEPT !.longs = "number"]
Complete == [Numbers EXCEPT !.defaults = TRUE]
toJSONOptions == [longs |-> "string", enums |-> "string", bytes |-> "string", defaults |-> FALSE]

\* T.toObject: a plain object of the properties the message has, empty arrays left out.
RECURSIVE toObject(_, _, _)
Shown(f, x, options) ==
    CASE f.kind = "long" /\ options.longs = "string" -> String(Decimal(x.v))
      [] f.kind = "long" /\ options.longs = "number" -> Number(x.v)
      [] f.kind = "enum" /\ options.enums = "string" /\ x.v \in f.enum -> String(EnumName(x.v))
      [] f.kind = "bytes" /\ options.bytes = "string" -> String(Base64(x.v))
      [] Nests(f) -> Obj(toObject(f.kind, x.v, options))
      [] OTHER -> x
PlainObject(rows, m, options) ==
    LET kept == {n \in DOMAIN m : ~(m[n].js = "array" /\ m[n].v = <<>>)}
        Value(f, x) == IF f.many THEN Arr([i \in DOMAIN x.v |-> Shown(f, x.v[i], options)])
                       ELSE Shown(f, x, options)
        filled == IF options.defaults THEN {f \in ToSet(rows) : f.many \/ ~Nests(f)} ELSE {}
        Zero(f) == IF f.many THEN Arr(<<>>) ELSE Shown(f, Js(IF f.kind = "enum" THEN "number" ELSE f.kind, 0), options)
    IN  [n \in kept |-> Value(Named(rows, n), m[n])] @@ [n \in Names(filled) |-> Zero(Named(rows, n))]
toObject(t, m, options) == PlainObject(Schema[t], m, options)

\* T.fromObject: a message of the properties a plain object has, in any form toObject writes.
RECURSIVE fromObject(_, _)
Taken(f, x) ==
    CASE f.kind = "long" -> Js("long", IF x.js = "string" THEN x.v - Decimal(0) ELSE x.v)
      [] f.kind = "enum" -> Number(IF x.js = "string" THEN x.v - EnumName(0) ELSE x.v)
      [] f.kind = "bytes" /\ x.js = "string" -> Bytes(CHOOSE v \in 0..x.v : Base64(v) = x.v)
      [] Nests(f) -> Obj(fromObject(f.kind, x.v))
      [] OTHER -> x
Message(rows, o) ==
    [n \in DOMAIN o |->
        LET f == Named(rows, n)
        IN  IF f.many THEN Arr([i \in DOMAIN o[n].v |-> Taken(f, o[n].v[i])]) ELSE Taken(f, o[n])]
fromObject(t, o) == create(t, Message(Schema[t], o))

\* T.verify: whether encode can write the object.
RECURSIVE verifyObject(_, _)
Fits(f, x) ==
    CASE f.kind = "long" -> x.js \in {"number", "long"}
      [] f.kind = "enum" -> x.js = "number" /\ x.v \in f.enum
      [] f.kind = "bytes" -> x.js \in {"bytes", "string"}
      [] Nests(f) -> x.js = "object" /\ verifyObject(f.kind, x.v)
      [] OTHER -> x.js = f.kind
verifyObject(t, o) ==
    /\ \A n \in DOMAIN o :
          LET f == Named(Schema[t], n)
          IN  IF f.many THEN o[n].js = "array" /\ \A i \in DOMAIN o[n].v : Fits(f, o[n].v[i])
              ELSE Fits(f, o[n])
    /\ \A n, p \in DOMAIN o \cap OneOf(t) : n = p

---------------------------------------------------------------------------
(* lib/crypto/protobuf.ts *)

\* decoded: what canonical() passes through.  The generated classes carry no $type, so the
\* test for a message never succeeds and only a Long does.
decoded(x) == x.js = "long"

Default(x) == \/ x.js \in {"number", "string", "boolean", "bytes"} /\ x.v = 0
              \/ x.js = "array" /\ x.v = <<>>

\* Mutant: the elements of an array are left as they are.
RECURSIVE canonicalShallow(_)
canonicalShallow(x) ==
    IF x.js # "object" THEN x
    ELSE Obj([n \in {k \in DOMAIN x.v : ~Default(x.v[k])} |-> canonicalShallow(x.v[n])])

RECURSIVE canonical(_)
canonical(x) ==
    IF x.js = "bytes" \/ decoded(x) THEN x
    ELSE IF x.js = "array" THEN Arr([i \in DOMAIN x.v |-> canonical(x.v[i])])
    ELSE IF x.js = "object"
         THEN Obj([n \in {k \in DOMAIN x.v : ~Default(x.v[k])} |-> canonical(x.v[n])])
         ELSE x

Canonically(t, o) == encode(t, create(t, canonical(Obj(o)).v))

encodeAddressHistory(h) == Canonically("AddressHistoryRecord", h)
decodeAddressHistory(data) == decode("AddressHistoryRecord", data)
decodeAddressRemoval(data) == decode("AddressRemovalRecord", data)
decodeCredential(data) == decode("Credential", data)

encodeRotationDeviceBytes(entry) ==
    Canonically("RotationEntry", Without(entry, {"deviceSignature", "signature", "nextSignature"}))
encodeRotationConsentBytes(entry) ==
    Canonically("RotationEntry", Without(entry, {"signature", "nextSignature"}))
encodeRotationAcceptBytes(entry) ==
    Canonically("RotationEntry", Without(entry, {"nextSignature"}))

encodeIdentityRecord(record) == Canonically("IdentityRecord", record)
decodeIdentityRecord(data) == decode("IdentityRecord", data)

IDENTITY_SIGNED_FIELDS ==
    {"version", "address", "ed25519PublicKey", "x25519PublicKey", "createdAt", "expiresAt",
     "verificationTier", "requireOnion", "revision", "rotationChain",
     "recoveryEd25519PublicKey", "forwardTo"}

pickOwn(src, fields) == [f \in DOMAIN src \cap fields |-> src[f]]

encodeIdentitySignableBytes(record) ==
    Canonically("IdentityRecord", pickOwn(record, IDENTITY_SIGNED_FIELDS))

encodeRemovalSignableBytes(rm) ==
    Canonically("AddressRemovalRecord", Without(rm, {"selfSignature"}))
encodeRemovalRecord(rm) == Canonically("AddressRemovalRecord", rm)

\* The signed form of a header always carries a reply id: zeros when there is none.
encodeMessageHeader(h) ==
    LET replyToId == IF "replyToId" \in DOMAIN h /\ h["replyToId"].v # 0
                     THEN h["replyToId"] ELSE Bytes(Zeros)
    IN  Canonically("MessageHeader", ("replyToId" :> replyToId) @@ h)

\* The header travels as it was handed in: nothing is stripped here.
encodeSignedHeader(sh) == encode("SignedHeader", create("SignedHeader", sh))
decodeSignedHeader(data) == decode("SignedHeader", data)

encodeMessageContent(c) == Canonically("MessageContent", c)
decodeMessageContent(data) == decode("MessageContent", data)

encodeSplitEnvelope(env) ==
    LET whole == ("payloadNonce" :> Bytes(Zeros)) @@ ("payloadTag" :> Bytes(Zeros))
                 @@ ("ratchetPubKey" :> Bytes(Zeros)) @@ env
    IN  encode("EncryptedEnvelope", create("EncryptedEnvelope", whole))
decodeMailboxEntry(data) == decode("MailboxEntry", data)
decodeMailboxBody(data) == decode("MailboxBody", data)

---------------------------------------------------------------------------
(* The Go side: proto.Unmarshal, the FromProto/ToProto pair of a type, and the
   deterministic proto.Marshal. *)

\* Fields a Go type keeps in a fixed-size array, so that ToProto always writes them.
Fixed(t) ==
    CASE t = "IdentityRecord" -> {"x25519PublicKey", "selfSignature"}
      [] t = "RotationEntry" -> {"retiredX25519PublicKey", "nextX25519PublicKey"}
      [] t = "AddressRemovalRecord" -> {"selfSignature"}
      [] t = "MessageHeader" -> {"messageId", "threadId", "replyToId", "bodyHash"}
      [] t = "SignedHeader" -> {"senderSignature"}
      [] t = "AttachmentRecord" -> {"attachmentId", "contentHash"}
      [] t = "RecipientRecord" -> {"deviceId", "recipientXPub", "ephemeralXPub", "cekNonce", "cekTag"}
      [] t = "EncryptedEnvelope" -> {"messageId", "payloadNonce", "payloadTag", "ratchetPubKey",
                                     "headerNonce", "headerTag", "bodyNonce", "bodyTag"}
      [] t = "BridgeClassificationRecord" -> {"bridgeSignature"}
      [] t = "BridgeDeliveryReceipt" -> {"originalMessageId", "bridgeSignature"}
      [] OTHER -> {}

\* Fields a Go type has no place for: they do not survive FromProto.
Dropped(t) == IF t = "IdentityRecord" THEN {"attestations"} ELSE {}

\* FromProto followed by ToProto, on the parsed message and on the ones it holds.
RECURSIVE ThroughGo(_, _)
Rebuilt(rows, kept, fixed) ==
    LET Nested(f, x) == IF ~Nests(f) THEN x
                        ELSE IF f.many THEN Arr([i \in DOMAIN x.v |-> Obj(ThroughGo(f.kind, x.v[i].v))])
                        ELSE Obj(ThroughGo(f.kind, x.v))
        Array(n) == IF n \in DOMAIN kept /\ kept[n].v # 0 THEN kept[n] ELSE Bytes(Zeros)
    IN  [n \in DOMAIN kept \cup fixed |-> IF n \in fixed THEN Array(n) ELSE Nested(Named(rows, n), kept[n])]
ThroughGo(t, o) == Rebuilt(Schema[t], Without(o, Dropped(t)), Fixed(t))

\* proto3 leaves out a scalar that is zero, whatever its width, and writes by field number.
GoOrder == [t \in DOMAIN Schema |-> SortSeq(Schema[t], LAMBDA f, g : f.id < g.id)]
RECURSIVE Marshal(_, _)
Marshalled(rows, o) ==
    LET Zero(x) == x.js \notin {"array", "object"} /\ x.v = 0
        Item(f, x) == [id |-> f.id, is |-> IF Nests(f) THEN Marshal(f.kind, x.v) ELSE x.v]
        Items(f) == IF f.name \notin DOMAIN o \/ (~f.many /\ Zero(o[f.name])) THEN <<>>
                    ELSE LET is == o[f.name] IN
                         IF f.many THEN [i \in DOMAIN is.v |-> Item(f, is.v[i])] ELSE <<Item(f, is)>>
    IN  FlattenSeq([i \in DOMAIN rows |-> Items(rows[i])])
Marshal(t, o) == Marshalled(GoOrder[t], o)

\* What Go holds after parsing, and what it computes a signature or a hash over.
Parsed(t, wire) == ThroughGo(t, decode(t, wire))
SignableBytes(t, o, left_out) == Marshal(t, Without(o, left_out))

=============================================================================
