------------------------------- MODULE Codec -------------------------------
(***************************************************************************)
(* What is signed, hashed and sealed on one side of the wire is read on    *)
(* the other: a mail from its composer through the relay to both kinds of  *)
(* reader, a bridge's attestation, and every message type on its own.      *)
(*                                                                         *)
(* A signature, a hash, an address and a sealed box are byte strings whose *)
(* meaning is kept beside them in "sealed": verifying compares the bytes   *)
(* at hand with the ones that were signed, and opening a box needs the key *)
(* generation and the label it was sealed under.                           *)
(***************************************************************************)
EXTENDS Wire

CONSTANTS
    Typed,       \* what is typed in the composer: [rich, content]
    Lengths      \* payload lengths that are padded

VARIABLES
    stage,       \* what is under way and how far it is
    sent,        \* what was handed in
    wire,        \* the bytes on their way
    sealed,      \* what the boxes, hashes and signatures in the bytes stand for
    got          \* what came out, per reader

vars == <<stage, sent, wire, sealed, got>>

\* Byte strings and texts with a meaning of their own.
SenderKey == 11
ReaderKey == 12
RootKey == 13
HeaderSig == 21
BodyHash == 22
BodyAddr == 23
HeaderBox == 24
BodyBox == 25
WrappedCek == 26
Plain == 31
Html == 32
RoleBridge == 33

---------------------------------------------------------------------------
(* lib/html/toPlainText and the blank test, on the contents that matter: a text that is
   blank, an html part whose text is itself a text, and one that is only an image. *)

Blank == 2
ImageOnly == 6
toPlainText(html) == IF html = ImageOnly THEN 0 ELSE html + 100
IsBlank(text) == text \in {0, Blank}

\* The renderings the composer derives once for all copies: rich content without text or
\* image is an empty message.
Renderings(typed) ==
    IF ~typed.rich THEN [text |-> typed.content, html |-> 0]
    ELSE IF ~IsBlank(toPlainText(typed.content)) \/ typed.content = ImageOnly
         THEN [text |-> toPlainText(typed.content), html |-> typed.content]
         ELSE [text |-> 0, html |-> 0]

---------------------------------------------------------------------------
(* lib/crypto/sealVersion.ts and the key wrap: the generation a record states decides the
   derivation and the labels. *)

KDF_V1 == 1
KDF_V2 == 2
PRODUCER_KDF == KDF_V2
normalizeKDF(v) == IF v = 0 THEN KDF_V1 ELSE v
cekWrapInfo(kdf, pub) == IF normalizeKDF(kdf) = KDF_V1 THEN 0 ELSE pub
headerAAD(kdf) == IF normalizeKDF(kdf) = KDF_V1 THEN "none" ELSE "header"
bodyAAD(kdf) == IF normalizeKDF(kdf) = KDF_V1 THEN "none" ELSE "body"

Get(o, name, default) == IF name \in DOMAIN o THEN o[name].v ELSE default

\* wrapCEK: one record per recipient.
wrapCEK(pub, kdf) ==
    [deviceId |-> Bytes(Zeros), recipientXPub |-> Bytes(pub), ephemeralXPub |-> Bytes(51),
     wrappedCek |-> Bytes(WrappedCek), cekNonce |-> Bytes(52), cekTag |-> Bytes(53),
     kdf |-> Number(kdf)]

\* findRecipient and unwrapCEK: the reader's own record, unwrapped for the reader's own key.
Unwraps(recipients, pub) ==
    \E i \in DOMAIN recipients :
       LET rec == recipients[i].v
       IN  /\ Get(rec, "recipientXPub", 0) = pub
           /\ Get(rec, "wrappedCek", 0) = WrappedCek
           /\ cekWrapInfo(Get(rec, "kdf", 0), pub) = sealed.info
Generation(recipients, pub) ==
    LET rec == SelectSeq(recipients, LAMBDA r : Get(r.v, "recipientXPub", 0) = pub)[1].v
    IN  normalizeKDF(Get(rec, "kdf", 0))

---------------------------------------------------------------------------
(* Composing. *)

\* The first bytes of a text, cut before a rune that would be split.  A text's number also
\* stands for its length.
LongText == 9
snippetOf(text) == IF text = LongText THEN 10 ELSE text

File(named, size, inline) ==
    [attachmentId |-> Bytes(61), filename |-> String(named), contentType |-> String(62),
     sizeBytes |-> Number(size), contentHash |-> Bytes(63), content |-> Bytes(size)]
    @@ IF inline THEN [contentId |-> String(64), disposition |-> String(65)] ELSE <<>>

\* The body part of encryptSplit: the text is the primary rendering, html an alternative.
Content(m) ==
    LET part(type, c) == Obj([contentType |-> String(type), content |-> Bytes(c)])
    IN  [body |-> part(Plain, m.text), attachments |-> Arr([i \in DOMAIN m.files |-> Obj(m.files[i])])]
        @@ IF m.html # 0 THEN [alternatives |-> Arr(<<part(Html, m.html)>>)] ELSE <<>>

\* The header it signs.  replyToId is undefined, hence absent, in mail that is no reply.
Header(m) ==
    [version |-> Number(1), messageId |-> Bytes(71), threadId |-> Bytes(72),
     senderAddress |-> String(73), senderPublicKey |-> Bytes(SenderKey),
     recipientAddress |-> String(74), sentAt |-> Number(75), subject |-> String(m.subject),
     attachmentCount |-> Number(Len(m.files)), bodySize |-> Number(m.text),
     snippet |-> String(snippetOf(m.text)), bodyHash |-> Bytes(BodyHash),
     bodyContentAddress |-> Bytes(BodyAddr),
     to |-> Texts(m.to), cc |-> Texts(m.cc), bcc |-> Texts(m.bcc)]
    @@ IF m.replyTo # 0 THEN [replyToId |-> Bytes(m.replyTo)] ELSE <<>>

Envelope(kdf) ==
    [version |-> Number(2), messageId |-> Bytes(71), createdAt |-> Number(75),
     recipients |-> Arr(<<Obj(wrapCEK(ReaderKey, kdf))>>),
     encryptedHeader |-> Bytes(HeaderBox), headerNonce |-> Bytes(54), headerTag |-> Bytes(55),
     headerSizeClass |-> Number(1024), encryptedBody |-> Bytes(BodyBox), bodyNonce |-> Bytes(56),
     bodyTag |-> Bytes(57), bodySizeClass |-> Number(1024), bodyContentAddress |-> Bytes(BodyAddr)]

Boxes(content, header, signed, kdf) ==
    [hashed |-> content, signed |-> signed, info |-> cekWrapInfo(kdf, ReaderKey),
     header |-> [plain |-> header, aad |-> headerAAD(kdf)],
     body |-> [plain |-> content, aad |-> bodyAAD(kdf)], stored |-> <<>>]

\* encryptSplit: what it hashes, signs and seals.
encryptSplit(m) ==
    LET signed == encodeMessageHeader(Header(m))
        header == encodeSignedHeader([header |-> Obj(Header(m)),
                                      senderSignature |-> Bytes(HeaderSig)])
    IN  Boxes(encodeMessageContent(Content(m)), header, signed, PRODUCER_KDF)

\* The Go composer (Split and EncryptSplit), with the generation its build produces.
EncryptSplit(m, kdf) ==
    LET h == ThroughGo("MessageHeader", Header(m))
        signed == Marshal("MessageHeader", h)
        header == Marshal("SignedHeader", [header |-> Obj(h), senderSignature |-> Bytes(HeaderSig)])
    IN  Boxes(Marshal("MessageContent", ThroughGo("MessageContent", Content(m))), header, signed, kdf)

---------------------------------------------------------------------------
(* A mail on its way. *)

Init == /\ stage = "idle" /\ sent = <<>> /\ wire = <<>> /\ sealed = <<>> /\ got = <<>>

\* The composer in the browser: seal, encode, and sign the hash of the encoding for STORE.
BrowserSends(m) ==
    /\ stage = "idle"
    /\ LET bytes == encodeSplitEnvelope(Envelope(PRODUCER_KDF))
       IN  /\ wire' = bytes
           /\ sealed' = [encryptSplit(m) EXCEPT !.stored = bytes]
    /\ stage' = "sent" /\ sent' = m /\ UNCHANGED got

\* A node or a bridge that composes mail: the envelope is marshalled in Go.  Mail of
\* generation 1 was written before the recipient record had a kdf field.
DaemonSends(m, kdf) ==
    /\ stage = "idle"
    /\ LET bytes == Marshal("EncryptedEnvelope", ThroughGo("EncryptedEnvelope", Envelope(kdf)))
       IN  /\ wire' = bytes
           /\ sealed' = [EncryptSplit(m, kdf) EXCEPT !.stored = bytes]
    /\ stage' = "sent" /\ sent' = m /\ UNCHANGED got

\* The relay parses the envelope, marshals it again, and verifies the sender's signature over
\* the hash of its own bytes.  It keeps the header part and the body part apart.
RelayAccepts ==
    /\ stage = "sent"
    /\ LET env == Parsed("EncryptedEnvelope", wire)
           part(names) == [n \in names \cap DOMAIN env |-> env[n]]
           entry == part({"recipients", "encryptedHeader", "headerNonce", "headerTag",
                          "headerSizeClass", "bodyContentAddress"})
           body == part({"encryptedBody", "bodyNonce", "bodyTag", "bodySizeClass",
                         "bodyContentAddress"})
       IN  IF Marshal("EncryptedEnvelope", env) = sealed.stored
           THEN /\ stage' = "stored"
                /\ wire' = [entry |-> Marshal("MailboxEntry",
                                              entry @@ [hash |-> Bytes(81), storedAt |-> Js("long", 82),
                                                        bodySize |-> Js("long", 83)]),
                            body |-> Marshal("MailboxBody", body)]
           ELSE stage' = "refused" /\ UNCHANGED wire
    /\ UNCHANGED <<sent, sealed, got>>

\* decryptHeader: the header, or why it is not shown.
decryptHeader(entry) ==
    LET recipients == entry["recipients"].v
        kdf == Generation(recipients, ReaderKey)
        sh == decodeSignedHeader(sealed.header.plain)
        header == sh["header"].v
    IN  IF ~Unwraps(recipients, ReaderKey) \/ Get(entry, "encryptedHeader", 0) # HeaderBox
           \/ headerAAD(kdf) # sealed.header.aad
        THEN [error |-> "not decrypted", header |-> <<>>]
        ELSE IF Get(header, "senderPublicKey", 0) = SenderKey /\ Get(sh, "senderSignature", 0) = HeaderSig
                /\ encodeMessageHeader(header) = sealed.signed
             THEN [error |-> "", header |-> header]
             ELSE [error |-> "header signature verification failed", header |-> <<>>]

\* decryptBody: checks the commitment to the content and to the box, and picks the renderings.
decryptBody(entry, body, header) ==
    LET recipients == entry["recipients"].v
        kdf == Generation(recipients, ReaderKey)
        content == decodeMessageContent(sealed.body.plain)
        parts == <<content["body"]>> \o content["alternatives"].v
        Of(type) == SelectSeq(parts, LAMBDA p : Get(p.v, "contentType", 0) = type)
        text == IF Of(Plain) # <<>> THEN Get(Of(Plain)[1].v, "content", 0) ELSE 0
        html == IF Of(Html) # <<>> THEN Get(Of(Html)[1].v, "content", 0) ELSE 0
    IN  IF Get(body, "encryptedBody", 0) # BodyBox \/ bodyAAD(kdf) # sealed.body.aad
        THEN [error |-> "not decrypted"]
        ELSE IF sealed.body.plain # sealed.hashed \/ Get(header, "bodyHash", 0) # BodyHash
        THEN [error |-> "body does not match header body_hash"]
        ELSE IF Get(header, "bodyContentAddress", 0) \notin {0, BodyAddr}
        THEN [error |-> "body does not match header body_content_address"]
        ELSE [error |-> "", html |-> html,
              text |-> IF ~IsBlank(text) \/ html = 0 THEN text ELSE toPlainText(html),
              subject |-> Get(header, "subject", 0), files |-> content["attachments"].v]

BrowserReads ==
    /\ stage = "stored" /\ "browser" \notin DOMAIN got
    /\ LET entry == decodeMailboxEntry(wire.entry)
           h == decryptHeader(entry)
       IN  got' = ("browser" :> IF h.error # "" THEN [error |-> h.error]
                                ELSE decryptBody(entry, decodeMailboxBody(wire.body), h.header)) @@ got
    /\ UNCHANGED <<stage, sent, wire, sealed>>

\* DecryptHeader and DecryptBody in Go verify what they re-marshal from what they parsed.
DaemonReads ==
    /\ stage = "stored" /\ "daemon" \notin DOMAIN got
    /\ LET entry == decode("MailboxEntry", wire.entry)
           recipients == entry["recipients"].v
           kdf == Generation(recipients, ReaderKey)
           sh == Parsed("SignedHeader", sealed.header.plain)
           header == sh["header"].v
           content == Parsed("MessageContent", sealed.body.plain)
           body == content["body"].v
       IN  got' = ("daemon" :>
              IF ~Unwraps(recipients, ReaderKey) \/ headerAAD(kdf) # sealed.header.aad
                 \/ bodyAAD(kdf) # sealed.body.aad
              THEN [error |-> "not decrypted"]
              ELSE IF Marshal("MessageHeader", header) # sealed.signed
              THEN [error |-> "header signature"]
              ELSE IF Marshal("MessageContent", content) # sealed.hashed
              THEN [error |-> "body hash"]
              ELSE [error |-> "", text |-> Get(body, "content", 0),
                    subject |-> Get(header, "subject", 0), files |-> content["attachments"].v]) @@ got
    /\ UNCHANGED <<stage, sent, wire, sealed>>

---------------------------------------------------------------------------
(* A bridge's attestation: a classification of inbound mail or a delivery receipt, signed by
   the bridge and carrying the credential the domain's root signed for it. *)

Unsigned == {"bridgeSignature", "bridgeCredential"}
Now == 100

\* The fields of an attestation and of a credential besides the ones the check looks at: all
\* of them zero, or all of them set.
Attested(type, signer, level) ==
    IF type = "BridgeClassificationRecord"
    THEN [bridgeAddress |-> String(91), bridgePublicKey |-> Bytes(signer), smtpFrom |-> String(92),
          smtpSenderIp |-> String(93), spfResult |-> Number(level), dkimResult |-> Number(level),
          dmarcResult |-> Number(level), reputationScore |-> Number(level),
          trustTier |-> Number(level), classifiedAt |-> Number(94)]
    ELSE [originalMessageId |-> Bytes(71), recipientEmail |-> String(95),
          bridgeAddress |-> String(91), deliveredAt |-> Number(94), success |-> Bool(level),
          errorDetail |-> String(1 - level)]

CredentialOf(c, level) ==
    [version |-> Number(1), subject |-> Bytes(c.subject), domain |-> String(96),
     address |-> String(level), roles |-> Texts(<<c.role>>), issuedAt |-> Number(97),
     notAfter |-> Number(c.notAfter), scope |-> String(level), issuerPub |-> Bytes(c.issuer),
     relayHints |-> Texts(IF level = 0 THEN <<>> ELSE <<98>>), effectiveFrom |-> Number(c.from)]

\* The Go bridge: Sign over the record without signature and credential, then Marshal.
BridgeAttests(type, signer, sender, level, creds) ==
    /\ stage = "idle"
    /\ LET rec == Attested(type, signer, level)
           cred == IF creds = {} THEN <<>> ELSE CredentialOf(CHOOSE c \in creds : TRUE, level)
           carried == IF creds = {} THEN <<>>
                      ELSE [bridgeCredential |-> Obj(cred @@ [signature |-> Bytes(99)])]
           whole == rec @@ [bridgeSignature |-> Bytes(HeaderSig)] @@ carried
       IN  /\ wire' = Marshal(type, ThroughGo(type, whole))
           /\ sealed' = [attested |-> SignableBytes(type, ThroughGo(type, rec), Unsigned),
                         credential |-> Marshal("Credential", cred)]
    /\ sent' = [type |-> type, signer |-> signer, sender |-> sender]
    /\ stage' = "attested" /\ UNCHANGED got

\* Mutant: the credential stays among the bytes that were signed.
decodeAttestationWhole(type, data) ==
    [record |-> toObject(type, decode(type, data), Numbers),
     signable |-> encode(type, Without(decode(type, data), {"bridgeSignature"}))]

\* decodeBridgeClassification and decodeDeliveryReceipt: the fields, and the bytes that were
\* signed, by encoding what was decoded without the signature and the credential.
decodeAttestation(type, data) ==
    [record |-> toObject(type, decode(type, data), Numbers),
     signable |-> encode(type, Without(decode(type, data), Unsigned))]

\* extractCredential, for either record.
extractCredential(type, data) ==
    LET msg == decode(type, data)
    IN  IF "bridgeCredential" \notin DOMAIN msg THEN {}
        ELSE {[credential |-> toObject("Credential", msg["bridgeCredential"].v, Numbers),
               signable |-> encode("Credential", Without(msg["bridgeCredential"].v, {"signature"}))]}

verifyCredential(creds, signerKey) ==
    \E c \in creds :
       LET cred == c.credential
       IN  /\ Get(cred, "issuerPub", 0) = RootKey
           /\ c.signable = sealed.credential
           /\ \E i \in DOMAIN Get(cred, "roles", <<>>) : cred["roles"].v[i].v = RoleBridge
           /\ Get(cred, "subject", 0) = signerKey
           /\ Get(cred, "notAfter", 0) = 0 \/ Now <= Get(cred, "notAfter", 0)
           /\ Get(cred, "effectiveFrom", 0) = 0 \/ Now >= Get(cred, "effectiveFrom", 0)

\* A signature made with key k over the attested bytes verifies under k alone.
verify(key, bytes) == key = sent.signer /\ bytes = sealed.attested

verifyClassificationLocal(data, sender) ==
    LET d == decodeAttestation("BridgeClassificationRecord", data)
        key == Get(d.record, "bridgePublicKey", 0)
    IN  /\ verify(key, d.signable)
        /\ sender = 0 \/ key = sender
        /\ verifyCredential(extractCredential("BridgeClassificationRecord", data), key)

verifyReceiptLocal(data, sender) ==
    LET d == decodeAttestation("BridgeDeliveryReceipt", data)
    IN  /\ sender # 0
        /\ verify(sender, d.signable)
        /\ verifyCredential(extractCredential("BridgeDeliveryReceipt", data), sender)

\* verifyBridgeCredential, VerifyClassificationAttestation and VerifyDeliveryReceipt in Go.
VerifiedInGo(type, data) ==
    LET rec == Parsed(type, data)
        cred == rec["bridgeCredential"].v
        signer == IF type = "BridgeClassificationRecord" THEN Get(rec, "bridgePublicKey", 0)
                  ELSE Get(cred, "subject", 0)
    IN  /\ "bridgeCredential" \in DOMAIN rec
        /\ Get(cred, "issuerPub", 0) = RootKey
        /\ SignableBytes("Credential", cred, {"signature"}) = sealed.credential
        /\ \E i \in DOMAIN cred["roles"].v : cred["roles"].v[i].v = RoleBridge
        /\ Get(cred, "subject", 0) = signer
        /\ Get(cred, "notAfter", 0) = 0 \/ Now <= Get(cred, "notAfter", 0)
        /\ Get(cred, "effectiveFrom", 0) = 0 \/ Now >= Get(cred, "effectiveFrom", 0)
        /\ verify(signer, SignableBytes(type, rec, Unsigned))

BrowserVerifies ==
    /\ stage = "attested" /\ "browser" \notin DOMAIN got
    /\ got' = ("browser" :> IF sent.type = "BridgeClassificationRecord"
                            THEN verifyClassificationLocal(wire, sent.sender)
                            ELSE verifyReceiptLocal(wire, sent.sender)) @@ got
    /\ UNCHANGED <<stage, sent, wire, sealed>>

DaemonVerifies ==
    /\ stage = "attested" /\ "daemon" \notin DOMAIN got
    /\ got' = ("daemon" :> VerifiedInGo(sent.type, wire)) @@ got
    /\ UNCHANGED <<stage, sent, wire, sealed>>

---------------------------------------------------------------------------
(* Every type on its own. *)

Levels == {"absent", "zero", "set"}

\* An object the application builds: one field at level "odd", the others at level "base",
\* and the same within the messages it holds.  Of a oneof only that one field may be there.
RECURSIVE Sample(_, _, _, _)
Sampled(rows, members, base, name, odd) ==
    LET Type(f) == IF f.kind \in {"long", "enum"} THEN "number" ELSE f.kind
        Some(f) == IF f.kind = "enum" THEN 2 ELSE 200 + f.id
        One(f, level) == IF Nests(f) THEN Obj(Sample(f.kind, level, "", level))
                         ELSE Js(Type(f), IF level = "set" THEN Some(f) ELSE 0)
        Value(f, level) == IF ~f.many THEN One(f, level)
                           ELSE IF level = "zero" THEN Arr(<<>>)
                           ELSE Arr(<<One(f, "set"), One(f, IF Nests(f) THEN "absent" ELSE "zero")>>)
        Level(f) == IF f.name = name THEN odd ELSE base
        own == {f \in ToSet(rows) : Level(f) # "absent" /\ (f.name \in members => f.name = name)}
    IN  [n \in Names(own) |-> Value(Named(rows, n), Level(Named(rows, n)))]
Sample(t, base, name, odd) == Sampled(Schema[t], OneOf(t), base, name, odd)

\* What the browser writes for it, what Go writes for it, and what the browser writes again
\* after decoding those bytes, as they stand and through canonical().
TypeTravels(t, base, name, odd) ==
    /\ stage = "idle"
    /\ LET o == Sample(t, base, name, odd)
           go == Marshal(t, o)
       IN  /\ wire' = go
           /\ got' = [canonically |-> Canonically(t, o), verbatim |-> encode(t, decode(t, go)),
                      again |-> Canonically(t, decode(t, go)), go |-> Marshal(t, decode(t, go))]
    /\ sent' = [type |-> t] /\ stage' = "type" /\ UNCHANGED sealed

\* The same as a plain object in each form, read back and written again.
ObjectTravels(t, base, name, odd) ==
    /\ stage = "idle"
    /\ LET m == decode(t, Marshal(t, Sample(t, base, name, odd)))
           Again(options) == encode(t, fromObject(t, toObject(t, m, options)))
       IN  /\ wire' = encode(t, m)
           /\ got' = [asIs |-> Again(AsIs), numbers |-> Again(Numbers), json |-> Again(toJSONOptions),
                      complete |-> Marshal(t, decode(t, Again(Complete))),
                      delimited |-> encode(t, decodeDelimited(t, encodeDelimited(t, m)))]
           /\ sealed' = [valid |-> verifyObject(t, m)]
    /\ sent' = [type |-> t] /\ stage' = "object"

---------------------------------------------------------------------------
(* Padding: lib/crypto/encrypt.ts and decrypt.ts, and their Go counterparts. *)

MB == 1048576
SIZE_CLASSES == {1024, 4096, 16384, 65536, 262144, MB}
Smallest(S) == CHOOSE x \in S : \A y \in S : x <= y

selectSizeClass(size) ==
    LET needed == size + 4
        fits == {sc \in SIZE_CLASSES : needed <= sc}
    IN  IF fits # {} THEN Smallest(fits) ELSE ((needed + MB - 1) \div MB) * MB

\* A padded payload: the four bytes of its length, what fits of the payload, and the size.
padPayload(size, target) ==
    [prefix |-> <<(size \div 16777216) % 256, (size \div 65536) % 256, (size \div 256) % 256, size % 256>>,
     kept |-> IF size + 4 <= target THEN size ELSE target - 4, size |-> target]

unpadPayload(p) ==
    LET actualLen == p.prefix[1] * 16777216 + p.prefix[2] * 65536 + p.prefix[3] * 256 + p.prefix[4]
    IN  IF p.size < 4 \/ actualLen + 4 > p.size THEN [error |-> "unpad"]
        ELSE [error |-> "", size |-> actualLen, whole |-> actualLen <= p.kept]

Pads(size) ==
    /\ stage = "idle"
    /\ LET p == padPayload(size, selectSizeClass(size)) IN got' = unpadPayload(p) /\ wire' = p.size
    /\ sent' = size /\ stage' = "padded" /\ UNCHANGED sealed

---------------------------------------------------------------------------

\* The mails that are composed, and the credentials a bridge may carry.
Mails == {[subject |-> s, replyTo |-> r, text |-> Renderings(b).text, html |-> Renderings(b).html,
           files |-> f, to |-> IF c THEN <<>> ELSE <<74>>, cc |-> IF c THEN <<74, 76>> ELSE <<>>,
           bcc |-> IF c THEN <<77>> ELSE <<>>] :
             s \in {0, 78}, r \in {0, 79}, b \in Typed, c \in BOOLEAN,
             f \in {<<>>, <<File(66, 67, FALSE)>>, <<File(66, 0, FALSE), File(66, 67, TRUE)>>}}

OtherKey == 14
Creds == [subject : {SenderKey, OtherKey}, role : {RoleBridge, 34}, issuer : {RootKey, OtherKey},
          notAfter : {0, 50, 150}, from : {0, 50, 150}]

Next ==
    \/ \E m \in Mails : BrowserSends(m)
    \/ \E m \in Mails, kdf \in {0, KDF_V2} : DaemonSends(m, kdf)
    \/ RelayAccepts \/ BrowserReads \/ DaemonReads
    \/ \E type \in {"BridgeClassificationRecord", "BridgeDeliveryReceipt"},
          signer \in {SenderKey, OtherKey}, sender \in {0, SenderKey}, level \in {0, 1},
          creds \in {{}} \cup {{c} : c \in Creds} :
             BridgeAttests(type, signer, sender, level, creds)
    \/ BrowserVerifies \/ DaemonVerifies
    \/ \E t \in DOMAIN Schema : \E base, odd \in Levels, f \in ToSet(Schema[t]) \cup {[name |-> ""]} :
          TypeTravels(t, base, f.name, odd) \/ ObjectTravels(t, base, f.name, odd)
    \/ \E n \in Lengths : Pads(n)

Spec == Init /\ [][Next]_vars

---------------------------------------------------------------------------

\* What a composer seals, the relay accepts: the hash the browser signs for STORE is the hash
\* of the bytes Go marshals from its own view of the envelope (encodeSplitEnvelope and
\* EncryptedEnvelope.ToProto).
StoreAccepted == stage # "refused"

\* Every reader of a stored mail decrypts and verifies it, and shows the subject, the text,
\* the html part and the attachments that were composed; a text half that is blank is replaced
\* by the text of the html part, so that what has something to read is never shown as nothing.
ReadsWhatWasWritten ==
    stage = "stored" =>
       \A r \in DOMAIN got :
          /\ got[r].error = ""
          /\ got[r].subject = sent.subject
          /\ [i \in DOMAIN got[r].files |-> Get(got[r].files[i].v, "content", 0)]
               = [i \in DOMAIN sent.files |-> sent.files[i]["content"].v]
          /\ r = "daemon" => got[r].text = sent.text
          /\ r = "browser" => /\ got[r].html = sent.html
                              /\ got[r].text = IF IsBlank(sent.text) /\ sent.html # 0
                                               THEN toPlainText(sent.html) ELSE sent.text

\* A mail that can be composed is stored and read.
MailArrives == StoreAccepted /\ ReadsWhatWasWritten

\* A header the browser signed verifies in the browser that reads it.
HeaderVerifies ==
    stage = "stored" /\ "browser" \in DOMAIN got
       => got["browser"].error # "header signature verification failed"

\* The browser and Go reach the same verdict on an attestation, except that the browser also
\* ties it to the message it came with: both must recompute exactly the bytes the bridge and
\* the domain's root signed, whichever fields are zero.
VerdictsAgree ==
    stage = "attested" /\ DOMAIN got = {"browser", "daemon"} =>
       LET tied == \/ sent.sender = sent.signer
                   \/ sent.sender = 0 /\ sent.type = "BridgeClassificationRecord"
       IN  got["browser"] = (got["daemon"] /\ tied)

\* For every type and any mix of absent, zero and set fields, the browser's canonical encoding
\* is Go's, and decoding those bytes and encoding them again gives them back, with and without
\* canonical(): what was signed on one side verifies on the other.
SameBytes == stage = "type" => \A how \in DOMAIN got : got[how] = wire

\* A message turned into a plain object and back, whatever the form of its numbers, enums and
\* bytes, is the message: its bytes are the same, and with the defaults filled in Go still reads
\* it as the same.  What decode returns, verify accepts.
SameObject == stage = "object" => sealed.valid /\ \A how \in DOMAIN got : got[how] = wire

\* A payload padded to its size class comes back whole, at every boundary of the classes.
PaddingIsUndone == stage = "padded" => got.error = "" /\ got.size = sent /\ got.whole

\* What one side writes is what the other side has and gets back.
BytesAgree == SameBytes /\ SameObject /\ PaddingIsUndone

=============================================================================
