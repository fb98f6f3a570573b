---------------------------- MODULE WireSchema ----------------------------
(***************************************************************************)
(* The wire formats of the system, one definition per message type of the  *)
(* generated codec cmd/dmcnd/web/app/proto/dmcn.js.  A definition is the   *)
(* sequence of the type's fields in the order its encode() writes them: a  *)
(* field has a number on the wire, the property that holds it, the kind of *)
(* value its decode() case reads, and whether it is repeated.  The         *)
(* constructor starts a repeated field as [] and a map as {}; every other  *)
(* property is absent until it is assigned.                                *)
(*                                                                         *)
(* Wire.tla gives the behaviour the generated functions share: what        *)
(* create, encode and decode do with these rows.                           *)
(***************************************************************************)
EXTENDS Naturals, Sequences

Field(id, name, kind) == [id |-> id, name |-> name, kind |-> kind, many |-> FALSE, enum |-> {}]

\* uint32, int32 and enum fields are JavaScript numbers; 64-bit ones are read as a Long.
Num(id, name) == Field(id, name, "number")
Enm(id, name, values) == [Field(id, name, "enum") EXCEPT !.enum = values]
Lng(id, name) == Field(id, name, "long")
Boo(id, name) == Field(id, name, "boolean")
Str(id, name) == Field(id, name, "string")
Byt(id, name) == Field(id, name, "bytes")

\* A nested message of type t, a map<string, string>, and a repeated field.
Msg(id, name, t) == Field(id, name, t)
Map(id, name) == [Field(id, name, "map") EXCEPT !.many = TRUE]
Many(f) == [f EXCEPT !.many = TRUE]

---------------------------------------------------------------------------
(* The enums: the values that have a name. *)

VerificationTier == {0, 2, 3}
AttestationType == 0..4
RecordKind == 0..6
BridgeTrustTier == 0..3
SPFResult == 0..4
DKIMResult == 0..2
DMARCResult == 0..2

---------------------------------------------------------------------------
(* Namespace dmcn.identity. *)

AttestationRecord ==
    <<Str(1, "attesterAddress"), Byt(2, "attesterPubkey"), Str(3, "subjectAddress"),
      Byt(4, "subjectPubkey"), Enm(5, "attestationType", AttestationType), Lng(6, "attestedAt"),
      Lng(7, "expiresAt"), Byt(8, "signature")>>

IdentityRecord ==
    <<Num(1, "version"), Str(2, "address"), Byt(3, "ed25519PublicKey"),
      Byt(4, "x25519PublicKey"), Lng(5, "createdAt"), Lng(6, "expiresAt"),
      Many(Str(7, "relayHints")), Enm(8, "verificationTier", VerificationTier),
      Many(Msg(9, "attestations", "AttestationRecord")), Byt(10, "selfSignature"),
      Boo(23, "requireOnion"), Msg(24, "addressCredential", "Credential"),
      Msg(25, "routingCredential", "Credential"), Lng(26, "revision"),
      Many(Msg(28, "operatorCredentials", "Credential")),
      Many(Msg(29, "rotationChain", "RotationEntry")), Byt(30, "recoveryEd25519PublicKey"),
      Str(31, "forwardTo")>>

AuthorityKey ==
    <<Byt(1, "ed25519PublicKey"), Byt(2, "x25519PublicKey"), Lng(3, "effectiveFrom"),
      Num(4, "rotationReason")>>

DomainAuthorityRecord ==
    <<Num(1, "version"), Str(2, "domain"), Byt(3, "authorityEd25519PublicKey"),
      Byt(4, "authorityX25519PublicKey"), Lng(5, "authorityEffectiveFrom"),
      Many(Msg(6, "supersededKeys", "AuthorityKey")), Num(8, "policyFlags"),
      Lng(9, "createdAt"), Lng(10, "revision"), Byt(11, "selfSignature"),
      Many(Msg(12, "authorityCredentials", "Credential")),
      Many(Str(13, "reservedLocalParts")), Str(14, "fleetDomain"),
      Num(15, "rotationMinDeviceAgeDays"), Num(16, "deviceRecoveryDelayHours")>>

FleetNode == <<Str(1, "peerId"), Many(Str(2, "multiaddrs")), Many(Str(3, "roles"))>>

FleetRoster ==
    <<Num(1, "version"), Str(2, "fleetDomain"), Many(Msg(3, "nodes", "FleetNode")),
      Lng(4, "revision"), Lng(5, "createdAt"), Byt(6, "selfSignature")>>

Credential ==
    <<Num(1, "version"), Byt(2, "subject"), Str(3, "domain"), Str(4, "address"),
      Many(Str(5, "roles")), Many(Str(6, "grants")), Map(7, "attributes"),
      Lng(8, "issuedAt"), Lng(9, "notAfter"), Str(10, "scope"), Byt(11, "issuerPub"),
      Byt(12, "signature"), Many(Str(13, "relayHints")), Lng(14, "effectiveFrom")>>

CredentialBlock ==
    <<Byt(1, "pubkey"), Lng(2, "effectiveFrom"), Boo(3, "compromised"),
      Lng(4, "compromisedSince"), Lng(5, "createdAt")>>

CredentialBlockList ==
    <<Str(1, "domain"), Many(Msg(2, "blocks", "CredentialBlock")), Lng(3, "revision"),
      Byt(4, "signature")>>

CredentialBundle ==
    <<Msg(1, "credential", "Credential"), Msg(2, "dar", "DomainAuthorityRecord")>>

JoinRequest ==
    <<Msg(1, "credential", "Credential"), Msg(2, "dar", "DomainAuthorityRecord"),
      Many(Msg(3, "bundles", "CredentialBundle"))>>

JoinResponse ==
    <<Boo(1, "accepted"), Str(2, "error"), Msg(3, "credential", "Credential"),
      Msg(4, "dar", "DomainAuthorityRecord"), Many(Msg(5, "bundles", "CredentialBundle"))>>

RemovedBinding == <<Byt(1, "ed25519PublicKey"), Lng(2, "removedAt")>>

AddressRemovalRecord ==
    <<Num(1, "version"), Str(2, "domain"), Str(3, "address"),
      Many(Msg(4, "removedBindings", "RemovedBinding")), Lng(5, "revision"),
      Lng(6, "createdAt"), Byt(7, "selfSignature")>>

\* Mutant: encode() writes the device's signature before its credential.
RotationEntrySwapped ==
    <<Num(1, "version"), Str(2, "address"), Byt(3, "retiredEd25519PublicKey"),
      Byt(4, "retiredX25519PublicKey"), Byt(5, "nextEd25519PublicKey"),
      Byt(6, "nextX25519PublicKey"), Lng(7, "rotatedAt"), Lng(8, "nextRevision"),
      Byt(9, "prevSignatureHash"), Byt(10, "authorizingEd25519PublicKey"),
      Byt(12, "deviceSignature"), Msg(11, "deviceCredential", "Credential"),
      Byt(13, "signature"), Byt(14, "nextSignature")>>

RotationEntry ==
    <<Num(1, "version"), Str(2, "address"), Byt(3, "retiredEd25519PublicKey"),
      Byt(4, "retiredX25519PublicKey"), Byt(5, "nextEd25519PublicKey"),
      Byt(6, "nextX25519PublicKey"), Lng(7, "rotatedAt"), Lng(8, "nextRevision"),
      Byt(9, "prevSignatureHash"), Byt(10, "authorizingEd25519PublicKey"),
      Msg(11, "deviceCredential", "Credential"), Byt(12, "deviceSignature"),
      Byt(13, "signature"), Byt(14, "nextSignature")>>

AddressHistoryRecord ==
    <<Num(1, "version"), Str(2, "domain"), Str(3, "address"),
      Many(Msg(4, "chain", "RotationEntry"))>>

CompromisedKey ==
    <<Byt(1, "ed25519PublicKey"), Lng(2, "compromisedAt"), Lng(3, "retentionUntil")>>

RelayDescriptor ==
    <<Str(1, "peerId"), Byt(2, "x25519PublicKey"), Many(Str(3, "multiaddrs")),
      Lng(4, "createdAt"), Lng(5, "revision"), Byt(6, "signature"), Str(7, "domain"),
      Msg(11, "credential", "Credential")>>

KeyCompromiseRecord ==
    <<Num(1, "version"), Str(2, "domain"),
      Many(Msg(3, "compromisedKeys", "CompromisedKey")), Lng(4, "revision"),
      Lng(5, "createdAt"), Byt(6, "selfSignature")>>

---------------------------------------------------------------------------
(* Namespace dmcn.message. *)

MessageBody == <<Str(1, "contentType"), Byt(2, "content")>>

AttachmentRecord ==
    <<Byt(1, "attachmentId"), Str(2, "filename"), Str(3, "contentType"),
      Lng(4, "sizeBytes"), Byt(5, "contentHash"), Byt(6, "content"), Str(7, "contentId"),
      Str(8, "disposition")>>

PlaintextMessage ==
    <<Num(1, "version"), Byt(2, "messageId"), Byt(3, "threadId"), Str(4, "senderAddress"),
      Byt(5, "senderPublicKey"), Str(6, "recipientAddress"), Lng(7, "sentAt"),
      Str(8, "subject"), Msg(9, "body", "MessageBody"),
      Many(Msg(10, "attachments", "AttachmentRecord")), Byt(11, "replyToId"),
      Many(Msg(12, "alternatives", "MessageBody")), Str(13, "senderDisplay")>>

SignedMessage == <<Msg(1, "plaintext", "PlaintextMessage"), Byt(2, "senderSignature")>>

MessageHeader ==
    <<Num(1, "version"), Byt(2, "messageId"), Byt(3, "threadId"), Str(4, "senderAddress"),
      Byt(5, "senderPublicKey"), Str(6, "recipientAddress"), Lng(7, "sentAt"),
      Str(8, "subject"), Num(9, "attachmentCount"), Lng(10, "bodySize"), Str(11, "snippet"),
      Byt(12, "replyToId"), Byt(13, "bodyHash"), Byt(14, "bodyContentAddress"),
      Many(Str(15, "to")), Many(Str(16, "cc")), Many(Str(17, "bcc")),
      Str(18, "senderDisplay")>>

SignedHeader == <<Msg(1, "header", "MessageHeader"), Byt(2, "senderSignature")>>

MessageContent ==
    <<Msg(1, "body", "MessageBody"), Many(Msg(2, "attachments", "AttachmentRecord")),
      Many(Msg(3, "alternatives", "MessageBody"))>>

RecipientRecord ==
    <<Byt(1, "deviceId"), Byt(2, "recipientXPub"), Byt(3, "ephemeralXPub"),
      Byt(4, "wrappedCek"), Byt(5, "cekNonce"), Byt(6, "cekTag"), Num(7, "kdf")>>

EncryptedEnvelope ==
    <<Num(1, "version"), Byt(2, "messageId"), Many(Msg(3, "recipients", "RecipientRecord")),
      Byt(4, "encryptedPayload"), Byt(5, "payloadNonce"), Byt(6, "payloadTag"),
      Num(7, "payloadSizeClass"), Lng(8, "createdAt"), Byt(9, "ratchetPubKey"),
      Byt(10, "encryptedHeader"), Byt(11, "headerNonce"), Byt(12, "headerTag"),
      Num(13, "headerSizeClass"), Byt(14, "encryptedBody"), Byt(15, "bodyNonce"),
      Byt(16, "bodyTag"), Num(17, "bodySizeClass"), Byt(18, "bodyContentAddress")>>

---------------------------------------------------------------------------
(* Namespace dmcn.relay. *)

RelayRequest ==
    <<Msg(1, "store", "StoreRequest"), Msg(2, "fetchInit", "FetchInit"),
      Msg(3, "fetchProof", "FetchProof"), Msg(4, "ack", "AckRequest"),
      Msg(5, "ping", "PingRequest"), Msg(6, "mailboxOp", "MailboxOp"),
      Msg(7, "storeInit", "StoreInit"), Msg(8, "onionForward", "OnionForwardRequest"),
      Msg(19, "getIdentity", "GetIdentityRequest"), Msg(20, "getDar", "GetDARRequest"),
      Msg(21, "getFleetRoster", "GetFleetRosterRequest"),
      Msg(22, "getRemoval", "GetRemovalRequest"),
      Msg(23, "getBlocklist", "GetBlocklistRequest"),
      Msg(24, "putRecord", "PutRecordRequest"),
      Msg(25, "getRelayDescriptor", "GetRelayDescriptorRequest"),
      Msg(27, "getHistory", "GetHistoryRequest")>>

RelayResponse ==
    <<Msg(1, "store", "StoreResponse"), Msg(2, "fetchChallenge", "FetchChallenge"),
      Msg(3, "fetch", "FetchResponse"), Msg(4, "ack", "AckResponse"),
      Msg(5, "ping", "PingResponse"), Msg(6, "error", "ErrorResponse"),
      Msg(7, "mailboxList", "MailboxListResponse"),
      Msg(8, "mailboxBodyHeader", "MailboxBodyHeader"),
      Msg(9, "mailboxDelete", "MailboxDeleteResponse"),
      Msg(10, "onionForward", "OnionForwardResponse"),
      Msg(18, "mailboxKvPut", "MailboxKvPutResponse"),
      Msg(19, "mailboxKvGet", "MailboxKvGetResponse"),
      Msg(20, "mailboxKvList", "MailboxKvListResponse"),
      Msg(21, "mailboxKvDelete", "MailboxKvDeleteResponse"),
      Msg(22, "mailboxKvStat", "MailboxKvStatResponse"),
      Msg(28, "getIdentity", "GetIdentityResponse"), Msg(29, "getDar", "GetDARResponse"),
      Msg(30, "getFleetRoster", "GetFleetRosterResponse"),
      Msg(31, "getRemoval", "GetRemovalResponse"),
      Msg(32, "getBlocklist", "GetBlocklistResponse"),
      Msg(33, "putRecord", "PutRecordResponse"),
      Msg(34, "getRelayDescriptor", "GetRelayDescriptorResponse"),
      Msg(37, "getHistory", "GetHistoryResponse")>>

OnionPacket ==
    <<Num(1, "version"), Byt(2, "ephemeralPub"), Byt(3, "nonce"), Byt(4, "tag"),
      Byt(5, "encryptedLayer")>>

OnionLayer ==
    <<Str(1, "nextHop"), Lng(2, "ttlUnix"), Msg(3, "inner", "OnionPacket"),
      Byt(4, "delivery")>>

OnionForwardRequest == <<Msg(1, "packet", "OnionPacket")>>

OnionForwardResponse == <<Boo(1, "accepted")>>

StoreRequest ==
    <<Str(1, "senderAddress"), Byt(2, "senderSignature"),
      Msg(3, "envelope", "EncryptedEnvelope")>>

StoreResponse == <<Byt(1, "envelopeHash")>>

FetchInit == <<Str(1, "address")>>

FetchChallenge == <<Byt(1, "nonce")>>

FetchProof ==
    <<Str(1, "address"), Byt(2, "nonce"), Byt(3, "signature"),
      Byt(4, "deviceEd25519PublicKey"), Byt(5, "deviceSignature")>>

FetchResponse ==
    <<Many(Msg(1, "envelopes", "EncryptedEnvelope")), Many(Byt(2, "envelopeHashes"))>>

AckRequest == <<Byt(1, "envelopeHash")>>

AckResponse == <<Boo(1, "success")>>

PingRequest == <<>>

PingResponse ==
    <<Str(1, "version"), Lng(2, "uptimeSeconds"), Num(3, "storedEnvelopes"),
      Many(Str(4, "capabilities"))>>

GetIdentityRequest == <<Str(1, "address")>>

GetIdentityResponse == <<Boo(1, "found"), Byt(2, "record")>>

GetDARRequest == <<Str(1, "domain")>>

GetDARResponse == <<Boo(1, "found"), Byt(2, "record")>>

GetFleetRosterRequest == <<Str(1, "fleetDomain")>>

GetFleetRosterResponse == <<Boo(1, "found"), Byt(2, "record")>>

GetRemovalRequest == <<Str(1, "address")>>

GetRemovalResponse == <<Boo(1, "found"), Byt(2, "record")>>

GetBlocklistRequest == <<Str(1, "domain")>>

GetBlocklistResponse == <<Boo(1, "found"), Byt(2, "record")>>

GetHistoryRequest == <<Str(1, "address")>>

GetHistoryResponse == <<Boo(1, "found"), Byt(2, "record")>>

PutRecordRequest == <<Enm(1, "kind", RecordKind), Byt(2, "record")>>

PutRecordResponse == <<Boo(1, "accepted"), Str(2, "reason")>>

GetRelayDescriptorRequest == <<Str(1, "peerId")>>

GetRelayDescriptorResponse == <<Boo(1, "found"), Byt(2, "record")>>

ErrorResponse == <<Str(1, "code"), Str(2, "message")>>

PeersRequest == <<>>

PeersResponse == <<Many(Str(1, "peers"))>>

MailboxEntry ==
    <<Byt(1, "hash"), Lng(2, "storedAt"), Lng(3, "bodySize"),
      Many(Msg(4, "recipients", "RecipientRecord")), Byt(5, "encryptedHeader"),
      Byt(6, "headerNonce"), Byt(7, "headerTag"), Num(8, "headerSizeClass"),
      Byt(9, "bodyContentAddress")>>

MailboxBody ==
    <<Byt(1, "encryptedBody"), Byt(2, "bodyNonce"), Byt(3, "bodyTag"),
      Num(4, "bodySizeClass"), Byt(5, "bodyContentAddress")>>

MailboxOp ==
    <<Byt(1, "nonce"), Byt(2, "signature"), Msg(3, "list", "MailboxListOp"),
      Msg(4, "body", "MailboxBodyOp"), Msg(5, "delete", "MailboxDeleteOp"),
      Msg(8, "kvPut", "MailboxKvPutOp"), Msg(9, "kvGet", "MailboxKvGetOp"),
      Msg(10, "kvList", "MailboxKvListOp"), Msg(11, "kvDelete", "MailboxKvDeleteOp"),
      Msg(12, "kvStat", "MailboxKvStatOp"), Byt(14, "deviceEd25519PublicKey"),
      Byt(15, "deviceSignature")>>

MailboxListOp == <<Num(1, "limit"), Byt(2, "cursor")>>

MailboxBodyOp == <<Byt(1, "hash")>>

MailboxDeleteOp == <<Byt(1, "hash")>>

MailboxListResponse == <<Many(Msg(1, "entries", "MailboxEntry")), Byt(2, "nextCursor")>>

MailboxBodyHeader ==
    <<Byt(1, "bodyNonce"), Byt(2, "bodyTag"), Num(3, "bodySizeClass"),
      Lng(4, "bodyTotalSize")>>

MailboxDeleteResponse == <<Boo(1, "success")>>

StoreInit ==
    <<Str(1, "senderAddress"), Byt(2, "senderSignature"), Num(3, "version"),
      Byt(4, "messageId"), Lng(5, "createdAt"),
      Many(Msg(6, "recipients", "RecipientRecord")), Byt(7, "encryptedHeader"),
      Byt(8, "headerNonce"), Byt(9, "headerTag"), Num(10, "headerSizeClass"),
      Byt(11, "bodyNonce"), Byt(12, "bodyTag"), Num(13, "bodySizeClass"),
      Lng(14, "bodyTotalSize"), Byt(16, "bodyContentAddress")>>

MailboxKvPutOp == <<Str(1, "key"), Byt(2, "sealed"), Lng(3, "expectedVersion")>>

MailboxKvGetOp == <<Str(1, "key")>>

MailboxKvListOp == <<Str(1, "prefix"), Num(2, "limit"), Byt(3, "cursor"), Boo(4, "values")>>

MailboxKvDeleteOp == <<Str(1, "key")>>

MailboxKvStatOp == <<>>

MailboxKvPutResponse == <<Boo(1, "success"), Lng(2, "version")>>

MailboxKvGetResponse == <<Boo(1, "found"), Byt(2, "sealed"), Lng(3, "version")>>

MailboxKvItem == <<Str(1, "key"), Byt(2, "sealed"), Lng(3, "version")>>

MailboxKvListResponse == <<Many(Msg(1, "items", "MailboxKvItem")), Byt(2, "nextCursor")>>

MailboxKvDeleteResponse == <<Boo(1, "success")>>

MailboxKvStatResponse == <<Lng(1, "usedBytes"), Lng(2, "quotaBytes"), Lng(3, "count")>>

---------------------------------------------------------------------------
(* Namespace dmcn.bridge. *)

BridgeClassificationRecord ==
    <<Str(1, "bridgeAddress"), Byt(2, "bridgePublicKey"), Str(3, "smtpFrom"),
      Str(4, "smtpSenderIp"), Enm(5, "spfResult", SPFResult), Enm(6, "dkimResult", DKIMResult),
      Enm(7, "dmarcResult", DMARCResult), Num(8, "reputationScore"), Enm(9, "trustTier", BridgeTrustTier),
      Lng(10, "classifiedAt"), Byt(11, "bridgeSignature"),
      Msg(12, "bridgeCredential", "Credential")>>

BridgeDeliveryReceipt ==
    <<Byt(1, "originalMessageId"), Str(2, "recipientEmail"), Str(3, "bridgeAddress"),
      Lng(4, "deliveredAt"), Boo(5, "success"), Str(6, "errorDetail"),
      Byt(7, "bridgeSignature"), Msg(8, "bridgeCredential", "Credential")>>

---------------------------------------------------------------------------
\* The members of a type's oneof, of which an object holds at most one.
OneOf(t) ==
    CASE t = "RelayRequest" -> {f.name : f \in {RelayRequest[i] : i \in DOMAIN RelayRequest}}
      [] t = "RelayResponse" -> {f.name : f \in {RelayResponse[i] : i \in DOMAIN RelayResponse}}
      [] t = "MailboxOp" -> {"list", "body", "delete", "kvPut", "kvGet", "kvList", "kvDelete", "kvStat"}
      [] OTHER -> {}

---------------------------------------------------------------------------
\* The codec by the name lookupType() is given.
Schema ==
    [AttestationRecord |-> AttestationRecord, IdentityRecord |-> IdentityRecord,
     AuthorityKey |-> AuthorityKey, DomainAuthorityRecord |-> DomainAuthorityRecord,
     FleetNode |-> FleetNode, FleetRoster |-> FleetRoster, Credential |-> Credential,
     CredentialBlock |-> CredentialBlock, CredentialBlockList |-> CredentialBlockList,
     CredentialBundle |-> CredentialBundle, JoinRequest |-> JoinRequest,
     JoinResponse |-> JoinResponse, RemovedBinding |-> RemovedBinding,
     AddressRemovalRecord |-> AddressRemovalRecord, RotationEntry |-> RotationEntry,
     AddressHistoryRecord |-> AddressHistoryRecord, CompromisedKey |-> CompromisedKey,
     RelayDescriptor |-> RelayDescriptor, KeyCompromiseRecord |-> KeyCompromiseRecord,
     MessageBody |-> MessageBody, AttachmentRecord |-> AttachmentRecord,
     PlaintextMessage |-> PlaintextMessage, SignedMessage |-> SignedMessage,
     MessageHeader |-> MessageHeader, SignedHeader |-> SignedHeader,
     MessageContent |-> MessageContent, RecipientRecord |-> RecipientRecord,
     EncryptedEnvelope |-> EncryptedEnvelope, RelayRequest |-> RelayRequest,
     RelayResponse |-> RelayResponse, OnionPacket |-> OnionPacket,
     OnionLayer |-> OnionLayer, OnionForwardRequest |-> OnionForwardRequest,
     OnionForwardResponse |-> OnionForwardResponse, StoreRequest |-> StoreRequest,
     StoreResponse |-> StoreResponse, FetchInit |-> FetchInit,
     FetchChallenge |-> FetchChallenge, FetchProof |-> FetchProof,
     FetchResponse |-> FetchResponse, AckRequest |-> AckRequest,
     AckResponse |-> AckResponse, PingRequest |-> PingRequest,
     PingResponse |-> PingResponse, GetIdentityRequest |-> GetIdentityRequest,
     GetIdentityResponse |-> GetIdentityResponse, GetDARRequest |-> GetDARRequest,
     GetDARResponse |-> GetDARResponse, GetFleetRosterRequest |-> GetFleetRosterRequest,
     GetFleetRosterResponse |-> GetFleetRosterResponse,
     GetRemovalRequest |-> GetRemovalRequest, GetRemovalResponse |-> GetRemovalResponse,
     GetBlocklistRequest |-> GetBlocklistRequest,
     GetBlocklistResponse |-> GetBlocklistResponse, GetHistoryRequest |-> GetHistoryRequest,
     GetHistoryResponse |-> GetHistoryResponse, PutRecordRequest |-> PutRecordRequest,
     PutRecordResponse |-> PutRecordResponse,
     GetRelayDescriptorRequest |-> GetRelayDescriptorRequest,
     GetRelayDescriptorResponse |-> GetRelayDescriptorResponse,
     ErrorResponse |-> ErrorResponse, PeersRequest |-> PeersRequest,
     PeersResponse |-> PeersResponse, MailboxEntry |-> MailboxEntry,
     MailboxBody |-> MailboxBody, MailboxOp |-> MailboxOp, MailboxListOp |-> MailboxListOp,
     MailboxBodyOp |-> MailboxBodyOp, MailboxDeleteOp |-> MailboxDeleteOp,
     MailboxListResponse |-> MailboxListResponse, MailboxBodyHeader |-> MailboxBodyHeader,
     MailboxDeleteResponse |-> MailboxDeleteResponse, StoreInit |-> StoreInit,
     MailboxKvPutOp |-> MailboxKvPutOp, MailboxKvGetOp |-> MailboxKvGetOp,
     MailboxKvListOp |-> MailboxKvListOp, MailboxKvDeleteOp |-> MailboxKvDeleteOp,
     MailboxKvStatOp |-> MailboxKvStatOp, MailboxKvPutResponse |-> MailboxKvPutResponse,
     MailboxKvGetResponse |-> MailboxKvGetResponse, MailboxKvItem |-> MailboxKvItem,
     MailboxKvListResponse |-> MailboxKvListResponse,
     MailboxKvDeleteResponse |-> MailboxKvDeleteResponse,
     MailboxKvStatResponse |-> MailboxKvStatResponse,
     BridgeClassificationRecord |-> BridgeClassificationRecord,
     BridgeDeliveryReceipt |-> BridgeDeliveryReceipt]

===========================================================================
