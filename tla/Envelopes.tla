----------------------------- MODULE Envelopes -----------------------------
(***************************************************************************)
(* The codec of the RPC messages (serializeEnvelope, deserializeEnvelope,  *)
(* validateEnvelopeShape) on the envelopes that the client and the server  *)
(* send.  A value is a tree: a function from paths, the sequences of the   *)
(* keys that lead to what is in it, to nodes.  A node is a text, bytes,    *)
(* undefined, null, a list or an object; the keys of a list are the names  *)
(* of its positions.                                                       *)
(***************************************************************************)
EXTENDS Naturals, Sequences, SequencesExt

Tag == "__tcRpcType"
Base64 == "base64"

Node(kind, content) == [is |-> kind, of |-> content]
Leaf(node) == [path \in {<<>>} |-> node]
Text(x) == Leaf(Node("text", x))
Bytes(x) == Leaf(Node("bytes", x))
Undefined == Leaf(Node("undefined", "nothing"))
Null == Leaf(Node("null", "nothing"))

(* A list or an object of values, from their keys.                         *)
Branch(kind, values) ==
  [path \in {<<>>} \cup UNION {{<<key>> \o rest : rest \in DOMAIN values[key]} : key \in DOMAIN values} |->
     IF path = <<>> THEN Node(kind, "nothing") ELSE values[path[1]][Tail(path)]]
List(values) == Branch("list", values)
Object(values) == Branch("object", values)

Above(path) == {SubSeq(path, 1, n) : n \in 0..(Len(path) - 1)}
IsKind(v, path, kind) == path \in DOMAIN v /\ v[path].is = kind

EncodeWireValue(v) ==
  LET bytes == {path \in DOMAIN v : v[path].is = "bytes"}
  IN [path \in DOMAIN v \cup {Append(over, key) : over \in bytes, key \in {Tag, Base64}} |->
        IF path \in bytes THEN Node("object", "nothing")
        ELSE IF path \in DOMAIN v THEN v[path]
        ELSE Node("text", IF Last(path) = Tag THEN "u8" ELSE v[Front(path)].of)]

(* JSON.stringify and JSON.parse: undefined is left out of an object and   *)
(* becomes null in a list.                                                 *)
Json(v) ==
  [path \in {p \in DOMAIN v : p # <<>> /\ v[p].is = "undefined" => v[Front(p)].is # "object"} |->
     IF v[path].is = "undefined" THEN Node("null", "nothing") ELSE v[path]]

Tagged(v, path) ==
  /\ IsKind(v, path, "object")
  /\ IsKind(v, Append(path, Tag), "text") /\ v[Append(path, Tag)].of = "u8"
  /\ IsKind(v, Append(path, Base64), "text")

(* The values at these paths are bytes: what is below them belongs to it.  *)
WithBytes(v, bytes) ==
  [path \in {p \in DOMAIN v : Above(p) \cap bytes = {}} |->
     IF path \in bytes THEN Node("bytes", v[Append(path, Base64)].of) ELSE v[path]]

(* Variant with a fault: the values of a list are not looked at.           *)
DecodeShallow(v) ==
  WithBytes(v, {path \in DOMAIN v : Tagged(v, path) /\ \A over \in Above(path) : v[over].is # "list"})

DecodeWireValue(v) == WithBytes(v, {path \in DOMAIN v : Tagged(v, path)})

Has(v, path) == path \in DOMAIN v /\ v[path].is # "undefined"
IsWireError(v, path) ==
  /\ Has(v, path \o <<"code">>) /\ v[path \o <<"code">>].is # "null"
  /\ IsKind(v, path \o <<"message">>, "text")

MessageTypes == {"handshake", "handshake_ack", "request", "response", "event", "error"}
ValidateEnvelopeShape(v) ==
  LET type == v[<<"type">>].of
  IN /\ IsKind(v, <<"id">>, "text") /\ IsKind(v, <<"type">>, "text") /\ type \in MessageTypes
     /\ type = "handshake_ack" => IsKind(v, <<"clientId">>, "text")
     /\ type \in {"request", "event"} => IsKind(v, <<"channel">>, "text")
     /\ type = "response" /\ Has(v, <<"error">>) => IsWireError(v, <<"error">>)
     /\ type = "error" => IsWireError(v, <<"error">>)

Received(envelope) == DecodeWireValue(Json(EncodeWireValue(envelope)))

-----------------------------------------------------------------------------
(* The envelopes that are sent, with a payload from outside.               *)

Envelope(type, fields) ==
  Object([key \in {"id", "type"} \cup DOMAIN fields |->
            IF key = "id" THEN Text("id") ELSE IF key = "type" THEN Text(type) ELSE fields[key]])
Failure == Object([code |-> Text("code"), message |-> Text("message")])

Request(args) == Envelope("request", [channel |-> Text("channel"), args |-> List(args)])
Event(args) == Envelope("event", [channel |-> Text("channel"), args |-> List(args)])
Response(result) ==
  Envelope("response", [channel |-> Text("channel"),
                        result |-> IF result = Undefined THEN Null ELSE result])
FailedResponse == Envelope("response", [channel |-> Text("channel"), error |-> Failure])
Refusal == Envelope("error", [error |-> Failure])
Handshake(workspace) ==
  Envelope("handshake", [protocolVersion |-> Text("1.0"), token |-> Text("token"),
                         workspaceId |-> workspace])
Acknowledgement ==
  Envelope("handshake_ack", [clientId |-> Text("client"), protocolVersion |-> Text("1.0"),
                             registeredChannels |-> List([first |-> Text("channel")])])

SentWith(v) ==
  {Request([first |-> v]), Request([first |-> Text("w"), second |-> v]),
   Event([first |-> v, second |-> v]), Response(v), FailedResponse, Refusal, Acknowledgement}
  \cup {Handshake(w) : w \in {Text("w"), Undefined}}

(* A plain object that looks like encoded bytes.                           *)
HasLookalike(v) == \E path \in DOMAIN v : Tagged(v, path)

(* Every message that the program sends is accepted, and says what was     *)
(* sent, bytes at any depth included, as far as JSON can say it, unless an *)
(* object in it looks like encoded bytes.                                  *)
EnvelopesArrive(v) ==
  \A sent \in SentWith(v) :
    /\ ValidateEnvelopeShape(Received(sent))
    /\ ~HasLookalike(v) => Received(sent) = Json(sent)
=============================================================================
