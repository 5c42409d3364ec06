---------------------------- MODULE PacketCodec ----------------------------
(* How CAP messages become bytes and objects in Node: the two generated       *)
(* libraries (CapPb, AgentPb) and the SDK's own codec.ts.                      *)
(*                                                                             *)
(* A protobufjs object is the set of its properties [f |-> name, v |-> value]; *)
(* a google-protobuf object is the set of its filled slots [f |-> slot, v].    *)
(* Bytes are the fields on the wire, [f |-> number, v |-> value], with the     *)
(* order they stand in: neither library writes a field twice, and both write   *)
(* the occurrences of a repeated field and the entries of a map side by side.  *)
(* A value is a scalar [s |-> token], a nested message [m |-> ...], a list     *)
(* [l |-> sequence] or a map [e |-> entries and their order]; a signature      *)
(* [sig |-> ...] occurs in a packet's signature field only.                    *)
EXTENDS Naturals, Sequences, FiniteSets

CONSTANT Depth  \* how deep messages may be nested, the recursionLimit of cap_pb.js

ASSUME DepthAssumption == Depth \in Nat

Js == INSTANCE CapPb
Gp == INSTANCE AgentPb

(* The row holds messages, not scalars; the field occurs once. *)
IsMessage(r) ==
    r.type \notin {"string", "bytes", "bool", "int32", "int64", "uint64", "float", "double"}
Singular(r) == r.kind \in {"one", "sub"}
Listing(r) == r.kind \in {"many", "packed", "subs"}

(* The rows of a table by name and by number, the rows of google-protobuf by   *)
(* slot too, and the order in which each encoder writes the numbers.           *)
Rows(table) == {table[i] : i \in DOMAIN table}
ByName(table) == [f \in {r.f : r \in Rows(table)} |-> CHOOSE r \in Rows(table) : r.f = f]
ByNumber(table) == [k \in {r.n : r \in Rows(table)} |-> CHOOSE r \in Rows(table) : r.n = k]
BySlot(table, accessor) ==
    [k \in {accessor[r.f].slot : r \in Rows(table)} |-> CHOOSE r \in Rows(table) : accessor[r.f].slot = k]
Before(sequence) ==
    {<<sequence[x[1]], sequence[x[2]]>> :
        x \in {x \in (DOMAIN sequence) \X (DOMAIN sequence) : x[1] < x[2]}}
WriteOrder(table) == Before([i \in DOMAIN table |-> table[i].n])
SchemaOf(js, gp, accessors) ==
    [t \in DOMAIN js |->
        [name |-> ByName(js[t]), number |-> ByNumber(js[t]), order |-> WriteOrder(js[t]), oneof |-> Js!Oneof(t),
         slot |-> BySlot(gp[t], accessors[t]), gpNumber |-> ByNumber(gp[t]), gpOrder |-> WriteOrder(gp[t]),
         accessor |-> accessors[t], group |-> Gp!OneofGroup(t)]]
Schema == SchemaOf(Js!Tables, Gp!Tables, Gp!Accessors)
Types == DOMAIN Js!Tables

(* The generated code of the two libraries agrees, field by field: numbers,    *)
(* names and slots are unique, a number means the same row in both, and an     *)
(* accessor treats its slot as the row's kind and the oneof ask for.           *)
IsRow(r) ==
    /\ Singular(r) \/ Listing(r) \/ r.kind = "map"
    /\ r.kind = "sub" => IsMessage(r)
    /\ r.kind \in {"one", "many", "packed"} => ~IsMessage(r)
    /\ IsMessage(r) => r.type \in Types
WellFormed(s) ==
    /\ s.gpNumber = s.number
    /\ \A f \in DOMAIN s.name : LET r == s.name[f] IN
          IsRow(r) /\ f \in STRING /\ r.f = f /\ r.n \in DOMAIN s.number /\ s.number[r.n] = r
    /\ \A k \in DOMAIN s.number :
          k \in Nat /\ s.number[k].n = k /\ s.number[k].f \in DOMAIN s.name /\ s.name[s.number[k].f] = s.number[k]
    /\ \A f \in DOMAIN s.name : LET a == s.accessor[f] IN
          /\ a.slot \in DOMAIN s.slot /\ s.slot[a.slot] = s.name[f]
          /\ a.kind = "member" <=> f \in s.oneof
          /\ a.kind = "scalar" <=> s.name[f].kind = "one" /\ f \notin s.oneof
          /\ a.slot \in s.group <=> f \in s.oneof
          /\ f \in s.oneof => Singular(s.name[f])
    /\ \A k \in DOMAIN s.slot :
          k \in Nat /\ s.slot[k].f \in DOMAIN s.name /\ s.accessor[s.slot[k].f].slot = k
    /\ \A x \in s.order \cup s.gpOrder : x[1] # x[2]
ASSUME TablesAgree == \A t \in Types : WellFormed(Schema[t])

(* The messages of a bus packet. None of their maps holds messages. *)
PacketTypes ==
    { "BusPacket", "SignatureMetadata", "IdentityBinding", "DispatchIdentity", "ResourceRef",
      "ContextHints", "Budget", "JobMetadata", "Compensation", "JobRequest", "JobResult", "JobProgress",
      "JobCancel", "Heartbeat", "SystemAlert", "Handshake", "WorkerHandshakeChallengeRequest",
      "WorkerHandshakeChallenge", "WorkerHandshakeAuthenticate", "WorkerHandshakeResult", "Timestamp" }
Flat(s) ==
    \A f \in DOMAIN s.name : IsMessage(s.name[f]) => s.name[f].kind # "map" /\ s.name[f].type \in PacketTypes
ASSUME PacketsAreFlat == PacketTypes \subseteq Types /\ \A t \in PacketTypes : Flat(Schema[t])

Zero == [s |-> "zero"]
Null == [null |-> TRUE]
-----------------------------------------------------------------------------
(* Sets of fields: no two have the same name, number, slot or key. *)
Keys(fields) == {p.f : p \in fields}
Unique(fields) == \A p, q \in fields : p.f = q.f => p = q
Has(o, f) == \E p \in o : p.f = f
Get(o, f) == (CHOOSE p \in o : p.f = f).v
Field(o, f) == IF Has(o, f) THEN Get(o, f) ELSE Null
Without(o, f) == {p \in o : p.f # f}
Put(o, f, v) == Without(o, f) \cup (IF v = Null THEN {} ELSE {[f |-> f, v |-> v]})
In(order, keys) == order \cap (keys \X keys)

(* Object.keys lists the integer-like keys of a JavaScript object by value     *)
(* first, then the others as they were inserted.                               *)
IntegerLike == {"9", "10"}
ByValue == Before(<<"9", "10">>)
ByText == Before(<<"10", "9", "x", "y">>)
ObjectKeys(e) ==
    [items |-> e.items,
     order |-> {x \in Keys(e.items) \X Keys(e.items) :
                   \/ x[1] \in IntegerLike /\ (x[2] \in IntegerLike => x \in ByValue)
                   \/ x[1] \notin IntegerLike /\ x[2] \notin IntegerLike /\ x \in e.order}]
\* Mutant: the entries of a map are written from the last to the first.
ReversedKeys(e) == [items |-> e.items, order |-> {<<x[2], x[1]>> : x \in e.order}]
SortedKeys(e) == [items |-> e.items, order |-> In(ByText, Keys(e.items))]
AsListed(r, v) == IF r.kind = "map" THEN [e |-> ObjectKeys(v.e)] ELSE v
AsSorted(r, v) == IF r.kind = "map" THEN [e |-> SortedKeys(v.e)] ELSE v

(* What a field holds, element by element: a nested message goes through the   *)
(* nested message's operation, a scalar stays or is read as a JavaScript       *)
(* number (readInt64 and readUint64 of google-protobuf return one).            *)
GpScalar(r, v) == IF r.type \in {"int64", "uint64"} /\ v = [s |-> "wide"] THEN [s |-> "rounded"] ELSE v
Through(r, op, numbers, x) ==
    IF IsMessage(r) THEN [m |-> op[r.type][x.m]] ELSE IF numbers = "rounded" THEN GpScalar(r, x) ELSE x
EachEntry(r, op, numbers, entries) == {[f |-> p.f, v |-> Through(r, op, numbers, p.v)] : p \in entries}
Each(r, op, numbers, v) ==
    IF Singular(r) THEN Through(r, op, numbers, v) ELSE
    IF r.kind = "map" THEN [e |-> [items |-> EachEntry(r, op, numbers, v.e.items), order |-> v.e.order]]
                      ELSE [l |-> [i \in DOMAIN v.l |-> Through(r, op, numbers, v.l[i])]]
Elements(r, v) ==
    IF Singular(r) THEN {v} ELSE
    IF r.kind = "map" THEN {p.v : p \in v.e.items} ELSE {v.l[i] : i \in DOMAIN v.l}

(* The value says something: a list or a map is not empty, a scalar is not its *)
(* default unless it is the member chosen of a oneof.                          *)
Filled(r, v) == (r.kind = "map" => v.e.items # {}) /\ (Listing(r) => v.l # << >>)
Says(r, member, v) == Filled(r, v) /\ (r.kind = "one" /\ v = Zero => member)
-----------------------------------------------------------------------------
(* protobufjs: <Message>.encode, <Message>.decode and <Message>.verify. n is   *)
(* what the nested messages' operations do, s the rows of this message.        *)
JsEncodeOver(n, t, o) ==
    LET s == n.schema[t]
        items == {[f |-> s.name[p.f].n, v |-> Each(s.name[p.f], n.encode, "exact", AsListed(s.name[p.f], p.v))] :
                     p \in {p \in o : Filled(s.name[p.f], p.v)}}
    IN [items |-> items, order |-> In(s.order, Keys(items))]
(* A number without a case is skipped. *)
JsDecodeOver(n, t, w) ==
    LET s == n.schema[t] IN
    {[f |-> s.number[q.f].f, v |-> Each(s.number[q.f], n.decode, "exact", q.v)] :
        q \in {q \in w.items : q.f \in DOMAIN s.number}}
(* The values have the types of their fields, at every depth. *)
Scalars == [s : STRING]
ASSUME TokensAreText == {"zero", "rounded"} \subseteq STRING
EntriesOf(x) == [items : SUBSET [f : STRING, v : x], order : SUBSET (STRING \X STRING)]
Fits(r, x, v) ==
    /\ Singular(r) => v \in x
    /\ r.kind = "map" => v \in [e : EntriesOf(x)] /\ Unique(v.e.items)
    /\ Listing(r) => v \in [l : Seq(x)]
Holds(r, messages, leaves) == IF IsMessage(r) THEN [m : messages[r.type]] ELSE leaves
OneMember(fields, members) == \A p, q \in fields : p.f \in members /\ q.f \in members => p.f = q.f
JsTyped(n, t, leaves, o) ==
    LET s == n.schema[t] IN
    /\ Unique(o)
    /\ \A p \in o : p.f \in DOMAIN s.name /\ Fits(s.name[p.f], Holds(s.name[p.f], n.objects, leaves), p.v)
JsVerifyOver(n, t, leaves, o) == JsTyped(n, t, leaves, o) /\ OneMember(o, n.schema[t].oneof)
(* The bytes of a message of this version; a peer may have added others. *)
WireTyped(n, t, leaves, w) ==
    LET s == n.schema[t] IN
    /\ Unique(w.items)
    /\ \A q \in w.items : q.f \in DOMAIN s.number =>
          Fits(s.number[q.f], Holds(s.number[q.f], n.wires, leaves), q.v)
    /\ OneMember(w.items, {k \in DOMAIN s.number : s.number[k].f \in s.oneof})
    /\ \A q \in w.items : <<q.f, q.f>> \notin w.order
-----------------------------------------------------------------------------
(* google-protobuf: accessors, serializeBinary and deserializeBinary. A proto3 *)
(* scalar setter clears the slot on the default; a oneof setter clears the     *)
(* other slots of the group.                                                   *)
\* Mutant: the setter of a oneof's member clears its own slot only.
GpSetAlone(n, t, g, f, v) ==
    LET a == n.schema[t].accessor[f] IN
    {p \in g : p.f # a.slot}
      \cup (IF v = Null \/ (a.kind = "scalar" /\ v = Zero) THEN {} ELSE {[f |-> a.slot, v |-> v]})
GpSetOver(n, t, g, f, v) ==
    LET a == n.schema[t].accessor[f]
        cleared == IF a.kind = "member" /\ v # Null THEN n.schema[t].group ELSE {a.slot}
    IN {p \in g : p.f \notin cleared}
         \cup (IF v = Null \/ (a.kind = "scalar" /\ v = Zero) THEN {} ELSE {[f |-> a.slot, v |-> v]})

GpTyped(n, t, leaves, g) ==
    LET s == n.schema[t] IN
    /\ Unique(g)
    /\ \A p \in g : p.f \in DOMAIN s.slot /\ Fits(s.slot[p.f], Holds(s.slot[p.f], n.arrays, leaves), p.v)
    /\ OneMember(g, s.group)

GpMember(s, r) == s.accessor[r.f].kind = "member"
GpSerializeOver(n, t, g) ==
    LET s == n.schema[t]
        items == {[f |-> s.slot[p.f].n, v |-> Each(s.slot[p.f], n.serialize, "exact", AsSorted(s.slot[p.f], p.v))] :
                     p \in {p \in g : Says(s.slot[p.f], GpMember(s, s.slot[p.f]), p.v)}}
    IN [items |-> items, order |-> In(s.gpOrder, Keys(items))]

(* The reader's loop calls the setters: of a oneof the last member read stays, *)
(* and a scalar read as its default leaves its slot empty.                     *)
GpStays(s, w, q) ==
    LET a == s.accessor[s.gpNumber[q.f].f] IN
    /\ a.kind = "scalar" => q.v # Zero
    /\ a.kind = "member" => \A p \in w.items :
          p.f \in DOMAIN s.gpNumber /\ GpMember(s, s.gpNumber[p.f]) => <<q.f, p.f>> \notin w.order
GpDeserializeOver(n, t, w) ==
    LET s == n.schema[t] IN
    {[f |-> s.accessor[s.gpNumber[q.f].f].slot, v |-> Each(s.gpNumber[q.f], n.deserialize, "rounded", q.v)] :
        q \in {q \in w.items : q.f \in DOMAIN s.gpNumber /\ GpStays(s, w, q)}}
(* An application's nested objects, built with the setters. *)
GpBuildOver(n, t, o) ==
    LET s == n.schema[t] IN
    {[f |-> s.accessor[p.f].slot, v |-> Each(s.slot[s.accessor[p.f].slot], n.build, "exact", p.v)] :
        p \in {p \in o : s.accessor[p.f].kind = "scalar" => p.v # Zero}}
-----------------------------------------------------------------------------
(* codec.ts. stripDefaults drops what proto3 does not write, and a nested      *)
(* message with nothing left in it; a map is rebuilt with its keys sorted, in  *)
(* a JavaScript object.                                                        *)
\* Mutant: a map keeps the order of its entries.
StripValueUnsorted(n, r, v) == IF r.kind = "map" THEN v ELSE Each(r, n.strip, "exact", v)
StripValue(n, r, v) == IF r.kind = "map" THEN AsSorted(r, v) ELSE Each(r, n.strip, "exact", v)
StripOver(n, t, o) ==
    LET s == n.schema[t]
        kept == {p \in o : Says(s.name[p.f], FALSE, p.v)}
    IN {p \in {[f |-> p.f, v |-> StripValue(n, s.name[p.f], p.v)] : p \in kept} : p.v # [m |-> {}]}
-----------------------------------------------------------------------------
(* What a message says, whatever holds it: the fields that differ from their   *)
(* defaults, maps without order. It is read as it stands or with 64-bit        *)
(* integers rounded, and in full or without nested messages that say nothing.  *)
Modes == [numbers : {"exact", "rounded"}, solid : BOOLEAN]
ContentValue(op, mode, r, v) ==
    IF r.kind = "map" THEN [e |-> EachEntry(r, op[[mode EXCEPT !.solid = FALSE]], mode.numbers, v.e.items)]
                      ELSE Each(r, op[mode], mode.numbers, v)
Shown(mode, contents) == IF mode.solid THEN {c \in contents : c.v # [m |-> {}]} ELSE contents
JsContentOver(n, mode, t, o) ==
    LET s == n.schema[t] IN
    Shown(mode, {[f |-> p.f, v |-> ContentValue(n.content, mode, s.name[p.f], p.v)] :
                    p \in {p \in o : Says(s.name[p.f], p.f \in s.oneof /\ ~mode.solid, p.v)}})
GpContentOver(n, mode, t, g) ==
    LET s == n.schema[t] IN
    Shown(mode, {[f |-> s.slot[p.f].f, v |-> ContentValue(n.gpContent, mode, s.slot[p.f], p.v)] :
                    p \in {p \in g : Says(s.slot[p.f], GpMember(s, s.slot[p.f]) /\ ~mode.solid, p.v)}})
-----------------------------------------------------------------------------
(* The two scans of raw bytes. A singular field and a oneof occur once; what   *)
(* has no field number in the schema is refused, at every depth. walkMessage   *)
(* (production-signing.ts) enters the messages of a map, scanMessage           *)
(* (worker-trust-wire.ts) does not.                                            *)
Occurrence(s, w, q) ==
    LET r == s.number[q.f] IN
    /\ Singular(r) => \A p \in w.items : p.f = q.f => p = q
    /\ r.f \in s.oneof => \A p \in w.items :
          p.f \in DOMAIN s.number /\ s.number[p.f].f \in s.oneof => p = q
walkOver(n, t, w, nested) ==
    LET s == n.schema[t] IN
    \A q \in w.items : q.f \in DOMAIN s.number /\ LET r == s.number[q.f] IN
        /\ nested => Occurrence(s, w, q)
        /\ IsMessage(r) => \A x \in Elements(r, q.v) : n.walk[r.type][x.m]
scanOver(n, t, w) ==
    LET s == n.schema[t] IN
    \A q \in w.items : q.f \in DOMAIN s.number /\ LET r == s.number[q.f] IN
        /\ Occurrence(s, w, q)
        /\ IsMessage(r) /\ r.kind # "map" => \A x \in Elements(r, q.v) : n.scan[r.type][x.m]
-----------------------------------------------------------------------------
(* The messages nested in others, by how deep they are nested: the objects,    *)
(* slot arrays and bytes there are, those of each message type, and what the   *)
(* operations of the type do to them.                                          *)
Held(x) == Scalars \cup [m : x] \cup [l : Seq(Scalars \cup [m : x])] \cup [e : EntriesOf(Scalars \cup [m : x])]
NamedOver(n) == SUBSET [f : STRING, v : Held(n.named)]
SlotsOver(n) == SUBSET [f : Nat, v : Held(n.slots)]
BytesOver(n) == [items : SUBSET [f : Nat, v : Held(n.bytes)], order : SUBSET (Nat \X Nat)]
Over(n) ==
    LET types == DOMAIN n.schema IN
    [schema |-> n.schema, named |-> NamedOver(n), slots |-> SlotsOver(n), bytes |-> BytesOver(n),
     objects |-> [t \in types |-> {o \in NamedOver(n) : JsVerifyOver(n, t, Scalars, o)}],
     arrays |-> [t \in types |-> {g \in SlotsOver(n) : GpTyped(n, t, Scalars, g)}],
     wires |-> [t \in types |-> {w \in BytesOver(n) : WireTyped(n, t, Scalars, w)}],
     encode |-> [t \in types |-> [o \in NamedOver(n) |-> JsEncodeOver(n, t, o)]],
     decode |-> [t \in types |-> [w \in BytesOver(n) |-> JsDecodeOver(n, t, w)]],
     serialize |-> [t \in types |-> [g \in SlotsOver(n) |-> GpSerializeOver(n, t, g)]],
     deserialize |-> [t \in types |-> [w \in BytesOver(n) |-> GpDeserializeOver(n, t, w)]],
     build |-> [t \in types |-> [o \in NamedOver(n) |-> GpBuildOver(n, t, o)]],
     strip |-> [t \in types |-> [o \in NamedOver(n) |-> StripOver(n, t, o)]],
     content |-> [mode \in Modes |->
         [t \in types |-> [o \in NamedOver(n) |-> JsContentOver(n, mode, t, o)]]],
     gpContent |-> [mode \in Modes |->
         [t \in types |-> [g \in SlotsOver(n) |-> GpContentOver(n, mode, t, g)]]],
     walk |-> [t \in types |-> [w \in BytesOver(n) |-> walkOver(n, t, w, TRUE)]],
     scan |-> [t \in types |-> [w \in BytesOver(n) |-> scanOver(n, t, w)]]]
NoMessages(schema) ==
    LET none == [t \in DOMAIN schema |-> {}] IN
    [schema |-> schema, named |-> {}, slots |-> {}, bytes |-> {}, objects |-> none, arrays |-> none, wires |-> none]
Nested[d \in Nat] == IF d = 0 THEN NoMessages(Schema) ELSE Over(Nested[d - 1])

(* A message on its own, with messages nested in it up to the limit. *)
Codec == Nested[Depth]
Signatures == [sig : [by : STRING, over : BytesOver(Codec) \cup [domain : STRING, wire : BytesOver(Codec)]]]
Leaves == Scalars \cup Signatures
JsVerify(t, o) == JsVerifyOver(Codec, t, Leaves, o)
JsEncode(t, o) == JsEncodeOver(Codec, t, o)
JsDecode(t, w) == JsDecodeOver(Codec, t, w)
GpSet(t, g, f, v) == GpSetOver(Codec, t, g, f, v)
GpSerialize(t, g) == GpSerializeOver(Codec, t, g)
GpDeserialize(t, w) == GpDeserializeOver(Codec, t, w)
GpBuild(t, o) == GpBuildOver(Codec, t, o)
JsContent(mode, t, o) == JsContentOver(Codec, mode, t, o)
GpContent(mode, t, g) == GpContentOver(Codec, mode, t, g)
walkMessage(t, w, nested) == walkOver(Codec, t, w, nested)
scanMessage(t, w) == scanOver(Codec, t, w)

StripDefaults(t, o) == StripOver(Codec, t, o)
EncodeDeterministic(t, o) == JsEncode(t, StripDefaults(t, o))
EncodeUnsignedForSignature(t, o) == JsEncode(t, StripDefaults(t, Without(o, "signature")))
=============================================================================
