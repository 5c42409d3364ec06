----------------------------- MODULE PacketRows -----------------------------
(* The rows of the message tables: field number, field name, how often the     *)
(* field occurs and what it holds. A constructor is one kind of statement of   *)
(* the generated encoders: writer.string(message.f), a loop over an array, a   *)
(* call of the nested message's encode, a loop over the keys of a map. An enum *)
(* is written as the int32 of its constant.                                    *)
Row(n, f, kind, type) == [n |-> n, f |-> f, kind |-> kind, type |-> type]

Str(n, f) == Row(n, f, "one", "string")
Bytes(n, f) == Row(n, f, "one", "bytes")
Bool(n, f) == Row(n, f, "one", "bool")
Int32(n, f) == Row(n, f, "one", "int32")
Enum(n, f) == Int32(n, f)
Int64(n, f) == Row(n, f, "one", "int64")
Uint64(n, f) == Row(n, f, "one", "uint64")
Float(n, f) == Row(n, f, "one", "float")
Double(n, f) == Row(n, f, "one", "double")
Strs(n, f) == Row(n, f, "many", "string")
Int32s(n, f) == Row(n, f, "packed", "int32")
Msg(n, f, m) == Row(n, f, "sub", m)
Msgs(n, f, m) == Row(n, f, "subs", m)
Map(n, f, t) == Row(n, f, "map", t)

(* How an accessor of google-protobuf keeps its field in the message's array:  *)
(* a proto3 scalar, a nested message, a member of the oneof, an array, a map.  *)
Scalar(n) == [slot |-> n, kind |-> "scalar"]
Wrapper(n) == [slot |-> n, kind |-> "wrapper"]
Member(n) == [slot |-> n, kind |-> "member"]
List(n) == [slot |-> n, kind |-> "list"]
Entries(n) == [slot |-> n, kind |-> "entries"]
=============================================================================
