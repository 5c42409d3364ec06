---------------------------- MODULE MCPacketPath ----------------------------
EXTENDS PacketPath

AllMessages == Types

(* What an application may put in a field. A nested message is empty or has    *)
(* its first field set; a map has keys that look like integers or not; a       *)
(* 64-bit integer may need more than 53 bits.                                  *)
RECURSIVE Sample(_, _)
SampleOf(r, depth) ==
    CASE r.kind = "one" -> S("a")
      [] r.kind = "sub" -> [m |-> Sample(r.type, depth)]
      [] r.kind \in {"many", "packed"} -> [l |-> <<S("a"), Zero>>]
      [] r.kind = "subs" -> [l |-> <<[m |-> {}], [m |-> Sample(r.type, depth)]>>]
      [] r.kind = "map" -> [e |-> InsertedAs(<<"10", "9">>,
                                     IF IsMessage(r) THEN [m |-> Sample(r.type, depth)] ELSE S("a"))]
SampleRow(r, depth) == {P(r.f, SampleOf(r, depth))}
Sample(t, depth) == IF depth = 0 \/ Js!Tables[t] = << >> THEN {} ELSE SampleRow(Js!Tables[t][1], depth - 1)
ValuesLike(r, sample) ==
    {sample} \cup
    CASE r.kind = "one" -> {Zero} \cup (IF r.type \in {"int64", "uint64"} THEN {S("wide")} ELSE {})
      [] r.kind = "sub" -> {[m |-> {}]}
      [] r.kind = "map" -> {[e |-> InsertedAs(<<"y", "x">>, p.v)] : p \in sample.e.items}
      [] OTHER -> {[l |-> << >>]}
SampleValues(r) == ValuesLike(r, SampleOf(r, 2))

BaseRequest == {P("jobId", S("job")), P("topic", S("a"))}
SampleRequests ==
    UNION {{Put(BaseRequest, r.f, v) : v \in SampleValues(r)} : r \in Rows(Js!JobRequest)}
      \cup {Put(BaseRequest, "priority", S("high")), Put(BaseRequest, "stepIndex", S("negative")),
            Put(BaseRequest, "budget", [m |-> {P("maxInputTokens", S("wide"))}]),
            Put(BaseRequest, "budget", [m |-> {P("deadlineMs", S("negative"))}])}

(* The requests with a map, of keys that look like integers or not. *)
MappedRequests ==
    UNION {{Put(BaseRequest, r.f, v) : v \in SampleValues(r)} : r \in {q \in Rows(Js!JobRequest) : q.kind = "map"}}
=============================================================================
