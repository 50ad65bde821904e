----------------------------- MODULE RequestWire -----------------------------
(***************************************************************************)
(* The body of a public request on its way to the upstreams it is tried    *)
(* on: crates/protocol/src/raw_json.rs and json_codec.rs for JSON bodies,  *)
(* openai_images/multipart.rs for multipart ones, and the identity the     *)
(* request names (affinity.rs).  A body is the sequence of the fields the  *)
(* client wrote, names repeated as JSON allows.  The gateway decides from  *)
(* its own reading of the body; an upstream reads the bytes it is sent and *)
(* may let the first or the last of two equal names win.                   *)
(***************************************************************************)
EXTENDS Naturals, Sequences, FiniteSets, SequencesExt

CONSTANTS
    UpstreamModels,     \* names the tried candidates give the model
    Fields,             \* <<name, value>>: the fields clients write
    MaxFields,          \* bound: fields of a body
    MaxAttempts,        \* bound: candidates one request is tried on
    Nil

VARIABLES
    operation,
    form,       \* "json" or "multipart"
    body,       \* what the client sent
    fast,       \* models.fast_enabled of the published settings
    step,       \* "sent", "decoded", "planned" or "refused"
    payload,    \* the body as the gateway keeps it
    decoded,    \* what the gateway read in it
    wires       \* what each attempt sent: its model, its headers, its body

vars == <<operation, form, body, fast, step, payload, decoded, wires>>

Operations == {"Responses", "ResponsesCompact", "ImagesEdits"}
AllowsStream(op) == op # "ResponsesCompact"

Names(fields) == {fields[i][1] : i \in DOMAIN fields}
Occurrences(fields, name) == {i \in DOMAIN fields : fields[i][1] = name}
LastOf(fields, name) ==
    LET found == Occurrences(fields, name)
    IN  IF found = {} THEN Nil ELSE fields[Max(found)][2]

Init ==
    /\ operation \in Operations
    /\ form \in {"json"} \cup (IF operation = "ImagesEdits" THEN {"multipart"} ELSE {})
    /\ fast \in BOOLEAN
    /\ body = <<>> /\ step = "sent" /\ payload = Nil /\ decoded = Nil
    /\ wires = <<>>

ClientWrites ==
    /\ step = "sent" /\ Len(body) < MaxFields
    /\ \E field \in Fields : body' = Append(body, field)
    /\ UNCHANGED <<operation, form, fast, step, payload, decoded, wires>>

----------------------------------------------------------------------------
(* A JSON object over one allocation: the last of equal names is kept, and *)
(* whether there were any.                                                 *)

\* A faulty variant: the first of equal names is kept.
ParseFirst(fields) ==
    [body |-> fields,
     fields |-> [name \in Names(fields) |->
                    fields[CHOOSE i \in Occurrences(fields, name) :
                              \A j \in Occurrences(fields, name) : i <= j][2]],
     has_duplicate_fields |-> Cardinality(Names(fields)) # Len(fields)]

Parse(fields) ==
    [body |-> fields,
     fields |-> [name \in Names(fields) |-> LastOf(fields, name)],
     has_duplicate_fields |-> Cardinality(Names(fields)) # Len(fields)]

\* Written again field by field, in the order of the names.
NameOrder == <<"id", "input", "model", "other", "previous", "stream", "tier">>
Written(fields) ==
    LET names == SelectSeq(NameOrder, LAMBDA name : name \in DOMAIN fields)
    IN  [i \in DOMAIN names |-> <<names[i], fields[names[i]]>>]

RewriteRawField(json, name, value) ==
    IF name \notin DOMAIN json.fields THEN json
    ELSE LET fields == [json.fields EXCEPT ![name] = value]
         IN  [body |-> Written(fields), fields |-> fields,
              has_duplicate_fields |-> FALSE]

\* A faulty variant: the body is used again whenever the model is right.
EncodeReusing(json, op, upstream_model) ==
    IF json.fields["model"] = upstream_model /\ (AllowsStream(op) \/ "stream" \notin DOMAIN json.fields)
    THEN json.body
    ELSE Written([name \in DOMAIN json.fields \ (IF AllowsStream(op) THEN {} ELSE {"stream"}) |->
                     IF name = "model" THEN upstream_model ELSE json.fields[name]])

\* The bytes of the body are used again when nothing has to change.
Encode(json, op, upstream_model) ==
    LET removes_stream == ~AllowsStream(op) /\ "stream" \in DOMAIN json.fields
        kept == DOMAIN json.fields \ (IF removes_stream THEN {"stream"} ELSE {})
    IN  IF /\ json.fields["model"] = upstream_model
           /\ ~removes_stream
           /\ ~json.has_duplicate_fields
        THEN json.body
        ELSE Written([name \in kept |->
                         IF name = "model" THEN upstream_model
                         ELSE json.fields[name]])

----------------------------------------------------------------------------
(* Identities of replayed items: an id that does not begin with a prefix   *)
(* of the item's type is left out; unknown types keep theirs.              *)

HasInvalidId(item) == item.type = "known" /\ item.id = "wrong"
WriteItemWithoutId(item) == [item EXCEPT !.id = "absent"]

NormalizeReplay(json) ==
    IF /\ "input" \in DOMAIN json.fields
       /\ \E i \in DOMAIN json.fields["input"] : HasInvalidId(json.fields["input"][i])
    THEN RewriteRawField(json, "input",
             [i \in DOMAIN json.fields["input"] |->
                 LET item == json.fields["input"][i]
                 IN  IF HasInvalidId(item) THEN WriteItemWithoutId(item) ELSE item])
    ELSE json

----------------------------------------------------------------------------
(* What the gateway reads. *)

Trimmed(value) == IF value = " p" THEN "p" ELSE value

\* The response the request continues; a session that headers or metadata
\* name is left out, nothing of it is in the body an upstream reads.
ExtractAffinity(op, json) ==
    LET previous == IF "previous" \in DOMAIN json.fields
                    THEN Trimmed(json.fields["previous"]) ELSE ""
    IN  IF op = "ImagesEdits" THEN [kind |-> "none", id |-> Nil]
        ELSE IF op = "Responses" /\ previous \notin {"", "null"}
        THEN [kind |-> "continuation", id |-> previous]
        ELSE [kind |-> "none", id |-> Nil]

\* What the body says of streaming, "invalid" if it is no boolean.
StreamOf(fields, name) ==
    IF name \notin DOMAIN fields THEN "false" ELSE fields[name]

Refuse == /\ step' = "refused"
          /\ UNCHANGED <<payload, decoded>>

DecodeJson ==
    /\ step = "sent" /\ form = "json"
    /\ LET json == Parse(body)
           stream == StreamOf(json.fields, "stream")
       IN  IF \/ "model" \notin DOMAIN json.fields
              \/ stream = "invalid"
              \/ stream = "true" /\ ~AllowsStream(operation)
           THEN Refuse
           ELSE /\ payload' = IF operation \in {"Responses", "ResponsesCompact"}
                              THEN NormalizeReplay(json) ELSE json
                /\ decoded' = [model |-> json.fields["model"],
                               stream |-> stream = "true",
                               affinity |-> ExtractAffinity(operation, json)]
                /\ step' = "decoded"
    /\ UNCHANGED <<operation, form, body, fast, wires>>

\* A multipart body names its model once and its stream at most once; the
\* parts keep their order and other names may repeat.
DecodeMultipart ==
    /\ step = "sent" /\ form = "multipart"
    /\ LET models == Occurrences(body, "model")
           streams == Occurrences(body, "stream")
       IN  IF \/ Cardinality(models) # 1
              \/ Cardinality(streams) > 1
              \/ \E i \in streams : body[i][2] = "invalid"
           THEN Refuse
           ELSE /\ payload' = [parts |-> body,
                               model_part_index |-> CHOOSE i \in models : TRUE]
                /\ decoded' = [model |-> LastOf(body, "model"),
                               stream |-> LastOf(body, "stream") = "true",
                               affinity |-> [kind |-> "none", id |-> Nil]]
                /\ step' = "decoded"
    /\ UNCHANGED <<operation, form, body, fast, wires>>

\* A faulty variant: only a body without repeated names is changed.
NormalizeFastTierOnce(json) ==
    IF "tier" \in DOMAIN json.fields /\ json.fields["tier"] = "fast" /\ ~json.has_duplicate_fields
    THEN RewriteRawField(json, "tier", "standard") ELSE json

NormalizeFastTier(json) ==
    IF "tier" \in DOMAIN json.fields /\ json.fields["tier"] = "fast"
    THEN RewriteRawField(json, "tier", "standard") ELSE json

\* apply_model_request_policy: with fast mode off, a fast tier is lowered.
Plan ==
    /\ step = "decoded"
    /\ payload' = IF ~fast /\ form = "json" /\ operation # "ImagesEdits"
                  THEN NormalizeFastTier(payload) ELSE payload
    /\ step' = "planned"
    /\ UNCHANGED <<operation, form, body, fast, decoded, wires>>

----------------------------------------------------------------------------
(* Sending an attempt; the payload stays as it is for the next one. *)

SpeedTier(fields) ==
    IF operation = "ImagesEdits" \/ "tier" \notin DOMAIN fields THEN Nil
    ELSE fields["tier"]

AttemptJson(upstream_model) ==
    /\ form = "json"
    /\ wires' = Append(wires,
           [model |-> upstream_model,
            accept |-> StreamOf(payload.fields, "stream") = "true",
            requested_speed_tier |-> SpeedTier(payload.fields),
            body |-> Encode(payload, operation, upstream_model)])

AttemptMultipart(upstream_model) ==
    /\ form = "multipart"
    /\ wires' = Append(wires,
           [model |-> upstream_model,
            accept |-> decoded.stream,
            requested_speed_tier |-> Nil,
            body |-> [payload.parts EXCEPT
                         ![payload.model_part_index] = <<"model", upstream_model>>]])

Attempt ==
    /\ step = "planned" /\ Len(wires) < MaxAttempts
    /\ \E upstream_model \in UpstreamModels :
           AttemptJson(upstream_model) \/ AttemptMultipart(upstream_model)
    /\ UNCHANGED <<operation, form, body, fast, step, payload, decoded>>

Next == \/ ClientWrites
        \/ DecodeJson
        \/ DecodeMultipart
        \/ Plan
        \/ Attempt

Spec == Init /\ [][Next]_vars

----------------------------------------------------------------------------
(* Properties. *)

TypeOK ==
    /\ step \in {"sent", "decoded", "planned", "refused"}
    /\ Len(body) <= MaxFields /\ Len(wires) <= MaxAttempts
    /\ (step \in {"decoded", "planned"}) = (payload # Nil)

\* Every value a reader of these fields may take a name to have.
Readings(fields, name) == {fields[i][2] : i \in Occurrences(fields, name)}

(***************************************************************************)
(* Whatever an upstream makes of repeated names, it reads what the gateway *)
(* decided on: the model of the attempt, the streaming that was asked for  *)
(* (and no word of it where the operation has none), no fast tier where it *)
(* is switched off, the tier the telemetry records, and the response whose *)
(* credential was looked up.  So does the upstream of every later attempt. *)
(***************************************************************************)
UpstreamReadsTheDecision ==
    \A k \in DOMAIN wires :
        LET wire == wires[k]
        IN  /\ Readings(wire.body, "model") = {wire.model}
            /\ Readings(wire.body, "stream") \subseteq
                   IF ~AllowsStream(operation) THEN {}
                   ELSE IF decoded.stream THEN {"true"} ELSE {"false"}
            /\ decoded.stream => Readings(wire.body, "stream") # {}
            /\ wire.accept = decoded.stream
            /\ form = "json" /\ operation # "ImagesEdits" =>
                   /\ Readings(wire.body, "tier") \subseteq {wire.requested_speed_tier}
                   /\ ~fast => "fast" \notin Readings(wire.body, "tier")
            /\ decoded.affinity.kind = "continuation" =>
                   \A value \in Readings(wire.body, "previous") :
                       Trimmed(value) = decoded.affinity.id

\* What the client means by a field the gateway has no say in.
Meant(name) ==
    IF name = "input" /\ operation # "ImagesEdits"
    THEN [i \in DOMAIN LastOf(body, name) |->
             LET item == LastOf(body, name)[i]
             IN  IF HasInvalidId(item) THEN WriteItemWithoutId(item) ELSE item]
    ELSE LastOf(body, name)

(***************************************************************************)
(* Every other field reaches the upstream, once and with the value the     *)
(* client wrote last (all of its parts, in a multipart body), whatever was *)
(* rewritten around it and however often the request was tried before.     *)
(***************************************************************************)
OtherFieldsArrive ==
    \A k \in DOMAIN wires, name \in {"other", "previous", "input"} :
        LET sent == wires[k].body
        IN  IF form = "multipart"
            THEN SelectSeq(sent, LAMBDA field : field[1] = name)
                     = SelectSeq(body, LAMBDA field : field[1] = name)
            ELSE Readings(sent, name) =
                     IF Occurrences(body, name) = {} THEN {} ELSE {Meant(name)}
=============================================================================
