------------------------------ MODULE TaskParams ------------------------------
(****************************************************************************)
(* The values that flow between tasks, the getters that look up a parameter *)
(* of a task (getters.go) and the conversions to the types tasks want       *)
(* (task_params.go, task_object_params.go).                                 *)
(*                                                                          *)
(* A value is a record with its Go type in kind.  Numbers are n * 10^x.  A  *)
(* text is described by what the parsers find in it, not by its characters. *)
(* IntegerParams has the conversions to integers.                           *)
(****************************************************************************)
EXTENDS Integers, Sequences, SequencesExt

Nil == [kind |-> "nil"]
Error == [kind |-> "error"]     \* a Go error stored as a value
Bad == [kind |-> "bad"]         \* UnmarshalPipelineParam returned an error
Missing == [kind |-> "missing"] \* Vars.Get returned an error

Numbers == {"int", "int64", "uint64", "float64", "decimal"}
Num(k, n, x) == [kind |-> k, n |-> n, x |-> x]
Bool(b) == [kind |-> "bool", b |-> b]
Str(t) == [kind |-> "string", text |-> t]
Bytes(t) == [kind |-> "bytes", text |-> t]
Map(m) == [kind |-> "map", m |-> m]
Slice(e) == [kind |-> "slice", e |-> e]
Object(v) == [kind |-> "object", of |-> v]  \* ObjectParam: Type, and the one field it selects

\* Texts.  chars is the length; hex is 0x and an even number of digits; json is a
\* document, and doc may hold variable expressions if the text is an attribute.
Blank == [form |-> "blank", chars |-> 0]
Plain(chars) == [form |-> "plain", chars |-> chars]
Hex(size) == [form |-> "hex", chars |-> 2 + 2 * size]
NumberText(n, x) == [form |-> "number", chars |-> 1, n |-> n, x |-> x]
BoolText(b) == [form |-> "boolean", chars |-> IF b THEN 4 ELSE 5, b |-> b]
JSON(doc) == [form |-> "json", chars |-> 9, doc |-> doc]
PathText(parts) == [form |-> "path", chars |-> 5, parts |-> parts]  \* the parts, by separator
Expr(path) == [form |-> "expr", chars |-> 9, path |-> path]
ExprIn(path) == [kind |-> "expr", path |-> path]  \* $(path) inside a document

-----------------------------------------------------------------------------
(* Vars.Get *)

IndexOf(part) == CASE part = "0" -> 1 [] part = "1" -> 2 [] OTHER -> 0

Descend(v, part) ==
  CASE v.kind = "map" -> IF part \in DOMAIN v.m THEN v.m[part] ELSE Missing
    [] v.kind \in {"slice", "rows"} -> IF IndexOf(part) \in DOMAIN v.e THEN v.e[IndexOf(part)] ELSE Missing
    [] OTHER -> Missing

Get(vars, path) == IF path = <<>> THEN Missing ELSE FoldLeft(Descend, Map(vars), path)

-----------------------------------------------------------------------------
(* Getters: a value, "the parameter is empty", or another error. *)

Found(v) == [got |-> "value", v |-> v]
Empty == [got |-> "empty"]
Fails == [got |-> "error"]

NonemptyString(t) == IF t.form = "blank" THEN Empty ELSE Found(Str(t))

Input(inputs, i) ==
  IF i \notin DOMAIN inputs \/ inputs[i] = Error THEN Fails ELSE Found(inputs[i])

Inputs(inputs) == Found(Slice(inputs))

VarExpr(t, vars) ==
  IF t.form # "expr" THEN Empty
  ELSE LET v == Get(vars, t.path) IN IF v \in {Missing, Error} THEN Fails ELSE Found(v)

\* allowErrors of JSONWithVarExprs.
AllowErrors == TRUE
NoErrors == FALSE

\* An expression looked up on behalf of JSONWithVarExprs.
Interpolated(path, vars, allowErrors) ==
  LET v == Get(vars, path) IN IF v = Error /\ ~allowErrors THEN Missing ELSE v

\* What is in a map or a slice.  A document has one level here: VarsHeap has the
\* nested ones.
Parts(doc) == IF doc.kind = "map" THEN doc.m ELSE doc.e

MapGoValue(doc, vars, allowErrors) ==
  LET Of(x) == IF x.kind = "expr" THEN Interpolated(x.path, vars, allowErrors) ELSE x
      new == [k \in DOMAIN Parts(doc) |-> Of(Parts(doc)[k])]
  IN IF doc.kind \notin {"map", "slice"} THEN doc
     ELSE IF \E k \in DOMAIN new : new[k] = Missing THEN Missing
     ELSE IF doc.kind = "map" THEN Map(new) ELSE Slice(new)

\* The object that replaces an expression before the text is decoded.
Placeholder(path) == Map([__chainlink_key_path__ |-> Str(Plain(1))])

\* What the decoder makes of a text that is not a document: it stops after the
\* first value, so 0x... is the number 0.
Scalar(t) ==
  CASE t.form = "number" -> Num(IF t.x = 0 THEN "int64" ELSE "float64", t.n, t.x)
    [] t.form = "boolean" -> Bool(t.b)
    [] t.form = "hex" -> Num("int64", 0, 0)
    [] OTHER -> Missing

\* mapGoValue returns the value it was given.  If the whole text is one
\* expression, that is the object standing for it: only what is inside a map or
\* a slice is replaced.
JSONWithVarExprs(t, vars, allowErrors) ==
  IF t.form = "blank" THEN Empty
  ELSE LET v == CASE t.form = "expr" -> IF Interpolated(t.path, vars, allowErrors) = Missing THEN Missing
                                        ELSE Placeholder(t.path)
                  [] t.form = "json" -> MapGoValue(t.doc, vars, allowErrors)
                  [] OTHER -> Scalar(t)
       IN IF v = Missing THEN Fails ELSE Found(v)

\* ResolveParam: the first getter that does not find the parameter empty decides.
Deciding(getters) ==
  LET found == {k \in DOMAIN getters : getters[k].got # "empty"}
  IN IF found = {} THEN Fails ELSE getters[CHOOSE k \in found : \A j \in found : k <= j]

ResolveParam(Unmarshal(_), getters) ==
  IF Deciding(getters).got = "error" THEN Bad ELSE Unmarshal(Deciding(getters).v)

-----------------------------------------------------------------------------
(* UnmarshalPipelineParam of the parameter types: the parameter, or Bad. *)

StringParam(v) ==
  CASE v.kind \in {"string", "bytes"} -> Str(v.text)
    [] v.kind = "int" -> Str(NumberText(v.n, v.x))
    [] v.kind = "object" /\ v.of.kind = "string" -> v.of
    [] OTHER -> Bad

\* json.Unmarshal of a text into a slice or a map: null makes it nil.
Decoded(t, kind) ==
  IF t.form = "json" /\ t.doc.kind \in {kind, "nil"} THEN t.doc ELSE Bad

ConvertToStringWide(v) ==  \* mutant: no case for int64
  CASE v.kind \in {"int", "float64"} -> NumberText(v.n, v.x)
    [] v.kind = "bool" -> BoolText(v.b)
    [] v.kind = "string" -> v.text
    [] OTHER -> Blank
ConvertToString(v) ==
  CASE v.kind \in {"int", "int64", "float64"} -> NumberText(v.n, v.x)
    [] v.kind = "bool" -> BoolText(v.b)
    [] v.kind = "string" -> v.text
    [] OTHER -> Blank

\* From a document strings are taken, and null for the empty one; from a slice
\* everything.
StringSliceParam(v) ==
  CASE v = Nil -> Nil
    [] v.kind \in {"string", "bytes"} ->
         LET d == Decoded(v.text, "slice")
         IN IF d.kind # "slice" THEN d
            ELSE IF \E k \in DOMAIN d.e : d.e[k].kind \notin {"string", "nil"} THEN Bad
            ELSE Slice([k \in DOMAIN d.e |-> Str(ConvertToString(d.e[k]))])
    [] v.kind = "slice" -> Slice([k \in DOMAIN v.e |-> Str(ConvertToString(v.e[k]))])
    [] OTHER -> Bad

BytesParam(v) ==
  CASE v.kind = "string" -> Bytes(IF v.text.form = "hex" THEN Plain((v.text.chars - 2) \div 2) ELSE v.text)
    [] v.kind = "bytes" -> v
    [] v = Nil -> Bytes(Blank)
    [] v.kind = "object" /\ v.of.kind = "string" -> Bytes(v.of.text)
    [] OTHER -> Bad

\* strconv.ParseBool also takes 0 and 1.
BoolParam(v) ==
  CASE v.kind = "string" /\ v.text.form = "boolean" -> Bool(v.text.b)
    [] v.kind = "string" /\ v.text.form = "number" /\ v.text.x = 0 /\ v.text.n \in {0, 1} -> Bool(v.text.n = 1)
    [] v.kind = "bool" -> v
    [] v.kind = "object" /\ v.of.kind = "bool" -> v.of
    [] OTHER -> Bad

DecimalParam(v) ==
  CASE v.kind = "object" /\ v.of.kind = "decimal" -> v.of
    [] v.kind \in Numbers -> Num("decimal", v.n, v.x)
    [] v.kind = "string" /\ v.text.form = "number" -> Num("decimal", v.text.n, v.text.x)
    [] OTHER -> Bad

\* url.ParseRequestURI; the texts that are URLs are those called so.
URLParam(v) == IF v.kind = "string" /\ v.text.form = "url" THEN v ELSE Bad

\* 42 characters are decoded, 20 bytes are copied.
AddressParam(v) ==
  CASE v.kind \in {"string", "bytes"} /\ v.text.chars = 42 /\ v.text.form = "hex" -> [kind |-> "address"]
    [] v.kind \in {"string", "bytes"} /\ v.text.chars = 20 -> [kind |-> "address"]
    [] v.kind = "address" -> v
    [] OTHER -> Bad

\* common.Hash.UnmarshalText: 0x and 64 digits.
HashParam(v) ==
  CASE v.kind \in {"string", "bytes"} /\ v.text.form = "hex" /\ v.text.chars = 66 -> [kind |-> "hash"]
    [] v.kind = "hash" -> v
    [] OTHER -> Bad

MapParam(v) ==
  CASE v.kind \in {"nil", "map"} -> v
    [] v.kind \in {"string", "bytes"} -> Decoded(v.text, "map")
    [] v.kind = "object" /\ v.of.kind = "map" -> v.of
    [] OTHER -> Bad

SliceParam(v) ==
  CASE v.kind \in {"nil", "slice"} -> v
    [] v.kind \in {"string", "bytes"} -> Decoded(v.text, "slice")
    [] OTHER -> Bad

Elements(v) == IF v.kind = "slice" THEN v.e ELSE <<>>
\* The elements that are no errors, in their order.
FilterErrors(v) ==
  LET e == Elements(v)
      good == {k \in DOMAIN e : e[k] # Error}
  IN [i \in 1..Cardinality(good) |-> e[CHOOSE k \in good : Cardinality({j \in good : j <= k}) = i]]

\* Slices whose elements are unmarshalled one by one; the first bad one decides.
SliceOf(Unmarshal(_), e) ==
  LET s == [k \in DOMAIN e |-> Unmarshal(e[k])]
  IN IF \E k \in DOMAIN s : s[k] = Bad THEN Bad ELSE Slice(s)

Typed(Unmarshal(_), v) ==
  CASE v = Nil -> Nil
    [] v.kind = "slice" -> SliceOf(Unmarshal, v.e)
    [] v.kind \in {"string", "bytes"} ->
         LET d == Decoded(v.text, "slice") IN IF d.kind = "slice" THEN SliceOf(Unmarshal, d.e) ELSE d
    [] OTHER -> Bad
DecimalSliceParam(v) == Typed(DecimalParam, v)
\* In a document every element is a text with 0x.
HashSliceParam(v) == Typed(HashParam, v)
AddressInDocument(x) ==
  IF x.kind = "string" /\ x.text.form = "hex" /\ x.text.chars = 42 THEN [kind |-> "address"] ELSE Bad
AddressSliceParam(v) ==
  IF v.kind \in {"string", "bytes"} THEN Typed(AddressInDocument, v) ELSE Typed(AddressParam, v)

\* The receiver holds the separator until it is overwritten; a text without
\* characters leaves it there.
Separator(receiver) == IF receiver = <<>> THEN "," ELSE receiver[1]
JSONPathParam(receiver, v) ==
  CASE v = Nil -> Slice(<<>>)
    [] v.kind = "slice" -> IF \E k \in DOMAIN v.e : v.e[k].kind # "string" THEN Bad ELSE v
    [] v.kind \in {"string", "bytes"} ->
         IF v.text = Blank THEN Slice([k \in DOMAIN receiver |-> Str(Plain(1))])
         ELSE Slice(IF v.text.form = "path" THEN v.text.parts[Separator(receiver)] ELSE <<Str(v.text)>>)
    [] OTHER -> Bad

\* ObjectParam: a slice inside another ObjectParam is not taken over.
ObjectParam(v) ==
  CASE v.kind \in {"nil", "bool", "string", "map", "slice"} -> Object(v)
    [] v.kind \in Numbers -> Object(DecimalParam(v))
    [] v.kind = "object" -> IF v.of.kind = "slice" THEN Object(Slice(<<>>)) ELSE v
    [] OTHER -> Bad
=============================================================================
