------------------------------ MODULE ParamTypes ------------------------------
(* One parameter is unmarshalled, as a task does it before it runs. *)
EXTENDS TaskParams

CONSTANT Params  \* the values getters find

VARIABLES
  value,  \* what the getter found
  type,   \* the type it is unmarshalled to
  param   \* the parameter, or Bad

typeVars == <<value, type, param>>

Types == {"StringParam", "StringSliceParam", "BytesParam", "BoolParam", "DecimalParam", "URLParam", "AddressParam",
          "MapParam", "SliceParam", "DecimalSliceParam", "HashSliceParam", "AddressSliceParam", "ObjectParam",
          "JSONPathParam", "JSONPathParam with separator"}

UnmarshalPipelineParam(t, v) ==
  CASE t = "StringParam" -> StringParam(v)
    [] t = "StringSliceParam" -> StringSliceParam(v)
    [] t = "BytesParam" -> BytesParam(v)
    [] t = "BoolParam" -> BoolParam(v)
    [] t = "DecimalParam" -> DecimalParam(v)
    [] t = "URLParam" -> URLParam(v)
    [] t = "AddressParam" -> AddressParam(v)
    [] t = "MapParam" -> MapParam(v)
    [] t = "SliceParam" -> SliceParam(v)
    [] t = "DecimalSliceParam" -> DecimalSliceParam(v)
    [] t = "HashSliceParam" -> HashSliceParam(v)
    [] t = "AddressSliceParam" -> AddressSliceParam(v)
    [] t = "ObjectParam" -> ObjectParam(v)
    [] t = "JSONPathParam" -> JSONPathParam(<<>>, v)
    [] t = "JSONPathParam with separator" -> JSONPathParam(<<";">>, v)

TypeInit == value \in Params /\ type = "none" /\ param = Nil

Unmarshal(t) ==
  /\ type = "none"
  /\ type' = t
  /\ param' = UnmarshalPipelineParam(t, value)
  /\ UNCHANGED value

Unmarshalled == type # "none" /\ UNCHANGED typeVars

TypeNext == (\E t \in Types : Unmarshal(t)) \/ Unmarshalled

TypeSpec == TypeInit /\ [][TypeNext]_typeVars

-----------------------------------------------------------------------------
(* Properties *)

Documented == {"StringParam", "StringSliceParam", "AddressParam", "MapParam", "SliceParam",
               "DecimalSliceParam", "HashSliceParam", "AddressSliceParam", "JSONPathParam"}

\* A document arrives as a string from an attribute and as bytes from a response
\* (task_params.go:109-119, 511-521, 553-562, 601-610, 628-637, 677-686): it is
\* the same parameter.
StringsAndBytesAgree ==
  type \in Documented /\ value.kind = "string" => param = UnmarshalPipelineParam(type, Bytes(value.text))

\* Nothing is made of an error, and of a slice with an error in it neither, with
\* three exceptions: SliceParam and ObjectParam keep the error as it is, for their
\* users to count (task_params.go:568-579), StringSliceParam makes it an empty text
\* (task_params.go:99-101, 124-133).
TakesErrors == {"SliceParam", "ObjectParam", "StringSliceParam"}
ErrorsEndConversions ==
  type # "none" =>
    /\ value = Error => param = Bad
    /\ value.kind = "slice" /\ (\E k \in DOMAIN value.e : value.e[k] = Error) => type \in TakesErrors \/ param = Bad

\* What a value says, whatever type carries it: a number or a truth may be spelt, a
\* document is what is in it, an ObjectParam what it holds.
TextMeaning(t) ==
  CASE t.form = "json" -> t.doc
    [] t.form = "number" -> NumberText(t.n, t.x)
    [] t.form = "boolean" -> BoolText(t.b)
    [] OTHER -> t
Says(v) ==
  CASE v.kind \in Numbers -> NumberText(v.n, v.x)
    [] v.kind = "bool" -> BoolText(v.b)
    [] v.kind \in {"string", "bytes"} -> TextMeaning(v.text)
    [] OTHER -> v
Meaning(v) == Says(IF v.kind = "object" THEN v.of ELSE v)

\* Whatever the type, a value that is accepted says the same afterwards.  The one
\* that does not is a slice in an ObjectParam, which ObjectParam does not copy:
\* ObjectsKeepTheirValue below.
KeepsMeaning ==
  \/ type \in {"StringParam", "DecimalParam", "URLParam", "MapParam", "SliceParam"}
  \/ type \in {"JSONPathParam", "JSONPathParam with separator"} /\ value.kind = "slice"
  \/ type = "ObjectParam" /\ ~(value.kind = "object" /\ value.of.kind = "slice")
ValuesKeepTheirMeaning == KeepsMeaning /\ param # Bad => Meaning(param) = Meaning(value)

\* The elements of x, one by one and in their order, are those of the parameter;
\* where they are hashes or addresses, those given as texts have the right length.
\* The exception is StringSliceParam: what convertToString has no case for becomes
\* an empty text (task_params.go:87-102); NumbersAreNotBlanked below.
HasText == {"int", "int64", "float64", "bool", "string"}
TextOf(x, lengths) == x.kind \in {"string", "bytes"} /\ x.text.chars \in lengths
ElementOf(p, x) ==
  CASE type = "StringSliceParam" -> IF x.kind \in HasText THEN Meaning(p) = Meaning(x) ELSE p = Str(Blank)
    [] type = "DecimalSliceParam" -> p.kind = "decimal" /\ Meaning(p) = Meaning(x)
    [] type = "HashSliceParam" -> p = x \/ (p = [kind |-> "hash"] /\ TextOf(x, {66}))
    [] type = "AddressSliceParam" -> p = x \/ (p = [kind |-> "address"] /\ TextOf(x, {20, 42}))

\* A slice, from a document or not, keeps its elements: none is dropped, added, moved
\* or taken for another value (task_params.go:87-133, 585-613, 619-664, 670-701).
ListTypes == {"StringSliceParam", "DecimalSliceParam", "HashSliceParam", "AddressSliceParam"}
ElementsKeepTheirMeaning ==
  type \in ListTypes /\ param # Bad =>
    LET given == Meaning(value) IN
    IF given.kind = "slice"
    THEN /\ param.kind = "slice" /\ DOMAIN param.e = DOMAIN given.e
         /\ \A k \in DOMAIN given.e : ElementOf(param.e[k], given.e[k])
    ELSE given.kind = "nil" /\ param = given

\* The four together: but for the two exceptions named above, a parameter says what
\* the value it was made of says, however it was represented (task_params.go:70-760).
ParametersAreWhole ==
  StringsAndBytesAgree /\ ErrorsEndConversions /\ ValuesKeepTheirMeaning /\ ElementsKeepTheirMeaning

-----------------------------------------------------------------------------
(* What the comments of the code say and Unmarshal does not keep *)

\* A test binds the text of the number in a variable (task.query.db_test.go:128-140),
\* and what is no text is meant to be an error: "expected string, got %T"
\* (task_params.go:75, 128-131).  Yet a decimal, the result of sum and multiply, and
\* a uint64 become an empty text.
NumbersAreNotBlanked ==
  type = "StringSliceParam" /\ value.kind = "slice" /\ param # Bad =>
    \A k \in DOMAIN value.e : value.e[k].kind \in Numbers => param.e[k] # Str(Blank)

\* "ObjectParam represents a kind of any type that could be used by the memo
\* task" (task_object_params.go:22): unmarshalled once more it is the same object.
ObjectsKeepTheirValue ==
  type = "ObjectParam" /\ param # Bad => ObjectParam(param) = param

\* "same semantic as AddressSliceParam" (task_params.go:648): raw bytes of the
\* right number are an element of either.
RawBytesAlike ==
  LET Raw(n) == value = Slice(<<Bytes(Plain(n))>>) IN
  /\ type = "AddressSliceParam" /\ Raw(20) => param # Bad
  /\ type = "HashSliceParam" /\ Raw(32) => param # Bad

\* "unmarshals a slice of strings from val" (task_params.go:713), whichever
\* separator it was initialized with: nothing but parts of the value is in it.
PathHoldsTheValueOnly ==
  type \in {"JSONPathParam", "JSONPathParam with separator"} /\ value.kind = "string" /\ value.text = Blank
    => param = Slice(<<>>)
=============================================================================
