---------------------------- MODULE IntegerParams ----------------------------
(****************************************************************************)
(* The conversions of task_params.go to Uint64Param, MaybeUint64Param,      *)
(* MaybeInt32Param and MaybeBigIntParam.  A parameter is a number in one of *)
(* Go's types, or a text.  What the types hold is a parameter, so that TLC  *)
(* covers every value of scaled-down types.                                 *)
(*                                                                          *)
(* Numbers are counted in halves (field h), so that there are fractions.    *)
(* An operator returns the set of results the build may produce: Go leaves  *)
(* the conversion of a float64 to an integer type that cannot hold it to    *)
(* the implementation.                                                      *)
(****************************************************************************)
EXTENDS Integers

CONSTANTS
  Limit8, Limit16, Limit32, Limit64,  \* 2^7, 2^15, 2^31, 2^63: one more than a signed type holds
  Values                              \* the parameters that are converted

Unsigned == {"uint", "uint8", "uint16", "uint32", "uint64"}
Signed == {"int", "int8", "int16", "int32", "int64"}
Decimals == {"decimal.Decimal", "*decimal.Decimal"}
Kinds == Unsigned \cup Signed \cup Decimals \cup {"float64", "string", "*big.Int", "nil", "bool"}

MaxUint(limit) == 2 * limit - 1
MaxInt(limit) == limit - 1
MinInt(limit) == -limit

\* An int and a uint have 64 bits.
Limit(kind) ==
  CASE kind \in {"uint8", "int8"} -> Limit8
    [] kind \in {"uint16", "int16"} -> Limit16
    [] kind \in {"uint32", "int32"} -> Limit32
    [] OTHER -> Limit64

\* text: "digits" is a number in decimal notation; h counts for numbers only.
IsValue(v) ==
  /\ v.kind \in Kinds /\ v.h \in Int /\ v.text \in {"", "blank", "words", "digits"}
  /\ v.kind \in Unsigned \cup Signed \cup {"*big.Int"} => v.h % 2 = 0
  /\ v.kind \in Unsigned => 0 <= v.h /\ v.h <= 2 * MaxUint(Limit(v.kind))
  /\ v.kind \in Signed => 2 * MinInt(Limit(v.kind)) <= v.h /\ v.h <= 2 * MaxInt(Limit(v.kind))

ASSUME LimitsAssumption ==
  /\ Limit8 \in Nat \ {0} /\ Limit16 \in Nat /\ Limit32 \in Nat /\ Limit64 \in Nat
  /\ 2 * Limit8 <= Limit16 /\ 2 * Limit16 <= Limit32 /\ 2 * Limit32 <= Limit64
ASSUME ValuesAssumption == \A v \in Values : IsValue(v)

VARIABLES
  number,  \* what the getter found
  to,      \* the type it is unmarshalled to
  out      \* what UnmarshalInteger makes of it

integerVars == <<number, to, out>>

Rejected == [err |-> TRUE, isSet |-> FALSE, n |-> 0]  \* ErrBadInput
Unset == [err |-> FALSE, isSet |-> FALSE, n |-> 0]
Number(n) == [err |-> FALSE, isSet |-> TRUE, n |-> n]

Whole(v) == v.h % 2 = 0
Truncated(v) == IF v.h >= 0 THEN v.h \div 2 ELSE -((-v.h) \div 2)

\* The constant math.MaxUint64 is not a float64: compared with one it is rounded.
MaxUintAsFloat == 2 * Limit64
FloatToUint(v) ==
  IF Truncated(v) <= MaxUint(Limit64) THEN {Number(Truncated(v))}
  ELSE {Number(n) : n \in 0..MaxUint(Limit64)}

IsDigits(v) == v.kind = "string" /\ v.text = "digits"
IsBlank(v) == v.kind = "string" /\ v.text = "blank"
ParsesAsUint(v) == IsDigits(v) /\ Whole(v) /\ 0 <= v.h /\ Truncated(v) <= MaxUint(Limit64)
ParsesAsInt32(v) == IsDigits(v) /\ Whole(v) /\ MinInt(Limit32) <= Truncated(v) /\ Truncated(v) <= MaxInt(Limit32)

-----------------------------------------------------------------------------
(* UnmarshalPipelineParam *)

UnmarshalUint64(v) ==
  CASE v.kind \in Unsigned -> {Number(Truncated(v))}
    [] v.kind \in Signed -> IF v.h < 0 THEN {Rejected} ELSE {Number(Truncated(v))}
    [] v.kind = "float64" -> IF v.h < 0 \/ v.h > 2 * MaxUintAsFloat THEN {Rejected} ELSE FloatToUint(v)
    [] v.kind = "string" -> IF ParsesAsUint(v) THEN {Number(Truncated(v))} ELSE {Rejected}
    [] OTHER -> {Rejected}

UnmarshalMaybeUint64(v) ==
  CASE v.kind \in Unsigned -> {Number(Truncated(v))}
    [] v.kind \in Signed -> IF v.h < 0 THEN {Rejected} ELSE {Number(Truncated(v))}
    [] v.kind = "float64" -> IF v.h < 0 \/ v.h > 2 * MaxUintAsFloat THEN {Rejected} ELSE FloatToUint(v)
    [] IsBlank(v) -> {Unset}
    [] v.kind = "string" /\ ~IsBlank(v) -> IF ParsesAsUint(v) THEN {Number(Truncated(v))} ELSE {Rejected}
    [] OTHER -> {Rejected}

\* The bounds are compared before the fraction is cut off.
UnmarshalMaybeInt32Off(v) ==  \* mutant: the smallest int32 is rejected
  CASE v.kind \in {"uint8", "uint16", "int8", "int16", "int32"} -> {Number(Truncated(v))}
    [] v.kind \in {"uint", "uint32", "uint64", "int", "int64", "float64"} ->
         IF v.h > 2 * MaxInt(Limit32) \/ v.h <= 2 * MinInt(Limit32) THEN {Rejected} ELSE {Number(Truncated(v))}
    [] IsBlank(v) -> {Unset}
    [] v.kind = "string" /\ ~IsBlank(v) -> IF ParsesAsInt32(v) THEN {Number(Truncated(v))} ELSE {Rejected}
    [] OTHER -> {Rejected}
UnmarshalMaybeInt32(v) ==
  CASE v.kind \in {"uint8", "uint16", "int8", "int16", "int32"} -> {Number(Truncated(v))}
    [] v.kind \in {"uint", "uint32", "uint64"} ->
         IF v.h > 2 * MaxInt(Limit32) THEN {Rejected} ELSE {Number(Truncated(v))}
    [] v.kind \in {"int", "int64", "float64"} ->
         IF v.h > 2 * MaxInt(Limit32) \/ v.h < 2 * MinInt(Limit32) THEN {Rejected} ELSE {Number(Truncated(v))}
    [] IsBlank(v) -> {Unset}
    [] v.kind = "string" /\ ~IsBlank(v) -> IF ParsesAsInt32(v) THEN {Number(Truncated(v))} ELSE {Rejected}
    [] OTHER -> {Rejected}

UnmarshalMaybeBigInt(v) ==
  CASE v.kind \in Unsigned \cup Signed \cup {"*big.Int"} -> {Number(Truncated(v))}
    [] v.kind = "float64" ->
         IF v.h < 2 * MinInt(Limit64) \/ v.h > 2 * MaxUintAsFloat THEN {Rejected}
         ELSE IF v.h < 0 THEN {Number(Truncated(v))} ELSE FloatToUint(v)
    [] IsBlank(v) \/ v.kind = "nil" -> {Unset}
    [] v.kind \in Decimals \/ IsDigits(v) -> IF Whole(v) THEN {Number(Truncated(v))} ELSE {Rejected}
    [] OTHER -> {Rejected}

IntegerTypes == {"Uint64Param", "MaybeUint64Param", "MaybeInt32Param", "MaybeBigIntParam"}

UnmarshalInteger(type, v) ==
  CASE type = "Uint64Param" -> UnmarshalUint64(v)
    [] type = "MaybeUint64Param" -> UnmarshalMaybeUint64(v)
    [] type = "MaybeInt32Param" -> UnmarshalMaybeInt32(v)
    [] type = "MaybeBigIntParam" -> UnmarshalMaybeBigInt(v)

IntegerInit == number \in Values /\ to = "none" /\ out = Unset

Convert(type) ==
  /\ to = "none"
  /\ to' = type
  /\ out' \in UnmarshalInteger(type, number)
  /\ UNCHANGED number

Converted == to # "none" /\ UNCHANGED integerVars

IntegerNext == (\E type \in IntegerTypes : Convert(type)) \/ Converted

IntegerSpec == IntegerInit /\ [][IntegerNext]_integerVars

-----------------------------------------------------------------------------
(* Properties *)

IsNumber(v) == v.kind \notin {"nil", "bool", "string"} \/ IsDigits(v)

\* What a type accepts at all, and which numbers it can hold.
Accepts(type, v) ==
  v.kind \in Unsigned \cup Signed \cup {"float64", "string"}
             \cup (IF type = "MaybeBigIntParam" THEN Decimals \cup {"*big.Int"} ELSE {})

Holds(type, n) ==
  CASE type \in {"Uint64Param", "MaybeUint64Param"} -> 0 <= n /\ n <= MaxUint(Limit64)
    [] type = "MaybeInt32Param" -> MinInt(Limit32) <= n /\ n <= MaxInt(Limit32)
    [] type = "MaybeBigIntParam" -> TRUE

\* Whatever Go type an integer arrives in (JSON from the database makes float64
\* of it, a DOT attribute a string), it becomes the same parameter: the number
\* itself if the type holds it.  A float64 that no 64-bit integer equals is the
\* exception for MaybeBigIntParam (task_params.go:178-386, 764-826).
InRangeIsExact ==
  to # "none" /\ IsNumber(number) /\ Whole(number) /\ Accepts(to, number) /\ Holds(to, Truncated(number))
  /\ (number.kind = "float64" => MinInt(Limit64) <= Truncated(number) /\ Truncated(number) <= MaxUint(Limit64))
    => out = Number(Truncated(number))

\* "cannot cast %v to Uint64Param" (task_params.go:219), "overflows int32"
\* (task_params.go:331): a number the type cannot hold is rejected, it does not
\* become another number; a fraction may be cut off if it came as a float64.  The
\* exception is the float64 2^64, which the rounded bound lets pass (:218).
AtRoundedBound == number.kind = "float64" /\ Truncated(number) = MaxUintAsFloat
OutOfRangeIsRejected ==
  to # "none" /\ ~AtRoundedBound /\ IsNumber(number) /\ (Whole(number) => ~Holds(to, Truncated(number)))
    => out.err \/ (number.kind = "float64" /\ Holds(to, Truncated(number)) /\ out = Number(Truncated(number)))

\* Uint64Param and MaybeUint64Param differ in blank texts only: the same input
\* never counts as not set, or as an error, for the one and a number for the
\* other (task_params.go:180-232, 247-307).
MaybeAddsBlanksOnly ==
  to = "MaybeUint64Param" => (out.isSet \/ out.err <=> ~IsBlank(number))
                             /\ (~IsBlank(number) => out \in UnmarshalUint64(number))

\* The three together: an integer parameter is the number it was made of, or an
\* error, or not set, whichever of the conversions is taken
\* (task_params.go:178-386, 764-826).
IntegersAreExact == InRangeIsExact /\ OutOfRangeIsRejected /\ MaybeAddsBlanksOnly

-----------------------------------------------------------------------------
(* What the code means to do and does not *)

\* "if v < 0 || v > math.MaxUint64" (task_params.go:218): the float64 next to the
\* largest uint64 is rejected like every other that is too large.
RoundedBoundIsRejected == to # "none" /\ AtRoundedBound => out.err
=============================================================================
