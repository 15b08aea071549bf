----------------------------- MODULE Tasks_proofs -----------------------------
(****************************************************************************)
(* What tasks compute, for every task, input and value the constants may    *)
(* hold: the integers of parameters, the types of parameters, and tasks     *)
(* with what they interpolate, fetch and return.                            *)
(****************************************************************************)
EXTENDS HTTPTask, ParamTypes, IntegerParams, FiniteSetTheorems, SequenceTheorems, TLAPS

-----------------------------------------------------------------------------
(* Integers: what a number of the program is converted to.                  *)

\* A number is twice its half, or one more.
LEMMA Halves ==
  ASSUME NEW h \in Int
  PROVE  /\ h \div 2 \in Int /\ 2 * (h \div 2) <= h /\ h <= 2 * (h \div 2) + 1
         /\ h % 2 = 0 <=> h = 2 * (h \div 2)
OBVIOUS

\* What is cut off a number: nothing, if it is whole.
LEMMA TruncatedValue ==
  ASSUME NEW v, v.h \in Int
  PROVE  /\ Truncated(v) \in Int
         /\ Whole(v) <=> v.h = 2 * Truncated(v)
         /\ v.h >= 0 => 2 * Truncated(v) <= v.h /\ v.h <= 2 * Truncated(v) + 1 /\ Truncated(v) >= 0
         /\ v.h < 0 => v.h <= 2 * Truncated(v) /\ 2 * Truncated(v) <= v.h + 1 /\ Truncated(v) <= 0
<1> DEFINE h == v.h
<1>1. h \in Int
  OBVIOUS
<1> HIDE DEF h
<1>2. Whole(v) <=> h % 2 = 0
  BY DEF Whole, h
<1>3. v.h = h
  BY DEF h
<1>4. CASE h >= 0
  <2>1. Truncated(v) = h \div 2
    BY <1>3, <1>4 DEF Truncated
  <2> QED BY <1>1, <1>2, <1>3, <1>4, <2>1, Halves
<1>5. CASE h < 0
  <2>1. Truncated(v) = -((-h) \div 2)
    BY <1>1, <1>3, <1>5 DEF Truncated
  <2>2. h % 2 = 0 <=> (-h) % 2 = 0
    BY <1>1
  <2>3. -h \in Int
    BY <1>1
  <2>4. /\ (-h) \div 2 \in Int /\ 2 * ((-h) \div 2) <= -h /\ -h <= 2 * ((-h) \div 2) + 1
        /\ (-h) % 2 = 0 <=> -h = 2 * ((-h) \div 2)
    BY <2>3, Halves
  <2> QED BY <1>1, <1>2, <1>3, <1>5, <2>1, <2>2, <2>4
<1> QED BY <1>1, <1>4, <1>5

\* The limits grow, each type twice as large as the one before at least.
LEMMA LimitsNest ==
  /\ Limit8 \in Int /\ Limit16 \in Int /\ Limit32 \in Int /\ Limit64 \in Int
  /\ 0 < Limit8 /\ 2 * Limit8 <= Limit16 /\ 2 * Limit16 <= Limit32 /\ 2 * Limit32 <= Limit64
BY LimitsAssumption

\* What the integer types hold, of the number itself.
LEMMA UnsignedHolds ==
  ASSUME NEW v, IsValue(v), v.kind \in Unsigned
  PROVE  /\ Whole(v) /\ 0 <= Truncated(v) /\ Truncated(v) <= MaxUint(Limit64)
         /\ v.kind \in {"uint8", "uint16"} => Truncated(v) <= MaxInt(Limit32)
<1>1. v.h \in Int /\ v.h % 2 = 0 /\ 0 <= v.h /\ v.h <= 2 * MaxUint(Limit(v.kind))
  BY DEF IsValue
<1>2. Whole(v) /\ Truncated(v) \in Int /\ v.h = 2 * Truncated(v)
  BY <1>1, TruncatedValue DEF Whole
<1>3. /\ Limit(v.kind) \in Int /\ Limit(v.kind) <= Limit64
      /\ v.kind \in {"uint8", "uint16"} => 2 * Limit(v.kind) <= Limit32
  BY LimitsNest DEF Limit, Unsigned
<1> QED BY <1>1, <1>2, <1>3, LimitsNest DEF MaxUint, MaxInt

\* Signed integers are whole, and within the limits of their own kind.
LEMMA SignedHolds ==
  ASSUME NEW v, IsValue(v), v.kind \in Signed
  PROVE  /\ Whole(v) /\ MinInt(Limit64) <= Truncated(v) /\ Truncated(v) <= MaxInt(Limit64)
         /\ v.kind \in {"int8", "int16", "int32"} =>
              MinInt(Limit32) <= Truncated(v) /\ Truncated(v) <= MaxInt(Limit32)
<1>1. v.h \in Int /\ v.h % 2 = 0 /\ 2 * MinInt(Limit(v.kind)) <= v.h /\ v.h <= 2 * MaxInt(Limit(v.kind))
  BY DEF IsValue
<1>2. Whole(v) /\ Truncated(v) \in Int /\ v.h = 2 * Truncated(v)
  BY <1>1, TruncatedValue DEF Whole
<1>3. /\ Limit(v.kind) \in Int /\ Limit(v.kind) <= Limit64
      /\ v.kind \in {"int8", "int16", "int32"} => Limit(v.kind) <= Limit32
  BY LimitsNest DEF Limit, Signed
<1> QED BY <1>1, <1>2, <1>3, LimitsNest DEF MinInt, MaxInt

\* What the first two parts of IntegersAreExact say of one conversion.
Exact(target, v, n) ==
  /\ Whole(v) /\ Accepts(target, v) /\ Holds(target, Truncated(v))
     /\ (v.kind = "float64" => MinInt(Limit64) <= Truncated(v) /\ Truncated(v) <= MaxUint(Limit64))
       => n = Number(Truncated(v))
  /\ ~(v.kind = "float64" /\ Truncated(v) = MaxUintAsFloat) /\ (Whole(v) => ~Holds(target, Truncated(v)))
       => n.err \/ (v.kind = "float64" /\ Holds(target, Truncated(v)) /\ n = Number(Truncated(v)))

\* A float64 between the bounds becomes what is left of it without its fraction,
\* unless it is 2^64.
LEMMA FloatsAreCut ==
  ASSUME NEW v, v.h \in Int, 0 <= v.h, v.h <= 2 * MaxUintAsFloat, NEW n \in FloatToUint(v)
  PROVE  \/ Truncated(v) = MaxUintAsFloat
         \/ 0 <= Truncated(v) /\ Truncated(v) <= MaxUint(Limit64) /\ n = Number(Truncated(v))
<1>1. Truncated(v) \in Int /\ 0 <= Truncated(v) /\ Truncated(v) <= MaxUintAsFloat
  BY TruncatedValue, LimitsNest DEF MaxUintAsFloat
<1>2. CASE Truncated(v) <= MaxUint(Limit64)
  BY <1>1, <1>2 DEF FloatToUint
<1>3. CASE ~(Truncated(v) <= MaxUint(Limit64))
  BY <1>1, <1>3, LimitsNest DEF MaxUint, MaxUintAsFloat
<1> QED BY <1>2, <1>3

\* The two conversions to an unsigned type, by the kind that is converted.
LEMMA Uint64Kinds ==
  ASSUME NEW v
  PROVE  /\ v.kind \in Unsigned => UnmarshalUint64(v) = {Number(Truncated(v))}
         /\ v.kind \in Signed => UnmarshalUint64(v) = IF v.h < 0 THEN {Rejected} ELSE {Number(Truncated(v))}
         /\ v.kind = "float64" =>
              UnmarshalUint64(v) = IF v.h < 0 \/ v.h > 2 * MaxUintAsFloat THEN {Rejected} ELSE FloatToUint(v)
         /\ v.kind = "string" =>
              UnmarshalUint64(v) = IF ParsesAsUint(v) THEN {Number(Truncated(v))} ELSE {Rejected}
         /\ v.kind \in Decimals \cup {"*big.Int", "nil", "bool"} => UnmarshalUint64(v) = {Rejected}
<1>1. v.kind \in Unsigned => UnmarshalUint64(v) = {Number(Truncated(v))}
  BY SMT DEF UnmarshalUint64, Unsigned, Signed
<1>2. v.kind \in Signed => UnmarshalUint64(v) = IF v.h < 0 THEN {Rejected} ELSE {Number(Truncated(v))}
  BY SMT DEF UnmarshalUint64, Unsigned, Signed
<1>3. v.kind = "float64" =>
        UnmarshalUint64(v) = IF v.h < 0 \/ v.h > 2 * MaxUintAsFloat THEN {Rejected} ELSE FloatToUint(v)
  BY SMT DEF UnmarshalUint64, Unsigned, Signed
<1>4. v.kind = "string" => UnmarshalUint64(v) = IF ParsesAsUint(v) THEN {Number(Truncated(v))} ELSE {Rejected}
  BY SMT DEF UnmarshalUint64, Unsigned, Signed
<1>5. v.kind \in Decimals \cup {"*big.Int", "nil", "bool"} => UnmarshalUint64(v) = {Rejected}
  BY SMT DEF UnmarshalUint64, Unsigned, Signed, Decimals
<1> QED BY <1>1, <1>2, <1>3, <1>4, <1>5

\* An unsigned parameter that may be missing is only more than one that may not if it is.
LEMMA MaybeUint64Kinds ==
  ASSUME NEW v
  PROVE  /\ IsBlank(v) => UnmarshalMaybeUint64(v) = {Unset}
         /\ ~IsBlank(v) => UnmarshalMaybeUint64(v) = UnmarshalUint64(v)
<1>1. IsBlank(v) => UnmarshalMaybeUint64(v) = {Unset}
  BY SMT DEF UnmarshalMaybeUint64, IsBlank, Unsigned, Signed
<1>2. ~IsBlank(v) => UnmarshalMaybeUint64(v) = UnmarshalUint64(v)
  BY SMT DEF UnmarshalMaybeUint64, UnmarshalUint64, Unsigned, Signed
<1> QED BY <1>1, <1>2

\* What each kind of value is converted to, as an int32 and as a big integer.
LEMMA MaybeInt32Kinds ==
  ASSUME NEW v
  PROVE  /\ v.kind \in {"uint8", "uint16", "int8", "int16", "int32"} =>
              UnmarshalMaybeInt32(v) = {Number(Truncated(v))}
         /\ v.kind \in {"uint", "uint32", "uint64"} =>
              UnmarshalMaybeInt32(v) = IF v.h > 2 * MaxInt(Limit32) THEN {Rejected} ELSE {Number(Truncated(v))}
         /\ v.kind \in {"int", "int64", "float64"} =>
              UnmarshalMaybeInt32(v) = IF v.h > 2 * MaxInt(Limit32) \/ v.h < 2 * MinInt(Limit32)
                                       THEN {Rejected} ELSE {Number(Truncated(v))}
         /\ IsDigits(v) => UnmarshalMaybeInt32(v) = IF ParsesAsInt32(v) THEN {Number(Truncated(v))} ELSE {Rejected}
         /\ v.kind \in Decimals \cup {"*big.Int"} => UnmarshalMaybeInt32(v) = {Rejected}
<1>1. v.kind \in {"uint8", "uint16", "int8", "int16", "int32"} => UnmarshalMaybeInt32(v) = {Number(Truncated(v))}
  BY SMT DEF UnmarshalMaybeInt32, IsBlank
<1>2. v.kind \in {"uint", "uint32", "uint64"} =>
        UnmarshalMaybeInt32(v) = IF v.h > 2 * MaxInt(Limit32) THEN {Rejected} ELSE {Number(Truncated(v))}
  BY SMT DEF UnmarshalMaybeInt32, IsBlank
<1>3. v.kind \in {"int", "int64", "float64"} =>
        UnmarshalMaybeInt32(v) = IF v.h > 2 * MaxInt(Limit32) \/ v.h < 2 * MinInt(Limit32)
                                 THEN {Rejected} ELSE {Number(Truncated(v))}
  BY SMT DEF UnmarshalMaybeInt32, IsBlank
<1>4. IsDigits(v) => UnmarshalMaybeInt32(v) = IF ParsesAsInt32(v) THEN {Number(Truncated(v))} ELSE {Rejected}
  BY SMT DEF UnmarshalMaybeInt32, IsDigits, IsBlank
<1>5. v.kind \in Decimals \cup {"*big.Int"} => UnmarshalMaybeInt32(v) = {Rejected}
  BY SMT DEF UnmarshalMaybeInt32, IsBlank, Decimals
<1> QED BY <1>1, <1>2, <1>3, <1>4, <1>5

LEMMA MaybeBigIntKinds ==
  ASSUME NEW v
  PROVE  /\ v.kind \in Unsigned \cup Signed \cup {"*big.Int"} => UnmarshalMaybeBigInt(v) = {Number(Truncated(v))}
         /\ v.kind = "float64" =>
              UnmarshalMaybeBigInt(v) = IF v.h < 2 * MinInt(Limit64) \/ v.h > 2 * MaxUintAsFloat THEN {Rejected}
                                        ELSE IF v.h < 0 THEN {Number(Truncated(v))} ELSE FloatToUint(v)
         /\ v.kind \in Decimals \/ IsDigits(v) =>
              UnmarshalMaybeBigInt(v) = IF Whole(v) THEN {Number(Truncated(v))} ELSE {Rejected}
<1>1. v.kind \in Unsigned \cup Signed \cup {"*big.Int"} => UnmarshalMaybeBigInt(v) = {Number(Truncated(v))}
  BY SMT DEF UnmarshalMaybeBigInt, Unsigned, Signed, Decimals, IsBlank, IsDigits
<1>2. v.kind = "float64" =>
        UnmarshalMaybeBigInt(v) = IF v.h < 2 * MinInt(Limit64) \/ v.h > 2 * MaxUintAsFloat THEN {Rejected}
                                  ELSE IF v.h < 0 THEN {Number(Truncated(v))} ELSE FloatToUint(v)
  BY SMT DEF UnmarshalMaybeBigInt, Unsigned, Signed, Decimals, IsBlank, IsDigits
<1>3. v.kind \in Decimals \/ IsDigits(v) =>
        UnmarshalMaybeBigInt(v) = IF Whole(v) THEN {Number(Truncated(v))} ELSE {Rejected}
  BY SMT DEF UnmarshalMaybeBigInt, Unsigned, Signed, Decimals, IsDigits, IsBlank
<1> QED BY <1>1, <1>2, <1>3

\* Uint64Param, and with it MaybeUint64Param for what is not blank.
LEMMA Uint64Exact ==
  ASSUME NEW v, IsValue(v), IsNumber(v), NEW target \in {"Uint64Param", "MaybeUint64Param"},
         NEW n \in UnmarshalUint64(v)
  PROVE  Exact(target, v, n)
<1>1. /\ v.h \in Int /\ v.kind \in Kinds
      /\ \A k : Holds(target, k) <=> 0 <= k /\ k <= MaxUint(Limit64)
  BY DEF IsValue, Holds
<1>2. /\ Truncated(v) \in Int /\ (Whole(v) <=> v.h = 2 * Truncated(v))
      /\ v.h < 0 => v.h <= 2 * Truncated(v) /\ 2 * Truncated(v) <= v.h + 1
  BY <1>1, TruncatedValue
<1>3. Rejected.err
  BY DEF Rejected
<1>4. CASE v.kind \in Unsigned
  <2>1. n = Number(Truncated(v))
    BY <1>4, Uint64Kinds
  <2> QED BY <1>1, <1>4, <2>1, UnsignedHolds DEF Exact
<1>5. CASE v.kind \in Signed
  <2>1. n \in IF v.h < 0 THEN {Rejected} ELSE {Number(Truncated(v))}
    BY <1>5, Uint64Kinds
  <2>2. v.kind # "float64"
    BY <1>5 DEF Signed
  <2>3. Whole(v) /\ Truncated(v) <= MaxInt(Limit64)
    BY <1>5, SignedHolds
  <2>4. Holds(target, Truncated(v)) <=> ~(v.h < 0)
    BY <1>1, <1>2, <2>3, LimitsNest DEF MaxInt, MaxUint
  <2> QED BY <1>3, <2>1, <2>2, <2>3, <2>4 DEF Exact
<1>6. CASE v.kind = "float64"
  <2>1. n \in IF v.h < 0 \/ v.h > 2 * MaxUintAsFloat THEN {Rejected} ELSE FloatToUint(v)
    BY <1>6, Uint64Kinds
  <2>2. CASE v.h < 0 \/ v.h > 2 * MaxUintAsFloat
    <3>1. n.err
      BY <1>3, <2>1, <2>2
    <3>2. Whole(v) => ~Holds(target, Truncated(v))
      BY <1>1, <1>2, <2>2, LimitsNest DEF MaxUint, MaxUintAsFloat
    <3> QED BY <3>1, <3>2 DEF Exact
  <2>3. CASE ~(v.h < 0 \/ v.h > 2 * MaxUintAsFloat)
    <3>1. n \in FloatToUint(v) /\ 0 <= v.h /\ v.h <= 2 * MaxUintAsFloat
      BY <1>1, <2>1, <2>3, LimitsNest DEF MaxUintAsFloat
    <3>2. CASE Truncated(v) = MaxUintAsFloat
      <4>1. ~Holds(target, Truncated(v))
        BY <1>1, <3>2, LimitsNest DEF MaxUint, MaxUintAsFloat
      <4> QED BY <1>6, <3>2, <4>1 DEF Exact
    <3>3. CASE Holds(target, Truncated(v)) /\ n = Number(Truncated(v))
      BY <1>6, <3>3 DEF Exact
    <3> QED BY <1>1, <3>1, <3>2, <3>3, FloatsAreCut
  <2> QED BY <2>2, <2>3
<1>7. CASE v.kind = "string"
  <2>1. n \in IF ParsesAsUint(v) THEN {Number(Truncated(v))} ELSE {Rejected}
    BY <1>7, Uint64Kinds
  <2>2. ParsesAsUint(v) <=> Whole(v) /\ Holds(target, Truncated(v))
    <3>1. IsDigits(v)
      BY <1>7 DEF IsNumber
    <3> QED BY <1>1, <1>2, <3>1 DEF ParsesAsUint
  <2> QED BY <1>3, <1>7, <2>1, <2>2 DEF Exact
<1>8. CASE v.kind \in Decimals \cup {"*big.Int"}
  <2>1. n = Rejected
    BY <1>8, Uint64Kinds
  <2>2. ~Accepts(target, v)
    <3>1. target # "MaybeBigIntParam" /\ v.kind \notin Unsigned \cup Signed \cup {"float64", "string"}
      BY <1>8 DEF Unsigned, Signed, Decimals
    <3> QED BY <3>1 DEF Accepts
  <2> QED BY <1>3, <2>1, <2>2 DEF Exact
<1> QED BY <1>1, <1>4, <1>5, <1>6, <1>7, <1>8 DEF Kinds, IsNumber, IsDigits

\* The conversions to a signed kind do what IntegersAreExact says of them.
LEMMA Int32Exact ==
  ASSUME NEW v, IsValue(v), IsNumber(v), NEW n \in UnmarshalMaybeInt32(v)
  PROVE  Exact("MaybeInt32Param", v, n)
<1> DEFINE target == "MaybeInt32Param"
<1>1. /\ v.h \in Int /\ v.kind \in Kinds
      /\ \A k : Holds(target, k) <=> MinInt(Limit32) <= k /\ k <= MaxInt(Limit32)
  BY DEF IsValue, Holds
<1> HIDE DEF target
<1>2. /\ Truncated(v) \in Int /\ (Whole(v) <=> v.h = 2 * Truncated(v))
      /\ v.h >= 0 => 2 * Truncated(v) <= v.h /\ v.h <= 2 * Truncated(v) + 1
      /\ v.h < 0 => v.h <= 2 * Truncated(v) /\ 2 * Truncated(v) <= v.h + 1
  BY <1>1, TruncatedValue
<1>3. Rejected.err
  BY DEF Rejected
<1>4. CASE v.kind \in {"uint8", "uint16", "int8", "int16", "int32"}
  <2>1. n = Number(Truncated(v))
    BY <1>4, MaybeInt32Kinds
  <2>2. Whole(v) /\ MinInt(Limit32) <= Truncated(v) /\ Truncated(v) <= MaxInt(Limit32)
    <3>1. CASE v.kind \in {"uint8", "uint16"}
      <4>1. v.kind \in Unsigned
        BY <3>1 DEF Unsigned
      <4> QED BY <1>2, <3>1, <4>1, UnsignedHolds, LimitsNest DEF MinInt
    <3>2. CASE v.kind \in {"int8", "int16", "int32"}
      <4>1. v.kind \in Signed
        BY <3>2 DEF Signed
      <4> QED BY <3>2, <4>1, SignedHolds
    <3> QED BY <1>4, <3>1, <3>2
  <2> QED BY <1>1, <2>1, <2>2 DEF Exact, target
<1>5. CASE v.kind \in {"uint", "uint32", "uint64"}
  <2>1. n \in IF v.h > 2 * MaxInt(Limit32) THEN {Rejected} ELSE {Number(Truncated(v))}
    BY <1>5, MaybeInt32Kinds
  <2>2. Whole(v) /\ 0 <= Truncated(v) /\ v.kind # "float64"
    <3>1. v.kind \in Unsigned /\ v.kind # "float64"
      BY <1>5 DEF Unsigned
    <3> QED BY <3>1, UnsignedHolds
  <2>3. Holds(target, Truncated(v)) <=> ~(v.h > 2 * MaxInt(Limit32))
    BY <1>1, <1>2, <2>2, LimitsNest DEF MinInt, MaxInt
  <2> QED BY <1>3, <2>1, <2>2, <2>3 DEF Exact, target
<1>6. CASE v.kind \in {"int", "int64", "float64"}
  <2>1. n \in IF v.h > 2 * MaxInt(Limit32) \/ v.h < 2 * MinInt(Limit32) THEN {Rejected} ELSE {Number(Truncated(v))}
    BY <1>6, MaybeInt32Kinds
  <2>2. CASE v.h > 2 * MaxInt(Limit32) \/ v.h < 2 * MinInt(Limit32)
    <3>1. n.err
      BY <1>3, <2>1, <2>2
    <3>2. Whole(v) => ~Holds(target, Truncated(v))
      BY <1>1, <1>2, <2>2, LimitsNest DEF MinInt, MaxInt
    <3> QED BY <3>1, <3>2 DEF Exact, target
  <2>3. CASE ~(v.h > 2 * MaxInt(Limit32) \/ v.h < 2 * MinInt(Limit32))
    <3>1. n = Number(Truncated(v))
      BY <2>1, <2>3
    <3>2. Holds(target, Truncated(v))
      BY <1>1, <1>2, <2>3, LimitsNest DEF MinInt, MaxInt
    <3>3. v.kind # "float64" => Whole(v)
      BY <1>6, SignedHolds DEF Signed
    <3> QED BY <3>1, <3>2, <3>3 DEF Exact, target
  <2> QED BY <2>2, <2>3
<1>7. CASE IsDigits(v)
  <2>1. n \in IF ParsesAsInt32(v) THEN {Number(Truncated(v))} ELSE {Rejected}
    BY <1>7, MaybeInt32Kinds
  <2>2. ParsesAsInt32(v) <=> Whole(v) /\ Holds(target, Truncated(v))
    BY <1>1, <1>7 DEF ParsesAsInt32
  <2>3. v.kind # "float64"
    BY <1>7 DEF IsDigits
  <2> QED BY <1>3, <2>1, <2>2, <2>3 DEF Exact, target
<1>8. CASE v.kind \in Decimals \cup {"*big.Int"}
  <2>1. n = Rejected
    BY <1>8, MaybeInt32Kinds
  <2>2. ~Accepts(target, v)
    <3>1. target # "MaybeBigIntParam" /\ v.kind \notin Unsigned \cup Signed \cup {"float64", "string"}
      BY <1>8 DEF Unsigned, Signed, Decimals, target
    <3> QED BY <3>1 DEF Accepts
  <2> QED BY <1>3, <2>1, <2>2 DEF Exact, target
<1> QED BY <1>1, <1>4, <1>5, <1>6, <1>7, <1>8 DEF Kinds, IsNumber, Unsigned, Signed

LEMMA BigIntExact ==
  ASSUME NEW v, IsValue(v), IsNumber(v), NEW n \in UnmarshalMaybeBigInt(v)
  PROVE  Exact("MaybeBigIntParam", v, n)
<1> DEFINE target == "MaybeBigIntParam"
<1>1. /\ v.h \in Int /\ v.kind \in Kinds
      /\ \A k : Holds(target, k)
  BY DEF IsValue, Holds
<1> HIDE DEF target
<1>2. /\ Truncated(v) \in Int /\ (Whole(v) <=> v.h = 2 * Truncated(v))
      /\ v.h < 0 => v.h <= 2 * Truncated(v) /\ 2 * Truncated(v) <= v.h + 1
  BY <1>1, TruncatedValue
<1>3. Rejected.err
  BY DEF Rejected
<1>4. CASE v.kind \in Unsigned \cup Signed \cup {"*big.Int"}
  <2>1. n = Number(Truncated(v))
    BY <1>4, MaybeBigIntKinds
  <2>2. Whole(v)
    BY <1>4 DEF IsValue, Whole
  <2> QED BY <1>1, <2>1, <2>2 DEF Exact, target
<1>5. CASE v.kind = "float64"
  <2>1. n \in IF v.h < 2 * MinInt(Limit64) \/ v.h > 2 * MaxUintAsFloat THEN {Rejected}
              ELSE IF v.h < 0 THEN {Number(Truncated(v))} ELSE FloatToUint(v)
    BY <1>5, MaybeBigIntKinds
  <2>2. CASE v.h < 2 * MinInt(Limit64) \/ v.h > 2 * MaxUintAsFloat
    <3>1. n.err
      BY <1>3, <2>1, <2>2
    <3>2. Whole(v) => ~(MinInt(Limit64) <= Truncated(v) /\ Truncated(v) <= MaxUint(Limit64))
      BY <1>1, <1>2, <2>2, LimitsNest DEF MinInt, MaxUint, MaxUintAsFloat
    <3> QED BY <1>5, <3>1, <3>2 DEF Exact, target
  <2>3. CASE ~(v.h < 2 * MinInt(Limit64) \/ v.h > 2 * MaxUintAsFloat) /\ v.h < 0
    BY <1>1, <1>5, <2>1, <2>3 DEF Exact, target
  <2>4. CASE ~(v.h < 2 * MinInt(Limit64) \/ v.h > 2 * MaxUintAsFloat) /\ ~(v.h < 0)
    <3>1. n \in FloatToUint(v) /\ 0 <= v.h /\ v.h <= 2 * MaxUintAsFloat
      BY <1>1, <2>1, <2>4, LimitsNest DEF MaxUintAsFloat
    <3>2. CASE Truncated(v) = MaxUintAsFloat
      <4>1. ~(Truncated(v) <= MaxUint(Limit64))
        BY <1>2, <3>2, LimitsNest DEF MaxUint, MaxUintAsFloat
      <4> QED BY <1>5, <3>2, <4>1 DEF Exact, target
    <3>3. CASE n = Number(Truncated(v))
      BY <1>1, <1>5, <3>3 DEF Exact, target
    <3> QED BY <1>1, <3>1, <3>2, <3>3, FloatsAreCut
  <2> QED BY <2>2, <2>3, <2>4
<1>6. CASE v.kind \in Decimals \/ IsDigits(v)
  <2>1. n \in IF Whole(v) THEN {Number(Truncated(v))} ELSE {Rejected}
    BY <1>6, MaybeBigIntKinds
  <2>2. v.kind # "float64"
    BY <1>6 DEF IsDigits, Decimals
  <2> QED BY <1>1, <1>3, <2>1, <2>2 DEF Exact, target
<1> QED BY <1>1, <1>4, <1>5, <1>6 DEF Kinds, IsNumber, target

\* Every conversion is exact.
LEMMA ConversionsAreExact ==
  ASSUME NEW v, IsValue(v), IsNumber(v), NEW target \in IntegerTypes, NEW n \in UnmarshalInteger(target, v)
  PROVE  Exact(target, v, n)
<1>1. CASE target = "Uint64Param"
  <2>1. n \in UnmarshalUint64(v)
    BY <1>1 DEF UnmarshalInteger
  <2> QED BY <1>1, <2>1, Uint64Exact
<1>2. CASE target = "MaybeUint64Param"
  <2>1. n \in UnmarshalMaybeUint64(v)
    BY <1>2 DEF UnmarshalInteger
  <2>2. ~IsBlank(v)
    BY DEF IsNumber, IsDigits, IsBlank
  <2> QED BY <1>2, <2>1, <2>2, MaybeUint64Kinds, Uint64Exact
<1>3. CASE target = "MaybeInt32Param"
  <2>1. n \in UnmarshalMaybeInt32(v)
    BY <1>3 DEF UnmarshalInteger
  <2> QED BY <1>3, <2>1, Int32Exact
<1>4. CASE target = "MaybeBigIntParam"
  <2>1. n \in UnmarshalMaybeBigInt(v)
    BY <1>4 DEF UnmarshalInteger
  <2> QED BY <1>4, <2>1, BigIntExact
<1> QED BY <1>1, <1>2, <1>3, <1>4 DEF IntegerTypes

\* The conversions to an unsigned type leave nothing unset but a blank text.
LEMMA Uint64Sets ==
  ASSUME NEW v, v.kind \in Kinds, NEW n \in UnmarshalUint64(v)
  PROVE  n.isSet \/ n.err
<1>1. Rejected.err /\ \A k : Number(k).isSet
  BY DEF Rejected, Number
<1>2. FloatToUint(v) \subseteq {Number(k) : k \in {Truncated(v)} \cup 0..MaxUint(Limit64)}
  BY DEF FloatToUint
<1>3. n = Rejected \/ \E k : n = Number(k)
  BY <1>2, Uint64Kinds DEF Kinds
<1> QED BY <1>1, <1>3

-----------------------------------------------------------------------------
(* The conversions, as steps *)

\* The inductive invariant: what is there was made by the conversion.
IntegerInv ==
  /\ number \in Values /\ to \in IntegerTypes \cup {"none"}
  /\ to # "none" => out \in UnmarshalInteger(to, number)

LEMMA IntegerInvHolds == IntegerSpec => []IntegerInv
<1>1. IntegerInit => IntegerInv
  BY DEF IntegerInit, IntegerInv
<1>2. IntegerInv /\ [IntegerNext]_integerVars => IntegerInv'
  <2> SUFFICES ASSUME IntegerInv, [IntegerNext]_integerVars PROVE IntegerInv'
    OBVIOUS
  <2>1. ASSUME NEW target \in IntegerTypes, Convert(target) PROVE IntegerInv'
    BY <2>1 DEF IntegerInv, Convert
  <2>2. CASE Converted
    BY <2>2 DEF IntegerInv, Converted, integerVars
  <2>3. CASE UNCHANGED integerVars
    BY <2>3 DEF IntegerInv, integerVars
  <2> QED BY <2>1, <2>2, <2>3 DEF IntegerNext
<1> QED BY <1>1, <1>2, PTL DEF IntegerSpec

\* An integer parameter is the number it was made of, or an error, or not set,
\* whatever the sizes of the types are (task_params.go:178-386, 764-826).
THEOREM IntegersAreAlwaysExact == IntegerSpec => []IntegersAreExact
<1>1. IntegerInv => IntegersAreExact
  <2> SUFFICES ASSUME IntegerInv, to # "none" PROVE IntegersAreExact
    BY DEF IntegersAreExact, InRangeIsExact, OutOfRangeIsRejected, MaybeAddsBlanksOnly
  <2>1. /\ IsValue(number) /\ to \in IntegerTypes /\ out \in UnmarshalInteger(to, number)
        /\ number.kind \in Kinds
    BY ValuesAssumption DEF IntegerInv, IsValue
  <2>2. IsNumber(number) => Exact(to, number, out)
    BY <2>1, ConversionsAreExact
  <2>3. InRangeIsExact
    BY <2>2 DEF InRangeIsExact, Exact
  <2>4. OutOfRangeIsRejected
    BY <2>2 DEF OutOfRangeIsRejected, AtRoundedBound, Exact
  <2>5. MaybeAddsBlanksOnly
    <3> SUFFICES ASSUME to = "MaybeUint64Param"
                 PROVE  (out.isSet \/ out.err <=> ~IsBlank(number))
                        /\ (~IsBlank(number) => out \in UnmarshalUint64(number))
      BY DEF MaybeAddsBlanksOnly
    <3>1. out \in UnmarshalMaybeUint64(number)
      BY <2>1 DEF UnmarshalInteger
    <3>2. CASE IsBlank(number)
      BY <3>1, <3>2, MaybeUint64Kinds DEF Unset
    <3>3. CASE ~IsBlank(number)
      BY <2>1, <3>1, <3>3, MaybeUint64Kinds, Uint64Sets
    <3> QED BY <3>2, <3>3
  <2> QED BY <2>3, <2>4, <2>5 DEF IntegersAreExact
<1> QED BY <1>1, IntegerInvHolds, PTL

-----------------------------------------------------------------------------
(* Parameters: what a value is unmarshalled to.                             *)

\* A text is unmarshalled alike as a string and as bytes, to every documented type.
LEMMA TextsAlike ==
  ASSUME NEW v, v.kind = "string", NEW t \in Documented
  PROVE  UnmarshalPipelineParam(t, v) = UnmarshalPipelineParam(t, Bytes(v.text))
<1> DEFINE w == Bytes(v.text)
<1>1. w.kind = "bytes" /\ w.text = v.text /\ v # Nil /\ w # Nil
  BY DEF Bytes, Nil
<1> HIDE DEF w
<1>2. StringParam(v) = StringParam(w)
  BY <1>1, SMT DEF StringParam
<1>3. StringSliceParam(v) = StringSliceParam(w)
  BY <1>1, SMT DEF StringSliceParam
<1>4. AddressParam(v) = AddressParam(w)
  BY <1>1, SMT DEF AddressParam
<1>5. MapParam(v) = MapParam(w) /\ SliceParam(v) = SliceParam(w)
  BY <1>1, SMT DEF MapParam, SliceParam
<1>6. DecimalSliceParam(v) = DecimalSliceParam(w) /\ HashSliceParam(v) = HashSliceParam(w)
  BY <1>1, SMT DEF DecimalSliceParam, HashSliceParam, Typed
<1>7. AddressSliceParam(v) = AddressSliceParam(w)
  BY <1>1, SMT DEF AddressSliceParam, Typed
<1>8. \A r : JSONPathParam(r, v) = JSONPathParam(r, w)
  BY <1>1, SMT DEF JSONPathParam
<1> QED
  BY <1>2, <1>3, <1>4, <1>5, <1>6, <1>7, <1>8 DEF UnmarshalPipelineParam, Documented, w

\* Nothing is unmarshalled from an error.
LEMMA ErrorIsBad ==
  ASSUME NEW t \in Types
  PROVE  UnmarshalPipelineParam(t, Error) = Bad
<1>1. Error.kind = "error" /\ Error # Nil
  BY DEF Error, Nil
<1>2. StringParam(Error) = Bad /\ StringSliceParam(Error) = Bad /\ BytesParam(Error) = Bad
  BY <1>1, SMT DEF StringParam, StringSliceParam, BytesParam
<1>3. BoolParam(Error) = Bad /\ DecimalParam(Error) = Bad /\ URLParam(Error) = Bad
  BY <1>1, SMT DEF BoolParam, DecimalParam, URLParam, Numbers
<1>4. AddressParam(Error) = Bad /\ MapParam(Error) = Bad /\ SliceParam(Error) = Bad
  BY <1>1, SMT DEF AddressParam, MapParam, SliceParam
<1>5. DecimalSliceParam(Error) = Bad /\ HashSliceParam(Error) = Bad /\ AddressSliceParam(Error) = Bad
  BY <1>1, SMT DEF DecimalSliceParam, HashSliceParam, AddressSliceParam, Typed
<1>6. ObjectParam(Error) = Bad /\ \A r : JSONPathParam(r, Error) = Bad
  BY <1>1, SMT DEF ObjectParam, JSONPathParam, Numbers
<1> QED
  BY <1>2, <1>3, <1>4, <1>5, <1>6 DEF UnmarshalPipelineParam, Types

\* Nothing is unmarshalled from a slice with an error in it, but by the types that
\* take errors.
LEMMA ErrorInSliceIsBad ==
  ASSUME NEW v, v.kind = "slice", NEW k \in DOMAIN v.e, v.e[k] = Error, NEW t \in Types \ TakesErrors
  PROVE  UnmarshalPipelineParam(t, v) = Bad
<1> DEFINE p == UnmarshalPipelineParam(t, v)
<1>1. v # Nil /\ Error.kind = "error" /\ Error # Nil
  BY DEF Error, Nil
<1>2. DecimalParam(Error) = Bad
  BY <1>1, SMT DEF DecimalParam, Numbers
<1>3. HashParam(Error) = Bad /\ AddressParam(Error) = Bad
  BY <1>1, SMT DEF HashParam, AddressParam
<1>4. CASE t \in {"StringParam", "BytesParam", "BoolParam", "DecimalParam", "URLParam", "AddressParam", "MapParam"}
  <2>1. StringParam(v) = Bad /\ BytesParam(v) = Bad /\ BoolParam(v) = Bad
    BY <1>1, SMT DEF StringParam, BytesParam, BoolParam
  <2>2. DecimalParam(v) = Bad /\ URLParam(v) = Bad
    BY <1>1, SMT DEF DecimalParam, URLParam, Numbers
  <2>3. AddressParam(v) = Bad /\ MapParam(v) = Bad
    BY <1>1, SMT DEF AddressParam, MapParam
  <2> QED BY <1>4, <2>1, <2>2, <2>3 DEF UnmarshalPipelineParam
<1>5. CASE t \in {"JSONPathParam", "JSONPathParam with separator"}
  <2>1. \A r : JSONPathParam(r, v) = IF \E j \in DOMAIN v.e : v.e[j].kind # "string" THEN Bad ELSE v
    BY <1>1, SMT DEF JSONPathParam
  <2>2. p = IF \E j \in DOMAIN v.e : v.e[j].kind # "string" THEN Bad ELSE v
    BY <1>5, <2>1 DEF UnmarshalPipelineParam
  <2> QED BY <1>1, <2>2
<1>6. CASE t = "DecimalSliceParam"
  <2>1. p = IF \E j \in DOMAIN v.e : DecimalParam(v.e[j]) = Bad THEN Bad ELSE Slice([j \in DOMAIN v.e |-> DecimalParam(v.e[j])])
    BY <1>1, <1>6, SMT DEF UnmarshalPipelineParam, DecimalSliceParam, Typed, SliceOf
  <2> QED BY <1>2, <2>1
<1>7. CASE t = "HashSliceParam"
  <2>1. p = IF \E j \in DOMAIN v.e : HashParam(v.e[j]) = Bad THEN Bad ELSE Slice([j \in DOMAIN v.e |-> HashParam(v.e[j])])
    BY <1>1, <1>7, SMT DEF UnmarshalPipelineParam, HashSliceParam, Typed, SliceOf
  <2> QED BY <1>3, <2>1
<1>8. CASE t = "AddressSliceParam"
  <2>1. AddressSliceParam(v) = Typed(AddressParam, v)
    BY SMT DEF AddressSliceParam
  <2>2. Typed(AddressParam, v) = SliceOf(AddressParam, v.e)
    BY <1>1, SMT DEF Typed
  <2>3. SliceOf(AddressParam, v.e) =
          IF \E j \in DOMAIN v.e : AddressParam(v.e[j]) = Bad THEN Bad ELSE Slice([j \in DOMAIN v.e |-> AddressParam(v.e[j])])
    BY SMT DEF SliceOf
  <2> QED BY <1>3, <1>8, <2>1, <2>2, <2>3 DEF UnmarshalPipelineParam
<1> QED BY <1>4, <1>5, <1>6, <1>7, <1>8 DEF Types, TakesErrors

\* What values say, by their kinds.
LEMMA Sayings ==
  ASSUME NEW v
  PROVE  /\ v.kind \in Numbers => Says(v) = NumberText(v.n, v.x)
         /\ v.kind = "bool" => Says(v) = BoolText(v.b)
         /\ v.kind \in {"string", "bytes"} => Says(v) = TextMeaning(v.text)
         /\ v.kind \notin Numbers \cup {"bool", "string", "bytes"} => Says(v) = v
         /\ Meaning(v) = IF v.kind = "object" THEN Says(v.of) ELSE Says(v)
BY SMT DEF Says, Meaning, Numbers

LEMMA TextMeanings ==
  ASSUME NEW n, NEW x, NEW b, NEW t
  PROVE  /\ TextMeaning(NumberText(n, x)) = NumberText(n, x)
         /\ TextMeaning(BoolText(b)) = BoolText(b)
         /\ t.form = "number" => TextMeaning(t) = NumberText(t.n, t.x)
         /\ t.form = "json" => TextMeaning(t) = t.doc
<1>1. NumberText(n, x).form = "number" /\ NumberText(n, x).n = n /\ NumberText(n, x).x = x
  BY DEF NumberText
<1>2. BoolText(b).form = "boolean" /\ BoolText(b).b = b
  BY DEF BoolText
<1> QED BY <1>1, <1>2, SMT DEF TextMeaning

\* What the constructors of texts and decimals say.
LEMMA MadeMeanings ==
  ASSUME NEW n, NEW x, NEW t
  PROVE  /\ Meaning(Str(t)) = TextMeaning(t)
         /\ Meaning(Num("decimal", n, x)) = NumberText(n, x)
<1>1. Str(t).kind = "string" /\ Str(t).text = t
  BY DEF Str
<1>2. Num("decimal", n, x).kind = "decimal" /\ Num("decimal", n, x).n = n /\ Num("decimal", n, x).x = x
  BY DEF Num
<1>3. Meaning(Str(t)) = TextMeaning(t)
  <2> DEFINE s == Str(t)
  <2>1. s.kind = "string" /\ s.text = t
    BY <1>1
  <2> HIDE DEF s
  <2>2. Meaning(s) = TextMeaning(t)
    BY <2>1, Sayings
  <2> QED BY <2>2 DEF s
<1>4. Meaning(Num("decimal", n, x)) = NumberText(n, x)
  <2> DEFINE d == Num("decimal", n, x)
  <2>1. d.kind = "decimal" /\ d.n = n /\ d.x = x
    BY <1>2
  <2> HIDE DEF d
  <2>2. Meaning(d) = NumberText(n, x)
    BY <2>1, Sayings DEF Numbers
  <2> QED BY <2>2 DEF d
<1> QED BY <1>3, <1>4

\* A document becomes the slice, map or nil that is in it.
LEMMA DecodedMeaning ==
  ASSUME NEW v, v.kind \in {"string", "bytes"}, NEW kind \in {"slice", "map"}, Decoded(v.text, kind) # Bad
  PROVE  /\ Decoded(v.text, kind) = Meaning(v)
         /\ Meaning(v).kind \in {kind, "nil"} /\ Meaning(Meaning(v)) = Meaning(v)
<1>1. v.text.form = "json" /\ Decoded(v.text, kind) = v.text.doc /\ v.text.doc.kind \in {kind, "nil"}
  BY DEF Decoded
<1>2. Meaning(v) = v.text.doc
  BY <1>1, Sayings, TextMeanings
<1>3. Meaning(v.text.doc) = v.text.doc
  BY <1>1, Sayings DEF Numbers
<1> QED BY <1>1, <1>2, <1>3

LEMMA StringMeaning ==
  ASSUME NEW v, StringParam(v) # Bad PROVE Meaning(StringParam(v)) = Meaning(v)
<1>1. \/ v.kind \in {"string", "bytes"} /\ StringParam(v) = Str(v.text)
      \/ v.kind = "int" /\ StringParam(v) = Str(NumberText(v.n, v.x))
      \/ v.kind = "object" /\ v.of.kind = "string" /\ StringParam(v) = v.of
  BY SMT DEF StringParam
<1>2. CASE v.kind \in {"string", "bytes"} /\ StringParam(v) = Str(v.text)
  BY <1>2, Sayings, MadeMeanings
<1>3. CASE v.kind = "int" /\ StringParam(v) = Str(NumberText(v.n, v.x))
  BY <1>3, Sayings, MadeMeanings, TextMeanings DEF Numbers
<1>4. CASE v.kind = "object" /\ v.of.kind = "string" /\ StringParam(v) = v.of
  BY <1>4, Sayings
<1> QED BY <1>1, <1>2, <1>3, <1>4

LEMMA DecimalMeaning ==
  ASSUME NEW v, DecimalParam(v) # Bad
  PROVE  DecimalParam(v).kind = "decimal" /\ Meaning(DecimalParam(v)) = Meaning(v)
<1>1. \/ v.kind = "object" /\ v.of.kind = "decimal" /\ DecimalParam(v) = v.of
      \/ v.kind \in Numbers /\ DecimalParam(v) = Num("decimal", v.n, v.x)
      \/ v.kind = "string" /\ v.text.form = "number" /\ DecimalParam(v) = Num("decimal", v.text.n, v.text.x)
  BY SMT DEF DecimalParam, Numbers
<1>2. \A n, x : Num("decimal", n, x).kind = "decimal"
  BY DEF Num
<1>3. CASE v.kind = "object" /\ v.of.kind = "decimal" /\ DecimalParam(v) = v.of
  BY <1>3, Sayings
<1>4. CASE v.kind \in Numbers /\ DecimalParam(v) = Num("decimal", v.n, v.x)
  BY <1>2, <1>4, Sayings, MadeMeanings DEF Numbers
<1>5. CASE v.kind = "string" /\ v.text.form = "number" /\ DecimalParam(v) = Num("decimal", v.text.n, v.text.x)
  BY <1>2, <1>5, Sayings, MadeMeanings, TextMeanings
<1> QED BY <1>1, <1>3, <1>4, <1>5

LEMMA MapAndSliceMeaning ==
  ASSUME NEW v
  PROVE  /\ MapParam(v) # Bad => Meaning(MapParam(v)) = Meaning(v)
         /\ SliceParam(v) # Bad => Meaning(SliceParam(v)) = Meaning(v)
<1>1. \/ MapParam(v) \in {Bad, v}
      \/ v.kind \in {"string", "bytes"} /\ MapParam(v) = Decoded(v.text, "map")
      \/ v.kind = "object" /\ v.of.kind = "map" /\ MapParam(v) = v.of
  BY SMT DEF MapParam
<1>2. \/ SliceParam(v) \in {Bad, v}
      \/ v.kind \in {"string", "bytes"} /\ SliceParam(v) = Decoded(v.text, "slice")
  BY SMT DEF SliceParam
<1>3. ASSUME v.kind = "object", v.of.kind = "map" PROVE Meaning(v.of) = Meaning(v)
  BY <1>3, Sayings
<1> QED BY <1>1, <1>2, <1>3, DecodedMeaning

LEMMA ObjectMeaning ==
  ASSUME NEW v, ObjectParam(v) # Bad, ~(v.kind = "object" /\ v.of.kind = "slice")
  PROVE  Meaning(ObjectParam(v)) = Meaning(v)
<1>1. \A x : Object(x).kind = "object" /\ Object(x).of = x
  BY DEF Object
<1>2. \/ v.kind \in {"nil", "bool", "string", "map", "slice"} /\ ObjectParam(v) = Object(v)
      \/ v.kind \in Numbers /\ ObjectParam(v) = Object(DecimalParam(v))
      \/ ObjectParam(v) = v
  BY SMT DEF ObjectParam, Numbers
<1>3. \A x : Meaning(Object(x)) = Says(x)
  BY <1>1, Sayings
<1>4. CASE v.kind \in {"nil", "bool", "string", "map", "slice"} /\ ObjectParam(v) = Object(v)
  BY <1>3, <1>4, Sayings
<1>5. CASE v.kind \in Numbers /\ ObjectParam(v) = Object(DecimalParam(v))
  <2>1. DecimalParam(v) = Num("decimal", v.n, v.x)
    BY <1>5, SMT DEF DecimalParam, Numbers
  <2>2. Num("decimal", v.n, v.x) # Bad
    BY DEF Num, Bad
  <2>3. DecimalParam(v).kind = "decimal" /\ Meaning(DecimalParam(v)) = Meaning(v)
    BY <2>1, <2>2, DecimalMeaning
  <2>4. Says(DecimalParam(v)) = Meaning(DecimalParam(v))
    BY <2>3, Sayings
  <2> QED BY <1>3, <1>5, <2>3, <2>4
<1> QED BY <1>2, <1>4, <1>5

\* The inductive invariant: what is there was made by the conversion.
TypeInv ==
  /\ value \in Params /\ type \in Types \cup {"none"}
  /\ IF type = "none" THEN param = Nil ELSE param = UnmarshalPipelineParam(type, value)

LEMMA TypeInvHolds == TypeSpec => []TypeInv
<1>1. TypeInit => TypeInv
  BY DEF TypeInit, TypeInv
<1>2. TypeInv /\ [TypeNext]_typeVars => TypeInv'
  <2> SUFFICES ASSUME TypeInv, [TypeNext]_typeVars PROVE TypeInv'
    OBVIOUS
  <2>1. ASSUME NEW t \in Types, Unmarshal(t) PROVE TypeInv'
    <3>1. "none" \notin Types
      BY DEF Types
    <3> QED BY <2>1, <3>1 DEF TypeInv, Unmarshal
  <2>2. CASE Unmarshalled
    BY <2>2 DEF TypeInv, Unmarshalled, typeVars
  <2>3. CASE UNCHANGED typeVars
    BY <2>3 DEF TypeInv, typeVars
  <2> QED BY <2>1, <2>2, <2>3 DEF TypeNext
<1> QED BY <1>1, <1>2, PTL DEF TypeSpec

\* The elements of the slices that are made one by one.
LEMMA ElementMeanings ==
  ASSUME NEW x
  PROVE  /\ IF x.kind \in HasText THEN Meaning(Str(ConvertToString(x))) = Meaning(x)
            ELSE Str(ConvertToString(x)) = Str(Blank)
         /\ HashParam(x) # Bad => HashParam(x) = x \/ (HashParam(x) = [kind |-> "hash"] /\ TextOf(x, {66}))
         /\ AddressParam(x) # Bad => AddressParam(x) = x \/ (AddressParam(x) = [kind |-> "address"] /\ TextOf(x, {20, 42}))
         /\ AddressInDocument(x) # Bad => AddressInDocument(x) = [kind |-> "address"] /\ TextOf(x, {20, 42})
<1>1. ASSUME x.kind \in {"int", "int64", "float64"} PROVE Meaning(Str(ConvertToString(x))) = Meaning(x)
  <2>1. ConvertToString(x) = NumberText(x.n, x.x)
    BY <1>1, SMT DEF ConvertToString
  <2>2. Meaning(Str(NumberText(x.n, x.x))) = NumberText(x.n, x.x)
    BY MadeMeanings, TextMeanings
  <2>3. Meaning(x) = NumberText(x.n, x.x)
    BY <1>1, Sayings DEF Numbers
  <2> QED BY <2>1, <2>2, <2>3
<1>2. ASSUME x.kind = "bool" PROVE Meaning(Str(ConvertToString(x))) = Meaning(x)
  <2>1. ConvertToString(x) = BoolText(x.b)
    BY <1>2, SMT DEF ConvertToString
  <2>2. Meaning(Str(BoolText(x.b))) = BoolText(x.b)
    BY MadeMeanings, TextMeanings
  <2>3. Meaning(x) = BoolText(x.b)
    BY <1>2, Sayings
  <2> QED BY <2>1, <2>2, <2>3
<1>3. ASSUME x.kind = "string" PROVE Meaning(Str(ConvertToString(x))) = Meaning(x)
  <2>1. ConvertToString(x) = x.text
    BY <1>3, SMT DEF ConvertToString
  <2> QED BY <1>3, <2>1, Sayings, MadeMeanings
<1>4. ASSUME x.kind \notin HasText PROVE Str(ConvertToString(x)) = Str(Blank)
  <2>1. ConvertToString(x) = Blank
    BY <1>4, SMT DEF ConvertToString, HasText
  <2> QED BY <2>1
<1>5. HashParam(x) # Bad => HashParam(x) = x \/ (HashParam(x) = [kind |-> "hash"] /\ TextOf(x, {66}))
  BY SMT DEF HashParam, TextOf
<1>6. AddressParam(x) # Bad => AddressParam(x) = x \/ (AddressParam(x) = [kind |-> "address"] /\ TextOf(x, {20, 42}))
  BY SMT DEF AddressParam, TextOf
<1>7. AddressInDocument(x) # Bad => AddressInDocument(x) = [kind |-> "address"] /\ TextOf(x, {20, 42})
  BY SMT DEF AddressInDocument, TextOf
<1> QED BY <1>1, <1>2, <1>3, <1>4, <1>5, <1>6, <1>7 DEF HasText

\* A slice type takes a slice, a document with a slice or nil in it, or nil: the
\* slice that is given is what the value says.
GivenAs(v, e) ==
  \/ v.kind = "slice" /\ e = v.e
  \/ v.kind \in {"string", "bytes"} /\ Decoded(v.text, "slice").kind = "slice" /\ e = Decoded(v.text, "slice").e
LEMMA GivenSlice ==
  ASSUME NEW v, NEW e, GivenAs(v, e)
  PROVE  Meaning(v).kind = "slice" /\ e = Meaning(v).e
<1>1. CASE v.kind = "slice" /\ e = v.e
  BY <1>1, Sayings DEF Numbers
<1>2. CASE v.kind \in {"string", "bytes"} /\ Decoded(v.text, "slice").kind = "slice" /\ e = Decoded(v.text, "slice").e
  <2>1. Decoded(v.text, "slice") # Bad
    BY <1>2 DEF Bad
  <2>2. Decoded(v.text, "slice") = Meaning(v)
    BY <1>2, <2>1, DecodedMeaning
  <2> QED BY <1>2, <2>2
<1> QED BY <1>1, <1>2 DEF GivenAs

LEMMA GivenNil ==
  ASSUME NEW v, NEW p, p # Bad,
         \/ v = Nil /\ p = Nil
         \/ v.kind \in {"string", "bytes"} /\ p = Decoded(v.text, "slice") /\ p.kind # "slice"
  PROVE  Meaning(v).kind = "nil" /\ p = Meaning(v)
<1>1. CASE v = Nil /\ p = Nil
  <2>1. v.kind = "nil"
    BY <1>1 DEF Nil
  <2> QED BY <1>1, <2>1, Sayings DEF Numbers
<1>2. CASE v.kind \in {"string", "bytes"} /\ p = Decoded(v.text, "slice") /\ p.kind # "slice"
  BY <1>2, DecodedMeaning
<1> QED BY <1>1, <1>2

\* What the four slice types make of a value: nothing, nil for nil, or a slice of what
\* they make of its elements, one by one.
LEMMA StringSlices ==
  ASSUME NEW v, StringSliceParam(v) # Bad
  PROVE  \/ v = Nil /\ StringSliceParam(v) = Nil
         \/ /\ v.kind \in {"string", "bytes"} /\ StringSliceParam(v) = Decoded(v.text, "slice")
            /\ StringSliceParam(v).kind # "slice"
         \/ \E e : GivenAs(v, e) /\ StringSliceParam(v) = Slice([k \in DOMAIN e |-> Str(ConvertToString(e[k]))])
<1>1. CASE v = Nil
  <2>1. v.kind = "nil"
    BY <1>1 DEF Nil
  <2>2. StringSliceParam(v) = Nil
    BY <1>1, <2>1, SMT DEF StringSliceParam
  <2> QED BY <1>1, <2>2
<1>2. CASE v # Nil /\ v.kind \in {"string", "bytes"}
  <2> DEFINE d == Decoded(v.text, "slice")
             S == Slice([k \in DOMAIN d.e |-> Str(ConvertToString(d.e[k]))])
  <2>1. StringSliceParam(v) = IF d.kind # "slice" THEN d
                              ELSE IF \E k \in DOMAIN d.e : d.e[k].kind \notin {"string", "nil"} THEN Bad ELSE S
    BY <1>2, SMT DEF StringSliceParam
  <2>2. d.kind = "slice" => GivenAs(v, d.e)
    BY <1>2 DEF GivenAs
  <2> QED BY <1>2, <2>1, <2>2
<1>3. CASE v # Nil /\ v.kind = "slice"
  <2>1. StringSliceParam(v) = Slice([k \in DOMAIN v.e |-> Str(ConvertToString(v.e[k]))])
    BY <1>3, SMT DEF StringSliceParam
  <2>2. GivenAs(v, v.e)
    BY <1>3 DEF GivenAs
  <2> QED BY <2>1, <2>2
<1>4. CASE v # Nil /\ v.kind \notin {"slice", "string", "bytes"}
  <2>1. StringSliceParam(v) = Bad
    BY <1>4, SMT DEF StringSliceParam
  <2> QED BY <2>1
<1> QED BY <1>1, <1>2, <1>3, <1>4

LEMMA DecimalSlices ==
  ASSUME NEW v, DecimalSliceParam(v) # Bad
  PROVE  \/ v = Nil /\ DecimalSliceParam(v) = Nil
         \/ /\ v.kind \in {"string", "bytes"} /\ DecimalSliceParam(v) = Decoded(v.text, "slice")
            /\ DecimalSliceParam(v).kind # "slice"
         \/ \E e : /\ GivenAs(v, e) /\ DecimalSliceParam(v) = Slice([k \in DOMAIN e |-> DecimalParam(e[k])])
                  /\ \A k \in DOMAIN e : DecimalParam(e[k]) # Bad
<1> DEFINE Of(e) == IF \E k \in DOMAIN e : DecimalParam(e[k]) = Bad THEN Bad ELSE Slice([k \in DOMAIN e |-> DecimalParam(e[k])])
           d == Decoded(v.text, "slice")
<1>1. DecimalSliceParam(v) =
        CASE v = Nil -> Nil
          [] v.kind = "slice" -> Of(v.e)
          [] v.kind \in {"string", "bytes"} -> IF d.kind = "slice" THEN Of(d.e) ELSE d
          [] OTHER -> Bad
  BY SMT DEF DecimalSliceParam, Typed, SliceOf
<1>2. \A e : Of(e) # Bad => Of(e) = Slice([k \in DOMAIN e |-> DecimalParam(e[k])]) /\ \A k \in DOMAIN e : DecimalParam(e[k]) # Bad
  OBVIOUS
<1>3. /\ v.kind = "slice" => GivenAs(v, v.e)
      /\ v.kind \in {"string", "bytes"} /\ d.kind = "slice" => GivenAs(v, d.e)
  BY DEF GivenAs
<1> HIDE DEF Of, d
<1>4. \/ v = Nil /\ DecimalSliceParam(v) = Nil
      \/ v.kind = "slice" /\ DecimalSliceParam(v) = Of(v.e)
      \/ v.kind \in {"string", "bytes"} /\ DecimalSliceParam(v) = (IF d.kind = "slice" THEN Of(d.e) ELSE d)
  BY <1>1
<1> QED BY <1>2, <1>3, <1>4 DEF d

LEMMA HashSlices ==
  ASSUME NEW v, HashSliceParam(v) # Bad
  PROVE  \/ v = Nil /\ HashSliceParam(v) = Nil
         \/ /\ v.kind \in {"string", "bytes"} /\ HashSliceParam(v) = Decoded(v.text, "slice")
            /\ HashSliceParam(v).kind # "slice"
         \/ \E e : /\ GivenAs(v, e) /\ HashSliceParam(v) = Slice([k \in DOMAIN e |-> HashParam(e[k])])
                  /\ \A k \in DOMAIN e : HashParam(e[k]) # Bad
<1> DEFINE Of(e) == IF \E k \in DOMAIN e : HashParam(e[k]) = Bad THEN Bad ELSE Slice([k \in DOMAIN e |-> HashParam(e[k])])
           d == Decoded(v.text, "slice")
<1>1. HashSliceParam(v) =
        CASE v = Nil -> Nil
          [] v.kind = "slice" -> Of(v.e)
          [] v.kind \in {"string", "bytes"} -> IF d.kind = "slice" THEN Of(d.e) ELSE d
          [] OTHER -> Bad
  BY SMT DEF HashSliceParam, Typed, SliceOf
<1>2. \A e : Of(e) # Bad => Of(e) = Slice([k \in DOMAIN e |-> HashParam(e[k])]) /\ \A k \in DOMAIN e : HashParam(e[k]) # Bad
  OBVIOUS
<1>3. /\ v.kind = "slice" => GivenAs(v, v.e)
      /\ v.kind \in {"string", "bytes"} /\ d.kind = "slice" => GivenAs(v, d.e)
  BY DEF GivenAs
<1> HIDE DEF Of, d
<1>4. \/ v = Nil /\ HashSliceParam(v) = Nil
      \/ v.kind = "slice" /\ HashSliceParam(v) = Of(v.e)
      \/ v.kind \in {"string", "bytes"} /\ HashSliceParam(v) = (IF d.kind = "slice" THEN Of(d.e) ELSE d)
  BY <1>1
<1> QED BY <1>2, <1>3, <1>4 DEF d

LEMMA AddressSlices ==
  ASSUME NEW v, AddressSliceParam(v) # Bad
  PROVE  \/ v = Nil /\ AddressSliceParam(v) = Nil
         \/ /\ v.kind \in {"string", "bytes"} /\ AddressSliceParam(v) = Decoded(v.text, "slice")
            /\ AddressSliceParam(v).kind # "slice"
         \/ \E e : /\ GivenAs(v, e)
                  /\ \/ /\ AddressSliceParam(v) = Slice([k \in DOMAIN e |-> AddressParam(e[k])])
                        /\ \A k \in DOMAIN e : AddressParam(e[k]) # Bad
                     \/ /\ AddressSliceParam(v) = Slice([k \in DOMAIN e |-> AddressInDocument(e[k])])
                        /\ \A k \in DOMAIN e : AddressInDocument(e[k]) # Bad
<1> DEFINE Of(e) == IF \E k \in DOMAIN e : AddressParam(e[k]) = Bad THEN Bad ELSE Slice([k \in DOMAIN e |-> AddressParam(e[k])])
           In(e) == IF \E k \in DOMAIN e : AddressInDocument(e[k]) = Bad THEN Bad
                    ELSE Slice([k \in DOMAIN e |-> AddressInDocument(e[k])])
           d == Decoded(v.text, "slice")
<1>1. v.kind \in {"string", "bytes"} => v # Nil
  BY DEF Nil
<1>2. \A e : SliceOf(AddressParam, e) = Of(e)
  BY SMT DEF SliceOf
<1>3. \A e : SliceOf(AddressInDocument, e) = In(e)
  BY SMT DEF SliceOf
<1>4. \A e : Of(e) # Bad => Of(e) = Slice([k \in DOMAIN e |-> AddressParam(e[k])]) /\ \A k \in DOMAIN e : AddressParam(e[k]) # Bad
  OBVIOUS
<1>5. \A e : In(e) # Bad => /\ In(e) = Slice([k \in DOMAIN e |-> AddressInDocument(e[k])])
                            /\ \A k \in DOMAIN e : AddressInDocument(e[k]) # Bad
  OBVIOUS
<1>6. /\ v.kind = "slice" => GivenAs(v, v.e)
      /\ v.kind \in {"string", "bytes"} /\ d.kind = "slice" => GivenAs(v, d.e)
  BY DEF GivenAs
<1> HIDE DEF Of, In, d
<1>7. CASE v.kind \in {"string", "bytes"}
  <2>1. AddressSliceParam(v) = Typed(AddressInDocument, v)
    BY <1>7 DEF AddressSliceParam
  <2>2. Typed(AddressInDocument, v) = IF d.kind = "slice" THEN SliceOf(AddressInDocument, d.e) ELSE d
    BY <1>1, <1>7, SMT DEF Typed, d
  <2>3. AddressSliceParam(v) = IF d.kind = "slice" THEN In(d.e) ELSE d
    BY <1>3, <2>1, <2>2
  <2> QED BY <1>5, <1>6, <1>7, <2>3 DEF d
<1>8. CASE v.kind \notin {"string", "bytes"}
  <2>1. AddressSliceParam(v) = Typed(AddressParam, v)
    BY <1>8 DEF AddressSliceParam
  <2>2. Typed(AddressParam, v) = CASE v = Nil -> Nil
                                   [] v.kind = "slice" -> SliceOf(AddressParam, v.e)
                                   [] OTHER -> Bad
    BY <1>8, SMT DEF Typed
  <2>3. \/ v = Nil /\ AddressSliceParam(v) = Nil
        \/ v.kind = "slice" /\ AddressSliceParam(v) = Of(v.e)
    BY <1>2, <2>1, <2>2
  <2> QED BY <1>4, <1>6, <2>3
<1> QED BY <1>7, <1>8

\* But for elements without a text and slices in objects, as ParametersAreWhole says,
\* every parameter says what its value says, whatever the value is
\* (task_params.go:70-760).
THEOREM ParametersAreAlwaysWhole == TypeSpec => []ParametersAreWhole
<1>1. TypeInv => ParametersAreWhole
  <2> SUFFICES ASSUME TypeInv PROVE ParametersAreWhole
    OBVIOUS
  <2>1. "none" \notin Documented /\ "none" \notin ListTypes
    BY DEF Documented, ListTypes
  <2>2. StringsAndBytesAgree
    BY <2>1, TextsAlike DEF TypeInv, StringsAndBytesAgree
  <2>3. ErrorsEndConversions
    BY ErrorIsBad, ErrorInSliceIsBad DEF TypeInv, ErrorsEndConversions
  <2>4. ValuesKeepTheirMeaning
    <3> SUFFICES ASSUME KeepsMeaning, param # Bad PROVE Meaning(param) = Meaning(value)
      BY DEF ValuesKeepTheirMeaning
    <3>1. type # "none" /\ param = UnmarshalPipelineParam(type, value)
      BY DEF KeepsMeaning, TypeInv
    <3>2. CASE type \in {"StringParam", "DecimalParam"}
      <4>1. param = IF type = "StringParam" THEN StringParam(value) ELSE DecimalParam(value)
        BY <3>1, <3>2 DEF UnmarshalPipelineParam
      <4> QED BY <3>2, <4>1, StringMeaning, DecimalMeaning
    <3>3. CASE type = "URLParam"
      <4>1. param = URLParam(value)
        BY <3>1, <3>3 DEF UnmarshalPipelineParam
      <4> QED BY <4>1 DEF URLParam
    <3>4. CASE type \in {"MapParam", "SliceParam"}
      <4>1. param = IF type = "MapParam" THEN MapParam(value) ELSE SliceParam(value)
        BY <3>1, <3>4 DEF UnmarshalPipelineParam
      <4> QED BY <4>1, MapAndSliceMeaning
    <3>5. CASE type \in {"JSONPathParam", "JSONPathParam with separator"} /\ value.kind = "slice"
      <4>1. value.kind = "slice"
        BY <3>5
      <4>2. \A r : JSONPathParam(r, value) \in {Bad, value}
        <5>1. value # Nil
          BY <4>1 DEF Nil
        <5> QED BY <4>1, <5>1, SMT DEF JSONPathParam
      <4>3. param \in {Bad, value}
        BY <3>1, <3>5, <4>2 DEF UnmarshalPipelineParam
      <4> QED BY <4>3
    <3>6. CASE type = "ObjectParam" /\ ~(value.kind = "object" /\ value.of.kind = "slice")
      <4>1. param = ObjectParam(value)
        BY <3>1, <3>6 DEF UnmarshalPipelineParam
      <4> QED BY <3>6, <4>1, ObjectMeaning
    <3> QED BY <3>2, <3>3, <3>4, <3>5, <3>6 DEF KeepsMeaning
  <2>5. ElementsKeepTheirMeaning
    <3> SUFFICES ASSUME type \in ListTypes, param # Bad
                 PROVE  \/ /\ Meaning(value).kind = "slice"
                           /\ param.kind = "slice" /\ DOMAIN param.e = DOMAIN Meaning(value).e
                           /\ \A k \in DOMAIN Meaning(value).e : ElementOf(param.e[k], Meaning(value).e[k])
                        \/ Meaning(value).kind = "nil" /\ param = Meaning(value)
      BY DEF ElementsKeepTheirMeaning
    <3>1. param = UnmarshalPipelineParam(type, value)
      BY <2>1 DEF TypeInv
    <3> DEFINE IsGivenNil == \/ value = Nil /\ param = Nil
                             \/ value.kind \in {"string", "bytes"} /\ param = Decoded(value.text, "slice") /\ param.kind # "slice"
               IsSliceOf(e) == \E s : param = Slice(s) /\ DOMAIN s = DOMAIN e /\ \A k \in DOMAIN e : ElementOf(s[k], e[k])
    <3>2. IsGivenNil \/ \E e : GivenAs(value, e) /\ IsSliceOf(e)
      <4>1. CASE type = "StringSliceParam"
        <5>1. param = StringSliceParam(value)
          BY <3>1, <4>1 DEF UnmarshalPipelineParam
        <5>2. \A e : \A k \in DOMAIN e : ElementOf(Str(ConvertToString(e[k])), e[k])
          BY <4>1, ElementMeanings, SMT DEF ElementOf
        <5>3. ASSUME NEW e, param = Slice([k \in DOMAIN e |-> Str(ConvertToString(e[k]))]) PROVE IsSliceOf(e)
          BY <5>2, <5>3
        <5> HIDE DEF IsSliceOf
        <5> QED BY <5>1, <5>3, StringSlices
      <4>2. CASE type = "DecimalSliceParam"
        <5>1. param = DecimalSliceParam(value)
          BY <3>1, <4>2 DEF UnmarshalPipelineParam
        <5>2. \A x : DecimalParam(x) # Bad => ElementOf(DecimalParam(x), x)
          BY <4>2, DecimalMeaning, SMT DEF ElementOf
        <5>3. ASSUME NEW e, param = Slice([k \in DOMAIN e |-> DecimalParam(e[k])]), \A k \in DOMAIN e : DecimalParam(e[k]) # Bad
              PROVE  IsSliceOf(e)
          BY <5>2, <5>3
        <5> HIDE DEF IsSliceOf
        <5> QED BY <5>1, <5>3, DecimalSlices
      <4>3. CASE type = "HashSliceParam"
        <5>1. param = HashSliceParam(value)
          BY <3>1, <4>3 DEF UnmarshalPipelineParam
        <5>2. \A x : HashParam(x) # Bad => ElementOf(HashParam(x), x)
          BY <4>3, ElementMeanings, SMT DEF ElementOf
        <5>3. ASSUME NEW e, param = Slice([k \in DOMAIN e |-> HashParam(e[k])]), \A k \in DOMAIN e : HashParam(e[k]) # Bad
              PROVE  IsSliceOf(e)
          BY <5>2, <5>3
        <5> HIDE DEF IsSliceOf
        <5> QED BY <5>1, <5>3, HashSlices
      <4>4. CASE type = "AddressSliceParam"
        <5>1. param = AddressSliceParam(value)
          BY <3>1, <4>4 DEF UnmarshalPipelineParam
        <5>2. \A x : /\ AddressParam(x) # Bad => ElementOf(AddressParam(x), x)
                     /\ AddressInDocument(x) # Bad => ElementOf(AddressInDocument(x), x)
          BY <4>4, ElementMeanings, SMT DEF ElementOf
        <5>3. ASSUME NEW e, param = Slice([k \in DOMAIN e |-> AddressParam(e[k])]), \A k \in DOMAIN e : AddressParam(e[k]) # Bad
              PROVE  IsSliceOf(e)
          BY <5>2, <5>3
        <5>4. ASSUME NEW e, param = Slice([k \in DOMAIN e |-> AddressInDocument(e[k])]),
                     \A k \in DOMAIN e : AddressInDocument(e[k]) # Bad
              PROVE  IsSliceOf(e)
          BY <5>2, <5>4
        <5> HIDE DEF IsSliceOf
        <5> QED BY <5>1, <5>3, <5>4, AddressSlices
      <4> QED BY <4>1, <4>2, <4>3, <4>4 DEF ListTypes
    <3>3. CASE IsGivenNil
      BY <3>3, GivenNil
    <3>4. ASSUME NEW e, GivenAs(value, e), IsSliceOf(e)
          PROVE  /\ Meaning(value).kind = "slice"
                 /\ param.kind = "slice" /\ DOMAIN param.e = DOMAIN Meaning(value).e
                 /\ \A k \in DOMAIN Meaning(value).e : ElementOf(param.e[k], Meaning(value).e[k])
      <4>1. PICK s : param = Slice(s) /\ DOMAIN s = DOMAIN e /\ \A k \in DOMAIN e : ElementOf(s[k], e[k])
        BY <3>4
      <4>2. param.kind = "slice" /\ param.e = s
        BY <4>1 DEF Slice
      <4>3. Meaning(value).kind = "slice" /\ e = Meaning(value).e
        BY <3>4, GivenSlice
      <4> QED BY <4>1, <4>2, <4>3
    <3> QED BY <3>2, <3>3, <3>4
  <2> QED BY <2>2, <2>3, <2>4, <2>5 DEF ParametersAreWhole
<1> QED BY <1>1, TypeInvHolds, PTL

-----------------------------------------------------------------------------
(* Tasks: their errors, their results and their exchanges.                  *)

\* The least of a set of numbers is the one chosen.
LEMMA LeastChosen ==
  ASSUME NEW S \in SUBSET Int, NEW m \in S, \A j \in S : m <= j
  PROVE  (CHOOSE k \in S : \A j \in S : k <= j) = m
<1> DEFINE c == CHOOSE k \in S : \A j \in S : k <= j
<1>1. c \in S /\ \A j \in S : c <= j
  OBVIOUS
<1> HIDE DEF c
<1>2. c = m
  BY <1>1
<1> QED BY <1>2 DEF c

\* The first getter that does not find the parameter empty decides.
LEMMA OneDecides ==
  ASSUME NEW a
  PROVE  Deciding(<<a>>) = IF a.got = "empty" THEN Fails ELSE a
<1> DEFINE found == {k \in DOMAIN <<a>> : <<a>>[k].got # "empty"}
<1>1. DOMAIN <<a>> = {1} /\ <<a>>[1] = a
  OBVIOUS
<1>2. CASE a.got = "empty"
  <2>1. found = {}
    BY <1>1, <1>2
  <2> QED BY <1>2, <2>1 DEF Deciding
<1>3. CASE a.got # "empty"
  <2>1. found = {1}
    BY <1>1, <1>3
  <2>2. (CHOOSE k \in found : \A j \in found : k <= j) = 1
    BY <2>1
  <2> QED BY <1>1, <1>3, <2>1, <2>2 DEF Deciding
<1> QED BY <1>2, <1>3

LEMMA TwoDecide ==
  ASSUME NEW a, NEW b
  PROVE  Deciding(<<a, b>>) = IF a.got # "empty" THEN a ELSE IF b.got = "empty" THEN Fails ELSE b
<1> DEFINE gs == <<a, b>>
           found == {k \in DOMAIN gs : gs[k].got # "empty"}
<1>1. DOMAIN gs = {1, 2} /\ gs[1] = a /\ gs[2] = b
  OBVIOUS
<1>2. Deciding(gs) = IF found = {} THEN Fails ELSE gs[CHOOSE k \in found : \A j \in found : k <= j]
  BY DEF Deciding
<1>3. found \subseteq {1, 2} /\ (1 \in found <=> a.got # "empty") /\ (2 \in found <=> b.got # "empty")
  BY <1>1
<1> HIDE DEF gs, found
<1>4. CASE 1 \in found
  <2>1. (CHOOSE k \in found : \A j \in found : k <= j) = 1
    BY <1>3, <1>4, LeastChosen
  <2> QED BY <1>1, <1>2, <1>3, <1>4, <2>1 DEF gs
<1>5. CASE 1 \notin found /\ 2 \in found
  <2>1. (CHOOSE k \in found : \A j \in found : k <= j) = 2
    BY <1>3, <1>5, LeastChosen
  <2> QED BY <1>1, <1>2, <1>3, <1>5, <2>1 DEF gs
<1>6. CASE found = {}
  BY <1>2, <1>3, <1>6 DEF gs
<1> QED BY <1>3, <1>4, <1>5, <1>6

LEMMA ThreeDecide ==
  ASSUME NEW a, NEW b, NEW c
  PROVE  Deciding(<<a, b, c>>) =
           IF a.got # "empty" THEN a ELSE IF b.got # "empty" THEN b ELSE IF c.got = "empty" THEN Fails ELSE c
<1> DEFINE gs == <<a, b, c>>
           found == {k \in DOMAIN gs : gs[k].got # "empty"}
<1>1. DOMAIN gs = {1, 2, 3} /\ gs[1] = a /\ gs[2] = b /\ gs[3] = c
  OBVIOUS
<1>2. Deciding(gs) = IF found = {} THEN Fails ELSE gs[CHOOSE k \in found : \A j \in found : k <= j]
  BY DEF Deciding
<1>3. /\ found \subseteq {1, 2, 3} /\ (1 \in found <=> a.got # "empty") /\ (2 \in found <=> b.got # "empty")
      /\ (3 \in found <=> c.got # "empty")
  BY <1>1
<1> HIDE DEF gs, found
<1>4. CASE 1 \in found
  <2>1. (CHOOSE k \in found : \A j \in found : k <= j) = 1
    BY <1>3, <1>4, LeastChosen
  <2> QED BY <1>1, <1>2, <1>3, <1>4, <2>1 DEF gs
<1>5. CASE 1 \notin found /\ 2 \in found
  <2>1. (CHOOSE k \in found : \A j \in found : k <= j) = 2
    BY <1>3, <1>5, LeastChosen
  <2> QED BY <1>1, <1>2, <1>3, <1>5, <2>1 DEF gs
<1>6. CASE 1 \notin found /\ 2 \notin found /\ 3 \in found
  <2>1. (CHOOSE k \in found : \A j \in found : k <= j) = 3
    BY <1>3, <1>6, LeastChosen
  <2> QED BY <1>1, <1>2, <1>3, <1>6, <2>1 DEF gs
<1>7. CASE found = {}
  BY <1>2, <1>3, <1>7 DEF gs
<1> QED BY <1>3, <1>4, <1>5, <1>6, <1>7

\* What the getters find.
LEMMA GettersFind ==
  ASSUME NEW t, NEW vars, NEW inputs
  PROVE  /\ Empty.got = "empty" /\ Fails.got = "error" /\ \A v : Found(v).got = "value" /\ Found(v).v = v
         /\ VarExpr(t, vars) = IF t.form # "expr" THEN Empty
                               ELSE IF Get(vars, t.path) \in {Missing, Error} THEN Fails
                               ELSE Found(Get(vars, t.path))
         /\ NonemptyString(t) = IF t.form = "blank" THEN Empty ELSE Found(Str(t))
         /\ Input(inputs, 1) = IF 1 \notin DOMAIN inputs \/ inputs[1] = Error THEN Fails ELSE Found(inputs[1])
         /\ Inputs(inputs) = Found(Slice(inputs))
<1>1. Empty.got = "empty" /\ Fails.got = "error" /\ \A v : Found(v).got = "value" /\ Found(v).v = v
  BY DEF Empty, Fails, Found
<1>2. VarExpr(t, vars) = IF t.form # "expr" THEN Empty
                         ELSE IF Get(vars, t.path) \in {Missing, Error} THEN Fails
                         ELSE Found(Get(vars, t.path))
  BY DEF VarExpr
<1> QED BY <1>1, <1>2 DEF NonemptyString, Input, Inputs

\* The kinds of the values that stand for no value.
LEMMA KindsDiffer ==
  /\ Nil.kind = "nil" /\ Error.kind = "error" /\ Bad.kind = "bad" /\ Missing.kind = "missing"
  /\ NotRun.kind = "none" /\ Panic.kind = "panic" /\ None.kind = "none"
BY DEF Nil, Error, Bad, Missing, NotRun, Panic, None

\* A document with an expression that is not found is not found.
LEMMA DocumentsChecked ==
  ASSUME NEW t, NEW vars, NEW allowErrors, t.form = "json", t.doc.kind \in {"map", "slice"},
         NEW k \in DOMAIN Parts(t.doc), Parts(t.doc)[k].kind = "expr",
         NEW v, v = Get(vars, Parts(t.doc)[k].path), v = Missing \/ (v = Error /\ ~allowErrors)
  PROVE  JSONWithVarExprs(t, vars, allowErrors) = Fails
<1>1. Interpolated(Parts(t.doc)[k].path, vars, allowErrors) = Missing
  BY DEF Interpolated
<1>2. MapGoValue(t.doc, vars, allowErrors) = Missing
  BY <1>1 DEF MapGoValue
<1>3. (CASE t.form = "expr" -> IF Interpolated(t.path, vars, allowErrors) = Missing THEN Missing
                                        ELSE Placeholder(t.path)
                  [] t.form = "json" -> MapGoValue(t.doc, vars, allowErrors)
                  [] OTHER -> Scalar(t)) = Missing
  BY <1>2, SMT
<1> QED BY <1>3 DEF JSONWithVarExprs

\* What JSONWithVarExprs finds, by the form of the text.
LEMMA JSONFinds ==
  ASSUME NEW t, NEW vars, NEW allowErrors
  PROVE  /\ t.form = "blank" => JSONWithVarExprs(t, vars, allowErrors) = Empty
         /\ t.form = "expr" => JSONWithVarExprs(t, vars, allowErrors) =
              IF Interpolated(t.path, vars, allowErrors) = Missing THEN Fails ELSE Found(Placeholder(t.path))
         /\ t.form = "json" => JSONWithVarExprs(t, vars, allowErrors) =
              IF MapGoValue(t.doc, vars, allowErrors) = Missing THEN Fails
              ELSE Found(MapGoValue(t.doc, vars, allowErrors))
         /\ t.form \notin {"blank", "expr", "json"} => JSONWithVarExprs(t, vars, allowErrors) =
              IF Scalar(t) = Missing THEN Fails ELSE Found(Scalar(t))
<1>1. Placeholder(t.path) # Missing
  BY DEF Placeholder, Map, Missing
<1>2. CASE t.form = "blank"
  BY <1>2, SMT DEF JSONWithVarExprs
<1>3. CASE t.form = "expr"
  BY <1>1, <1>3, SMT DEF JSONWithVarExprs
<1>4. CASE t.form = "json"
  BY <1>4, SMT DEF JSONWithVarExprs
<1>5. CASE t.form \notin {"blank", "expr", "json"}
  BY <1>5, SMT DEF JSONWithVarExprs
<1> QED BY <1>2, <1>3, <1>4, <1>5

\* The parameter of a text that may be an expression or a document.
LEMMA MapGettersFind ==
  ASSUME NEW t, NEW vars, NEW allowErrors, NEW c,
         NEW d, d \in {Deciding(<<VarExpr(t, vars), JSONWithVarExprs(t, vars, allowErrors), c>>),
                       Deciding(<<VarExpr(t, vars), JSONWithVarExprs(t, vars, allowErrors)>>)},
         d.got # "error"
  PROVE  /\ t.form = "expr" => d = Found(Get(vars, t.path)) /\ Get(vars, t.path) \notin {Missing, Error}
         /\ t.form = "json" =>
              d = Found(MapGoValue(t.doc, vars, allowErrors)) /\ MapGoValue(t.doc, vars, allowErrors) # Missing
         /\ t.form = "blank" => d = c
         /\ t.form \notin {"blank", "expr", "json"} => d = Found(Scalar(t)) /\ Scalar(t) # Missing
<1> DEFINE j == JSONWithVarExprs(t, vars, allowErrors)
           x == VarExpr(t, vars)
<1>1. Deciding(<<x, j, c>>) = IF x.got # "empty" THEN x ELSE IF j.got # "empty" THEN j ELSE IF c.got = "empty" THEN Fails ELSE c
  BY ThreeDecide
<1>2. Deciding(<<x, j>>) = IF x.got # "empty" THEN x ELSE IF j.got = "empty" THEN Fails ELSE j
  BY TwoDecide
<1>3. /\ x = IF t.form # "expr" THEN Empty ELSE IF Get(vars, t.path) \in {Missing, Error} THEN Fails
             ELSE Found(Get(vars, t.path))
      /\ Empty.got = "empty" /\ Fails.got = "error" /\ \A v : Found(v).got = "value"
  BY GettersFind
<1>4. /\ t.form = "blank" => j = Empty
      /\ t.form = "json" => j = IF MapGoValue(t.doc, vars, allowErrors) = Missing THEN Fails
                                ELSE Found(MapGoValue(t.doc, vars, allowErrors))
      /\ t.form \notin {"blank", "expr", "json"} => j = IF Scalar(t) = Missing THEN Fails ELSE Found(Scalar(t))
  BY JSONFinds
<1>5. d \in {Deciding(<<x, j, c>>), Deciding(<<x, j>>)}
  OBVIOUS
<1> HIDE DEF x, j
<1> QED BY <1>1, <1>2, <1>3, <1>4, <1>5

-----------------------------------------------------------------------------
(* Tasks use what was found only *)

\* The variables a text names were found, and those of its document if it has one.
Checked(t, vars) == t.form = "expr" => Get(vars, t.path) \notin {Missing, Error}
DocChecked(t, vars, allowErrors) ==
  t.form = "json" /\ t.doc.kind \in {"map", "slice"} =>
    \A k \in DOMAIN Parts(t.doc) : Parts(t.doc)[k].kind = "expr" =>
      LET v == Get(vars, Parts(t.doc)[k].path) IN v # Missing /\ (v = Error => allowErrors)

\* Where the getters that read variables decide, those they read were there.
LEMMA VarsChecked ==
  ASSUME NEW t, NEW vars, NEW b, NEW c
  PROVE  /\ Deciding(<<VarExpr(t, vars)>>).got # "error" => Checked(t, vars)
         /\ Deciding(<<VarExpr(t, vars), b>>).got # "error" => Checked(t, vars)
         /\ Deciding(<<VarExpr(t, vars), b, c>>).got # "error" => Checked(t, vars)
BY GettersFind, OneDecides, TwoDecide, ThreeDecide DEF Checked

LEMMA DocsChecked ==
  ASSUME NEW t, NEW vars, NEW c, NEW allowErrors
  PROVE  /\ Deciding(<<VarExpr(t, vars), JSONWithVarExprs(t, vars, allowErrors)>>).got # "error" =>
              Checked(t, vars) /\ DocChecked(t, vars, allowErrors)
         /\ Deciding(<<VarExpr(t, vars), JSONWithVarExprs(t, vars, allowErrors), c>>).got # "error" =>
              Checked(t, vars) /\ DocChecked(t, vars, allowErrors)
         /\ Deciding(<<JSONWithVarExprs(t, vars, NoErrors), c>>).got # "error" =>
              Checked(t, vars) /\ DocChecked(t, vars, NoErrors)
<1>1. ASSUME NEW allow, ~DocChecked(t, vars, allow)
      PROVE  VarExpr(t, vars) = Empty /\ JSONWithVarExprs(t, vars, allow).got = "error"
  <2>1. t.form = "json" /\ JSONWithVarExprs(t, vars, allow) = Fails
    BY <1>1, DocumentsChecked DEF DocChecked
  <2> QED BY <2>1, GettersFind
<1>2. ASSUME ~Checked(t, vars) PROVE JSONWithVarExprs(t, vars, NoErrors).got = "error"
  <2>1. t.form = "expr" /\ Interpolated(t.path, vars, NoErrors) = Missing
    BY <1>2 DEF Checked, Interpolated, NoErrors
  <2> QED BY <2>1, JSONFinds, GettersFind
<1>3. Deciding(<<VarExpr(t, vars), JSONWithVarExprs(t, vars, allowErrors)>>).got # "error" =>
        Checked(t, vars) /\ DocChecked(t, vars, allowErrors)
  <2>1. Deciding(<<VarExpr(t, vars), JSONWithVarExprs(t, vars, allowErrors)>>).got # "error" => Checked(t, vars)
    BY VarsChecked
  <2>2. ~DocChecked(t, vars, allowErrors) =>
          Deciding(<<VarExpr(t, vars), JSONWithVarExprs(t, vars, allowErrors)>>).got = "error"
    BY <1>1, TwoDecide, GettersFind
  <2> QED BY <2>1, <2>2
<1>4. Deciding(<<VarExpr(t, vars), JSONWithVarExprs(t, vars, allowErrors), c>>).got # "error" =>
        Checked(t, vars) /\ DocChecked(t, vars, allowErrors)
  <2>1. Deciding(<<VarExpr(t, vars), JSONWithVarExprs(t, vars, allowErrors), c>>).got # "error" => Checked(t, vars)
    BY VarsChecked
  <2>2. ~DocChecked(t, vars, allowErrors) =>
          Deciding(<<VarExpr(t, vars), JSONWithVarExprs(t, vars, allowErrors), c>>).got = "error"
    BY <1>1, ThreeDecide, GettersFind
  <2> QED BY <2>1, <2>2
<1>5. Deciding(<<JSONWithVarExprs(t, vars, NoErrors), c>>).got # "error" => Checked(t, vars) /\ DocChecked(t, vars, NoErrors)
  <2>1. ~DocChecked(t, vars, NoErrors) => JSONWithVarExprs(t, vars, NoErrors).got = "error"
    BY <1>1
  <2> QED BY <1>2, <2>1, TwoDecide, GettersFind
<1> QED BY <1>3, <1>4, <1>5

\* A task that does not fail has found its inputs and variables whole, and does not
\* panic: Sum, which is the one to tolerate errors among its values.
LEMMA SumUses ==
  ASSUME NEW task, NEW inputs, NEW vars, RunSum(task, inputs, vars) # Error
  PROVE  /\ Checked(task.values, vars) /\ DocChecked(task.values, vars, AllowErrors)
         /\ task.allowedFaults.form \in {"blank", "number"}
         /\ RunSum(task, inputs, vars) # Panic
<1> DEFINE gs == <<VarExpr(task.values, vars), JSONWithVarExprs(task.values, vars, AllowErrors), Inputs(inputs)>>
           all == ResolveParam(SliceParam, gs)
           allowed == AllowedFaults(task.allowedFaults)
<1>1. Resolved(<<allowed, all>>) /\ RunSum(task, inputs, vars).kind = "sum"
  BY DEF RunSum
<1>2. allowed # Bad /\ all # Bad
  BY <1>1 DEF Resolved
<1>3. Deciding(gs).got # "error"
  BY <1>2 DEF ResolveParam
<1>4. Checked(task.values, vars) /\ DocChecked(task.values, vars, AllowErrors)
  BY <1>3, DocsChecked
<1>5. task.allowedFaults.form \in {"blank", "number"}
  <2>1. CASE task.allowedFaults.form \notin {"blank", "number"}
    <3>1. allowed = Bad
      BY <2>1, SMT DEF AllowedFaults
    <3> QED BY <1>2, <3>1
  <2> QED BY <2>1
<1> QED BY <1>1, <1>4, <1>5, KindsDiffer

\* The operands of Multiply and LessThan are no documents.
LEMMA OperandsUse ==
  ASSUME NEW left, NEW right, NEW inputs, NEW vars, Resolved(Operands(left, right, inputs, vars))
  PROVE  Checked(left, vars) /\ Checked(right, vars) /\ left.form # "json" /\ right.form # "json"
<1> DEFINE gs == <<VarExpr(left, vars), NonemptyString(left), Input(inputs, 1)>>
           hs == <<VarExpr(right, vars), NonemptyString(right)>>
<1>1. ResolveParam(DecimalParam, gs) # Bad /\ ResolveParam(DecimalParam, hs) # Bad
  BY DEF Resolved, Operands
<1>2. Deciding(gs).got # "error" /\ Deciding(hs).got # "error"
  BY <1>1 DEF ResolveParam
<1>3. ASSUME NEW t, NEW c, NEW d, t.form = "json",
             d = Deciding(<<VarExpr(t, vars), NonemptyString(t), c>>) \/ d = Deciding(<<VarExpr(t, vars), NonemptyString(t)>>)
      PROVE  DecimalParam(d.v) = Bad
  <2>1. VarExpr(t, vars) = Empty /\ NonemptyString(t) = Found(Str(t)) /\ Found(Str(t)).got # "empty" /\ Empty.got = "empty"
    BY <1>3, GettersFind
  <2>2. d = Found(Str(t))
    BY <1>3, <2>1, TwoDecide, ThreeDecide
  <2>3. d.v = Str(t) /\ d.v.kind = "string" /\ d.v.text = t
    BY <2>2 DEF Found, Str
  <2> QED BY <1>3, <2>3, SMT DEF DecimalParam, Numbers
<1>4. ASSUME left.form = "json" PROVE FALSE
  <2>1. DecimalParam(Deciding(gs).v) = Bad
    BY <1>3, <1>4
  <2> QED BY <1>1, <1>2, <2>1 DEF ResolveParam
<1>5. ASSUME right.form = "json" PROVE FALSE
  <2>1. DecimalParam(Deciding(hs).v) = Bad
    BY <1>3, <1>5
  <2> QED BY <1>1, <1>2, <2>1 DEF ResolveParam
<1> QED BY <1>2, <1>4, <1>5, VarsChecked

\* The same of Multiply, LessThan, Length, Conditional and Memo.
LEMMA MultiplyUses ==
  ASSUME NEW task, NEW inputs, NEW vars, RunMultiply(task, inputs, vars) # Error
  PROVE  /\ CheckInputs(inputs) /\ Checked(task.input, vars) /\ Checked(task.times, vars)
         /\ RunMultiply(task, inputs, vars) # Panic
<1> DEFINE ab == Operands(task.input, task.times, inputs, vars)
<1>1. CheckInputs(inputs) /\ Resolved(ab) /\ ~Overflows(ab[1], ab[2]) /\ RunMultiply(task, inputs, vars) = Mul(ab[1], ab[2])
  BY DEF RunMultiply
<1>2. Mul(ab[1], ab[2]).kind = "decimal"
  BY <1>1 DEF Mul, Overflows, Num
<1> QED BY <1>1, <1>2, OperandsUse, KindsDiffer

LEMMA LessThanUses ==
  ASSUME NEW task, NEW inputs, NEW vars, RunLessThan(task, inputs, vars) # Error
  PROVE  /\ CheckInputs(inputs) /\ Checked(task.left, vars) /\ Checked(task.right, vars)
         /\ task.left.form # "json" /\ task.right.form # "json"
         /\ RunLessThan(task, inputs, vars) # Panic
<1> DEFINE ab == Operands(task.left, task.right, inputs, vars)
<1>1. CheckInputs(inputs) /\ Resolved(ab) /\ RunLessThan(task, inputs, vars).kind = "bool"
  BY DEF RunLessThan, Bool
<1> QED BY <1>1, OperandsUse, KindsDiffer

LEMMA LengthUses ==
  ASSUME NEW task, NEW inputs, NEW vars, RunLength(task, inputs, vars) # Error
  PROVE  /\ CheckInputs(inputs) /\ Checked(task.input, vars) /\ RunLength(task, inputs, vars) # Panic
<1> DEFINE gs == <<VarExpr(task.input, vars), NonemptyString(task.input), Input(inputs, 1)>>
<1>1. CheckInputs(inputs) /\ ResolveParam(BytesParam, gs) # Bad /\ RunLength(task, inputs, vars).kind = "decimal"
  BY DEF RunLength, Num
<1>2. Deciding(gs).got # "error"
  BY <1>1 DEF ResolveParam
<1>3. Checked(task.input, vars)
  BY <1>2, VarsChecked
<1> QED BY <1>1, <1>3, KindsDiffer

LEMMA ConditionalUses ==
  ASSUME NEW task, NEW inputs, NEW vars, RunConditional(task, inputs, vars) # Error
  PROVE  /\ CheckInputs(inputs) /\ Checked(task.data, vars) /\ RunConditional(task, inputs, vars) # Panic
<1> DEFINE gs == <<VarExpr(task.data, vars), Input(inputs, 1), Found(Nil)>>
<1>1. CheckInputs(inputs) /\ ResolveParam(BoolParam, gs) # Bad /\ RunConditional(task, inputs, vars).kind = "bool"
  BY DEF RunConditional, Bool
<1>2. Deciding(gs).got # "error"
  BY <1>1 DEF ResolveParam
<1>3. Checked(task.data, vars)
  BY <1>2, VarsChecked
<1> QED BY <1>1, <1>3, KindsDiffer

\* An object is one of its own kind, or nothing.
LEMMA ObjectsHaveKinds ==
  ASSUME NEW v
  PROVE  ObjectParam(v) = Bad \/ ObjectParam(v).kind = "object"
<1>1. CASE v.kind \in {"nil", "bool", "string", "map", "slice"}
  BY <1>1, SMT DEF ObjectParam, Object, Numbers
<1>2. CASE v.kind \in Numbers
  BY <1>2, SMT DEF ObjectParam, Object, Numbers
<1>3. CASE v.kind = "object"
  BY <1>3, SMT DEF ObjectParam, Object, Numbers
<1>4. CASE v.kind \notin {"nil", "bool", "string", "map", "slice", "object"} \cup Numbers
  BY <1>4, SMT DEF ObjectParam, Numbers
<1> QED BY <1>1, <1>2, <1>3, <1>4

LEMMA MemoUses ==
  ASSUME NEW task, NEW inputs, NEW vars, RunMemo(task, inputs, vars) # Error
  PROVE  /\ CheckInputs(inputs) /\ Checked(task.value, vars) /\ DocChecked(task.value, vars, NoErrors)
         /\ RunMemo(task, inputs, vars) # Panic
<1> DEFINE gs == <<JSONWithVarExprs(task.value, vars, NoErrors), Input(inputs, 1)>>
<1>1. CheckInputs(inputs) /\ ResolveParam(ObjectParam, gs) # Bad /\ RunMemo(task, inputs, vars) = ResolveParam(ObjectParam, gs)
  BY DEF RunMemo
<1>2. Deciding(gs).got # "error" /\ RunMemo(task, inputs, vars) = ObjectParam(Deciding(gs).v)
  BY <1>1 DEF ResolveParam
<1>3. Checked(task.value, vars) /\ DocChecked(task.value, vars, NoErrors)
  BY <1>2, DocsChecked
<1>4. RunMemo(task, inputs, vars).kind = "object"
  BY <1>1, <1>2, ObjectsHaveKinds
<1> QED BY <1>1, <1>3, <1>4, KindsDiffer

\* Only null is unmarshalled to the map that is not there.
LEMMA NullMaps ==
  ASSUME NEW v, MapParam(v) = Nil
  PROVE  IsNull(v)
<1>1. CASE v.kind \in {"nil", "map"}
  <2>1. MapParam(v) = v
    BY <1>1, SMT DEF MapParam
  <2> QED BY <2>1 DEF IsNull
<1>2. CASE v.kind \in {"string", "bytes"}
  <2>1. MapParam(v) = Decoded(v.text, "map")
    BY <1>2, SMT DEF MapParam
  <2> QED BY <1>2, <2>1, KindsDiffer DEF Decoded, IsNull
<1>3. CASE v.kind = "object" /\ v.of.kind = "map"
  <2>1. MapParam(v) = v.of
    BY <1>3, SMT DEF MapParam
  <2> QED BY <1>3, <2>1, KindsDiffer
<1>4. CASE v.kind \notin {"nil", "map", "string", "bytes"} /\ ~(v.kind = "object" /\ v.of.kind = "map")
  <2>1. MapParam(v) = Bad
    BY <1>4, SMT DEF MapParam
  <2> QED BY <2>1, KindsDiffer
<1> QED BY <1>1, <1>2, <1>3, <1>4

\* The parameters of Merge.
Left(task, inputs, vars) ==
  <<VarExpr(task.left, vars), JSONWithVarExprs(task.left, vars, NoErrors), Input(inputs, 1)>>
Right(task, vars) == <<VarExpr(task.right, vars), JSONWithVarExprs(task.right, vars, NoErrors)>>

\* Merge has found everything it names, and panics for one reason only.
LEMMA MergeUses ==
  ASSUME NEW task, NEW inputs, NEW vars, RunMerge(task, inputs, vars) # Error,
         NEW l, l = MapParam(Deciding(Left(task, inputs, vars)).v), NEW r, r = MapParam(Deciding(Right(task, vars)).v)
  PROVE  /\ CheckInputs(inputs) /\ Checked(task.left, vars) /\ DocChecked(task.left, vars, NoErrors)
         /\ Checked(task.right, vars) /\ DocChecked(task.right, vars, NoErrors)
         /\ Deciding(Left(task, inputs, vars)).got # "error" /\ Deciding(Right(task, vars)).got # "error"
         /\ l # Bad /\ r # Bad
         /\ RunMerge(task, inputs, vars) = IF l = Nil /\ DOMAIN MapOf(r) # {} THEN Panic
                                           ELSE Map(Clobber(MapOf(l), MapOf(r)))
<1> DEFINE lp == ResolveParam(MapParam, Left(task, inputs, vars))
           rp == ResolveParam(MapParam, Right(task, vars))
<1>1. /\ RunMerge(task, inputs, vars) =
           IF ~CheckInputs(inputs) \/ ~Resolved(<<lp, rp>>) THEN Error
           ELSE IF lp = Nil /\ DOMAIN MapOf(rp) # {} THEN Panic
           ELSE Map(Clobber(MapOf(lp), MapOf(rp)))
  BY DEF RunMerge, Left, Right
<1> HIDE DEF lp, rp
<1>2. CheckInputs(inputs) /\ lp # Bad /\ rp # Bad
  BY <1>1 DEF Resolved
<1>3. /\ Deciding(Left(task, inputs, vars)).got # "error" /\ Deciding(Right(task, vars)).got # "error"
      /\ lp = l /\ rp = r
  BY <1>2 DEF ResolveParam, lp, rp
<1>4. Checked(task.left, vars) /\ DocChecked(task.left, vars, NoErrors)
  BY <1>3, DocsChecked DEF Left
<1>5. Checked(task.right, vars) /\ DocChecked(task.right, vars, NoErrors)
  BY <1>3, DocsChecked DEF Right
<1>6. RunMerge(task, inputs, vars) = IF l = Nil /\ DOMAIN MapOf(r) # {} THEN Panic
                                     ELSE Map(Clobber(MapOf(l), MapOf(r)))
  BY <1>1, <1>2, <1>3
<1> QED BY <1>2, <1>3, <1>4, <1>5, <1>6

\* Merge panics only if what it merges into is null.
LEMMA MergePanics ==
  ASSUME NEW task, NEW inputs, NEW vars, RunMerge(task, inputs, vars) = Panic
  PROVE  \/ task.left.form = "expr" /\ IsNull(Get(vars, task.left.path))
         \/ task.left.form = "json" /\ IsNull(task.left.doc)
         \/ task.left.form = "blank" /\ IsNull(inputs[1])
<1>1. PICK t : t = task.left
  OBVIOUS
<1>2. PICK d : d = Deciding(Left(task, inputs, vars))
  OBVIOUS
<1>3. MapParam(d.v) = Nil /\ d.got # "error"
  <2>1. RunMerge(task, inputs, vars) # Error
    BY KindsDiffer
  <2>2. \A m : Map(m) # Panic
    BY DEF Map, Panic
  <2>3. PICK l, r : l = MapParam(d.v) /\ r = MapParam(Deciding(Right(task, vars)).v)
    OBVIOUS
  <2>4. /\ d.got # "error"
        /\ RunMerge(task, inputs, vars) = IF l = Nil /\ DOMAIN MapOf(r) # {} THEN Panic
                                          ELSE Map(Clobber(MapOf(l), MapOf(r)))
    <3>1. l = MapParam(Deciding(Left(task, inputs, vars)).v)
      BY <1>2, <2>3
    <3> QED BY <1>2, <2>1, <2>3, <3>1, MergeUses
  <2> QED BY <2>2, <2>3, <2>4
<1>4. IsNull(d.v)
  BY <1>3, NullMaps
<1>5. d = Deciding(<<VarExpr(t, vars), JSONWithVarExprs(t, vars, NoErrors), Input(inputs, 1)>>)
  BY <1>1, <1>2 DEF Left
<1>6. /\ t.form = "expr" => d = Found(Get(vars, t.path))
      /\ t.form = "json" => d = Found(MapGoValue(t.doc, vars, NoErrors)) /\ MapGoValue(t.doc, vars, NoErrors) # Missing
      /\ t.form = "blank" => d = Input(inputs, 1)
      /\ t.form \notin {"blank", "expr", "json"} => d = Found(Scalar(t))
  <2>1. d \in {Deciding(<<VarExpr(t, vars), JSONWithVarExprs(t, vars, NoErrors), Input(inputs, 1)>>),
               Deciding(<<VarExpr(t, vars), JSONWithVarExprs(t, vars, NoErrors)>>)}
    BY <1>5
  <2> QED BY <1>3, <2>1, MapGettersFind
<1>7. CASE t.form = "expr"
  BY <1>1, <1>4, <1>6, <1>7, GettersFind
<1>8. CASE t.form = "json"
  <2>1. IsNull(MapGoValue(t.doc, vars, NoErrors))
    BY <1>4, <1>6, <1>8, GettersFind
  <2>2. CASE t.doc.kind \in {"map", "slice"}
    <3>1. MapGoValue(t.doc, vars, NoErrors).kind \in {"map", "slice", "missing"}
      BY <2>2, SMT DEF MapGoValue, Map, Slice, Missing
    <3> QED BY <2>1, <3>1, KindsDiffer DEF IsNull
  <2>3. CASE t.doc.kind \notin {"map", "slice"}
    <3>1. MapGoValue(t.doc, vars, NoErrors) = t.doc
      BY <2>3, SMT DEF MapGoValue
    <3> QED BY <1>1, <1>8, <2>1, <3>1
  <2> QED BY <2>2, <2>3
<1>9. CASE t.form = "blank"
  <2>1. d = Found(inputs[1])
    BY <1>3, <1>6, <1>9, GettersFind
  <2> QED BY <1>1, <1>4, <1>9, <2>1, GettersFind
<1>10. CASE t.form \notin {"blank", "expr", "json"}
  <2>1. Scalar(t).kind \in {"int64", "float64", "bool", "missing"}
    BY SMT DEF Scalar, Num, Bool, Missing
  <2>2. IsNull(Scalar(t))
    BY <1>4, <1>6, <1>10, GettersFind
  <2> QED BY <2>1, <2>2, KindsDiffer DEF IsNull
<1> QED BY <1>7, <1>8, <1>9, <1>10

\* What stands in a document after its variables were found.
LEMMA DocumentsFind ==
  ASSUME NEW doc, doc.kind \in {"map", "slice"}, NEW vars, NEW allowErrors,
         NEW v, v = MapGoValue(doc, vars, allowErrors), v # Missing
  PROVE  /\ v.kind = doc.kind /\ DOMAIN Parts(v) = DOMAIN Parts(doc)
         /\ Parts(v) = [k \in DOMAIN Parts(doc) |-> Parts(v)[k]]
         /\ \A k \in DOMAIN Parts(doc) :
              Parts(v)[k] = IF Parts(doc)[k].kind = "expr" THEN Get(vars, Parts(doc)[k].path) ELSE Parts(doc)[k]
<1> DEFINE Of(x) == IF x.kind = "expr" THEN Interpolated(x.path, vars, allowErrors) ELSE x
           new == [k \in DOMAIN Parts(doc) |-> Of(Parts(doc)[k])]
<1>1. /\ \A k \in DOMAIN new : new[k] # Missing
      /\ v = IF doc.kind = "map" THEN Map(new) ELSE Slice(new)
  BY DEF MapGoValue
<1>2. v.kind = doc.kind /\ Parts(v) = new
  BY <1>1, SMT DEF Parts, Map, Slice
<1>3. ASSUME NEW k \in DOMAIN Parts(doc)
      PROVE  new[k] = IF Parts(doc)[k].kind = "expr" THEN Get(vars, Parts(doc)[k].path) ELSE Parts(doc)[k]
  BY <1>1 DEF Interpolated
<1> QED BY <1>2, <1>3

\* Of two documents Merge keeps both sides.
LEMMA MergeKeeps ==
  ASSUME NEW task, NEW inputs, NEW vars, IsMap(task.left), IsMap(task.right),
         NEW m, m = RunMerge(task, inputs, vars), m # Error, m # Panic,
         NEW l, l = task.left.doc.m, NEW r, r = task.right.doc.m
  PROVE  /\ DOMAIN m.m = DOMAIN l \cup DOMAIN r
         /\ \A k \in DOMAIN r : m.m[k] = IF r[k].kind = "expr" THEN Get(vars, r[k].path) ELSE r[k]
         /\ \A k \in DOMAIN l \ DOMAIN r : m.m[k] = IF l[k].kind = "expr" THEN Get(vars, l[k].path) ELSE l[k]
<1>1. PICK p, q : p = MapParam(Deciding(Left(task, inputs, vars)).v) /\ q = MapParam(Deciding(Right(task, vars)).v)
  OBVIOUS
<1>2. PICK L, R : L = MapGoValue(task.left.doc, vars, NoErrors) /\ R = MapGoValue(task.right.doc, vars, NoErrors)
  OBVIOUS
<1>3. task.left.form = "json" /\ task.right.form = "json" /\ task.left.doc.kind = "map" /\ task.right.doc.kind = "map"
  BY DEF IsMap
<1>4. /\ Deciding(Left(task, inputs, vars)).got # "error" /\ Deciding(Right(task, vars)).got # "error"
      /\ RunMerge(task, inputs, vars) = IF p = Nil /\ DOMAIN MapOf(q) # {} THEN Panic
                                        ELSE Map(Clobber(MapOf(p), MapOf(q)))
  BY <1>1, MergeUses
<1>5. Deciding(Left(task, inputs, vars)) = Found(L) /\ L # Missing
  <2>1. PICK d : d = Deciding(Left(task, inputs, vars))
    OBVIOUS
  <2>2. d \in {Deciding(<<VarExpr(task.left, vars), JSONWithVarExprs(task.left, vars, NoErrors), Input(inputs, 1)>>),
               Deciding(<<VarExpr(task.left, vars), JSONWithVarExprs(task.left, vars, NoErrors)>>)}
    BY <2>1 DEF Left
  <2>3. d.got # "error"
    BY <1>4, <2>1
  <2> QED BY <1>2, <1>3, <2>1, <2>2, <2>3, MapGettersFind
<1>6. Deciding(Right(task, vars)) = Found(R) /\ R # Missing
  <2>1. PICK d : d = Deciding(Right(task, vars))
    OBVIOUS
  <2>2. d \in {Deciding(<<VarExpr(task.right, vars), JSONWithVarExprs(task.right, vars, NoErrors), Nil>>),
               Deciding(<<VarExpr(task.right, vars), JSONWithVarExprs(task.right, vars, NoErrors)>>)}
    BY <2>1 DEF Right
  <2>3. d.got # "error"
    BY <1>4, <2>1
  <2> QED BY <1>2, <1>3, <2>1, <2>2, <2>3, MapGettersFind
<1>8. p = MapParam(L) /\ q = MapParam(R)
  BY <1>1, <1>5, <1>6, GettersFind
<1>9. /\ L.kind = "map" /\ DOMAIN Parts(L) = DOMAIN Parts(task.left.doc)
      /\ \A k \in DOMAIN Parts(task.left.doc) :
           Parts(L)[k] = IF Parts(task.left.doc)[k].kind = "expr" THEN Get(vars, Parts(task.left.doc)[k].path)
                         ELSE Parts(task.left.doc)[k]
  <2>1. task.left.doc.kind \in {"map", "slice"}
    BY <1>3
  <2> QED BY <1>2, <1>3, <1>5, <2>1, DocumentsFind
<1>12. /\ R.kind = "map" /\ DOMAIN Parts(R) = DOMAIN Parts(task.right.doc)
       /\ \A k \in DOMAIN Parts(task.right.doc) :
            Parts(R)[k] = IF Parts(task.right.doc)[k].kind = "expr" THEN Get(vars, Parts(task.right.doc)[k].path)
                          ELSE Parts(task.right.doc)[k]
  <2>1. task.right.doc.kind \in {"map", "slice"}
    BY <1>3
  <2> QED BY <1>2, <1>3, <1>6, <2>1, DocumentsFind
<1>10. p = L /\ q = R
  BY <1>8, <1>9, <1>12, SMT DEF MapParam
<1>11. Parts(task.left.doc) = l /\ Parts(L) = L.m /\ Parts(task.right.doc) = r /\ Parts(R) = R.m
  BY <1>3, <1>9, <1>12 DEF Parts
<1>13. m = Map(Clobber(L.m, R.m))
  <2>1. L # Nil /\ R # Nil
    BY <1>9, <1>12, KindsDiffer
  <2> QED BY <1>4, <1>10, <2>1 DEF MapOf
<1>14. m.m = Clobber(L.m, R.m)
  BY <1>13 DEF Map
<1>15. /\ DOMAIN L.m = DOMAIN l
       /\ \A k \in DOMAIN l : L.m[k] = IF l[k].kind = "expr" THEN Get(vars, l[k].path) ELSE l[k]
  BY <1>9, <1>11
<1>16. /\ DOMAIN R.m = DOMAIN r
       /\ \A k \in DOMAIN r : R.m[k] = IF r[k].kind = "expr" THEN Get(vars, r[k].path) ELSE r[k]
  BY <1>11, <1>12
<1> QED BY <1>14, <1>15, <1>16 DEF Clobber

-----------------------------------------------------------------------------
(* Values are counted and none is lost *)

\* The filter leaves no more elements than there are, and all if it leaves as many.
LEMMA ErrorsAreFiltered ==
  ASSUME NEW v, NEW e, e = Elements(v), e \in Seq(Range(e)), NEW good, good = FilterErrors(v)
  PROVE  /\ Len(good) \in Nat /\ Len(good) <= Len(e) /\ Len(e) \in Nat /\ DOMAIN good = 1..Len(good)
         /\ good # <<>> => Len(good) # 0
         /\ Len(good) = Len(e) => DOMAIN good = DOMAIN e /\ \A k \in DOMAIN e : good[k] = e[k] /\ e[k] # Error
<1>1. PICK n \in Nat : n = Len(e) /\ DOMAIN e = 1..n
  BY LenProperties
<1>2. PICK S : S = {k \in DOMAIN e : e[k] # Error}
  OBVIOUS
<1>3. Elements(v) = e
  OBVIOUS
<1>4. good = [i \in 1..Cardinality(S) |-> e[CHOOSE k \in S : Cardinality({j \in S : j <= k}) = i]]
  BY <1>2, <1>3 DEF FilterErrors
<1>5. IsFiniteSet(1..n) /\ Cardinality(1..n) = n
  BY FS_Interval
<1>6. /\ IsFiniteSet(S) /\ Cardinality(S) \in Nat /\ Cardinality(S) <= n
      /\ Cardinality(S) = n => S = 1..n
  <2>1. S \in SUBSET (1..n)
    BY <1>1, <1>2
  <2> QED BY <1>5, <2>1, FS_Subset, FS_CardinalityType
<1>7. PICK m \in Nat : m = Cardinality(S)
  BY <1>6
<1>8. Len(good) = m /\ DOMAIN good = 1..m
  <2>1. good = [i \in 1..m |-> good[i]]
    BY <1>4, <1>7
  <2> QED BY <2>1, Z3
<1>9. ASSUME m = n, NEW k \in 1..n PROVE good[k] = e[k] /\ e[k] # Error
  <2>1. S = 1..n
    BY <1>6, <1>7, <1>9
  <2>2. ASSUME NEW j \in 1..n PROVE Cardinality({i \in S : i <= j}) = j
    <3>1. {i \in S : i <= j} = 1..j
      BY <2>1
    <3>2. 1 \in Int /\ j \in Int /\ ~(1 > j) /\ j - 1 + 1 = j
      OBVIOUS
    <3>3. Cardinality(1..j) = IF 1 > j THEN 0 ELSE j - 1 + 1
      BY <3>2, FS_Interval
    <3> QED BY <3>1, <3>2, <3>3
  <2>3. (CHOOSE j \in S : Cardinality({i \in S : i <= j}) = k) = k
    <3> DEFINE c == CHOOSE j \in S : Cardinality({i \in S : i <= j}) = k
    <3>1. c \in S /\ Cardinality({i \in S : i <= c}) = k
      BY <2>1, <2>2
    <3> HIDE DEF c
    <3>2. c = k
      BY <2>1, <2>2, <3>1
    <3> QED BY <3>2 DEF c
  <2> QED BY <1>1, <1>2, <1>4, <1>7, <1>9, <2>1, <2>3
<1>10. good # <<>> => m # 0
  <2>1. m = 0 => good = <<>>
    <3> SUFFICES ASSUME m = 0 PROVE good = <<>>
      OBVIOUS
    <3>1. good \in Seq({}) /\ Len(good) = 0
      <4>1. good = [i \in 1..0 |-> good[i]]
        BY <1>4, <1>7
      <4> QED BY <4>1, Z3
    <3> QED BY <3>1, EmptySeq
  <2> QED BY <2>1
<1> QED BY <1>1, <1>6, <1>7, <1>8, <1>9, <1>10

\* The parameter of a task whose attribute is blank or a document.
LEMMA InputsFound ==
  ASSUME NEW t, NEW vars, NEW inputs, t.form = "blank"
  PROVE  /\ ResolveParam(SliceParam, <<VarExpr(t, vars), JSONWithVarExprs(t, vars, AllowErrors), Inputs(inputs)>>)
              = Slice(inputs)
         /\ Slice(inputs) # Bad /\ Elements(Slice(inputs)) = inputs
<1>1. PICK d : d = Deciding(<<VarExpr(t, vars), JSONWithVarExprs(t, vars, AllowErrors), Inputs(inputs)>>)
  OBVIOUS
<1>2. d = Found(Slice(inputs)) /\ d.got = "value" /\ d.v = Slice(inputs)
  <2>1. VarExpr(t, vars) = Empty
    BY GettersFind
  <2>2. JSONWithVarExprs(t, vars, AllowErrors) = Empty
    BY JSONFinds
  <2>3. d = Deciding(<<Empty, Empty, Found(Slice(inputs))>>)
    BY <1>1, <2>1, <2>2 DEF Inputs
  <2>4. d = Found(Slice(inputs))
    BY <2>3, GettersFind, ThreeDecide
  <2> QED BY <2>4, GettersFind
<1>3. Slice(inputs).kind = "slice" /\ Slice(inputs).e = inputs
  BY DEF Slice
<1>4. SliceParam(Slice(inputs)) = Slice(inputs)
  BY <1>3, SMT DEF SliceParam
<1> QED BY <1>1, <1>2, <1>3, <1>4, KindsDiffer DEF ResolveParam, Elements

\* Decimals are unmarshalled one by one.
LEMMA DecimalsAre ==
  ASSUME NEW e
  PROVE  DecimalSliceParam(Slice(e)) =
           IF \E k \in DOMAIN e : DecimalParam(e[k]) = Bad THEN Bad ELSE Slice([k \in DOMAIN e |-> DecimalParam(e[k])])
<1>1. Slice(e).kind = "slice" /\ Slice(e).e = e /\ Slice(e) # Nil
  BY DEF Slice, Nil
<1>2. DecimalSliceParam(Slice(e)) = SliceOf(DecimalParam, e)
  BY <1>1, SMT DEF DecimalSliceParam, Typed
<1> QED BY <1>2, SMT DEF SliceOf

\* A sum of the inputs is that of those without an error, and fails exactly if
\* there are too many of these, or no others, or one that is no number.
LEMMA SumCounts ==
  ASSUME NEW task, NEW inputs, NEW vars, task.values.form = "blank", inputs \in Seq(Range(inputs)),
         NEW good, good = FilterErrors(Slice(inputs)), NEW allowed, allowed = AllowedFaults(task.allowedFaults),
         NEW r, r = RunSum(task, inputs, vars)
  PROVE  /\ r = Error \/ r = [kind |-> "sum", scaled |-> ScaledSum([k \in DOMAIN good |-> DecimalParam(good[k])])]
         /\ r # Error <=> /\ allowed # Bad /\ good # <<>> /\ \A k \in DOMAIN good : DecimalParam(good[k]) # Bad
                          /\ ~TooManyFaults(Len(inputs) - Len(good),
                                            IF allowed = Nil THEN Len(inputs) - 1 ELSE AsInt(allowed.n))
<1>1. r = IF \/ ~Resolved(<<allowed, Slice(inputs)>>)
             \/ TooManyFaults(Len(inputs) - Len(good), IF allowed = Nil THEN Len(inputs) - 1 ELSE AsInt(allowed.n))
             \/ good = <<>> \/ DecimalSliceParam(Slice(good)) = Bad
          THEN Error ELSE [kind |-> "sum", scaled |-> ScaledSum(DecimalSliceParam(Slice(good)).e)]
  BY InputsFound DEF RunSum
<1>2. Resolved(<<allowed, Slice(inputs)>>) <=> allowed # Bad
  <2>1. PICK vs : vs = <<allowed, Slice(inputs)>>
    OBVIOUS
  <2>2. DOMAIN vs = {1, 2} /\ vs[1] = allowed /\ vs[2] = Slice(inputs)
    BY <2>1
  <2>3. Slice(inputs) # Bad
    BY DEF Slice, Bad
  <2> QED BY <2>1, <2>2, <2>3 DEF Resolved
<1>3. PICK D : D = [k \in DOMAIN good |-> DecimalParam(good[k])]
  OBVIOUS
<1>4. DecimalSliceParam(Slice(good)) = IF \E k \in DOMAIN good : DecimalParam(good[k]) = Bad THEN Bad ELSE Slice(D)
  BY <1>3, DecimalsAre
<1>5. Slice(D) # Bad /\ Slice(D).e = D
  BY DEF Slice, Bad
<1>6. \A x : [kind |-> "sum", scaled |-> x] # Error
  BY DEF Error
<1> QED BY <1>1, <1>2, <1>3, <1>4, <1>5, <1>6

\* The bound on faults is what the attribute says, unless an int cannot hold it.
LEMMA AllowedIs ==
  ASSUME NEW t
  PROVE  /\ t.form = "blank" => AllowedFaults(t) = Nil
         /\ t.form = "number" /\ t.x = 0 /\ 0 <= t.n /\ t.n < 2 * IntLimit => AllowedFaults(t) = Num("uint64", t.n, 0)
         /\ t.form = "number" /\ ~(t.x = 0 /\ 0 <= t.n /\ t.n < 2 * IntLimit) => AllowedFaults(t) = Bad
<1>1. t.form = "blank" => AllowedFaults(t) = Nil
  BY SMT DEF AllowedFaults
<1>2. t.form = "number" /\ t.x = 0 /\ 0 <= t.n /\ t.n < 2 * IntLimit => AllowedFaults(t) = Num("uint64", t.n, 0)
  BY SMT DEF AllowedFaults
<1>3. t.form = "number" /\ ~(t.x = 0 /\ 0 <= t.n /\ t.n < 2 * IntLimit) => AllowedFaults(t) = Bad
  BY SMT DEF AllowedFaults
<1> QED BY <1>1, <1>2, <1>3

\* What SumCountsFaults says of one sum.
LEMMA SumIsComplete ==
  ASSUME NEW task, NEW inputs, NEW vars, task.values.form = "blank", inputs \in Seq(Range(inputs)),
         task.allowedFaults.form = "number" => task.allowedFaults.n \in Int,
         NEW good, good = FilterErrors(Slice(inputs)), NEW t, t = task.allowedFaults,
         NEW r, r = RunSum(task, inputs, vars), NEW faults, faults = Len(inputs) - Len(good)
  PROVE  /\ r # Error => r.scaled = ScaledSum([k \in DOMAIN good |-> DecimalParam(good[k])]) /\ good # <<>>
         /\ (\A k \in DOMAIN good : DecimalParam(good[k]) # Bad) /\ good # <<>>
            /\ (t.form = "blank" \/ (t.form = "number" /\ t.x = 0 /\ faults <= t.n /\ t.n < IntLimit))
              => r # Error
         /\ t.form = "number" /\ faults > t.n => r = Error
<1>1. PICK allowed : allowed = AllowedFaults(t)
  OBVIOUS
<1>2. PICK max : max = IF allowed = Nil THEN Len(inputs) - 1 ELSE AsInt(allowed.n)
  OBVIOUS
<1>3. /\ r = Error \/ r = [kind |-> "sum", scaled |-> ScaledSum([k \in DOMAIN good |-> DecimalParam(good[k])])]
      /\ r # Error <=> /\ allowed # Bad /\ good # <<>> /\ \A k \in DOMAIN good : DecimalParam(good[k]) # Bad
                       /\ ~TooManyFaults(faults, max)
  BY <1>1, <1>2, SumCounts
<1>4. /\ Len(good) \in Nat /\ Len(good) <= Len(inputs) /\ Len(inputs) \in Nat
      /\ good # <<>> => Len(good) # 0
  <2>1. Elements(Slice(inputs)) = inputs
    BY DEF Elements, Slice
  <2> QED BY <2>1, ErrorsAreFiltered
<1>5. IntLimit \in Nat \ {0}
  BY TasksAssumption
<1>6. Nil # Bad /\ \A n : Num("uint64", n, 0) # Bad /\ Num("uint64", n, 0) # Nil /\ Num("uint64", n, 0).n = n
  BY DEF Nil, Bad, Num
<1>7. ASSUME good # <<>>, t.form = "blank" PROVE allowed # Bad /\ ~TooManyFaults(faults, max)
  <2>1. allowed = Nil
    BY <1>1, <1>7, AllowedIs
  <2> QED BY <1>2, <1>4, <1>6, <1>7, <2>1 DEF TooManyFaults
<1>8. ASSUME t.form = "number", t.x = 0, faults <= t.n, t.n < IntLimit PROVE allowed # Bad /\ ~TooManyFaults(faults, max)
  <2>1. t.n \in Nat /\ t.n < 2 * IntLimit
    BY <1>4, <1>5, <1>8
  <2>2. allowed = Num("uint64", t.n, 0)
    BY <1>1, <1>8, <2>1, AllowedIs
  <2>3. max = t.n
    BY <1>2, <1>6, <1>8, <2>2 DEF AsInt
  <2> QED BY <1>4, <1>6, <1>8, <2>1, <2>2, <2>3 DEF TooManyFaults
<1>9. ASSUME t.form = "number", faults > t.n, allowed # Bad PROVE TooManyFaults(faults, max)
  <2>1. allowed = Num("uint64", t.n, 0) /\ 0 <= t.n /\ t.n < 2 * IntLimit /\ t.n \in Int
    BY <1>1, <1>9, AllowedIs
  <2>2. max = AsInt(t.n)
    BY <1>2, <1>6, <2>1
  <2>3. AsInt(t.n) \in Int /\ AsInt(t.n) <= t.n
    BY <1>5, <2>1 DEF AsInt
  <2> QED BY <1>4, <1>9, <2>1, <2>2, <2>3 DEF TooManyFaults
<1>10. \A x : [kind |-> "sum", scaled |-> x].scaled = x
  OBVIOUS
<1> QED BY <1>3, <1>7, <1>8, <1>9, <1>10

\* The parameters of a query are those of the slice, converted to text one by one.
LEMMA QueryOfSlice ==
  ASSUME NEW task, NEW inputs, NEW vars,
         NEW all, all = ResolveParam(SliceParam, <<VarExpr(task.params, vars),
                                                   JSONWithVarExprs(task.params, vars, AllowErrors), Inputs(inputs)>>),
         all.kind = "slice", all.e \in Seq(Range(all.e)), QueryParams(task, inputs, vars) # Bad
  PROVE  /\ \A k \in DOMAIN all.e : all.e[k] # Error
         /\ LET p == QueryParams(task, inputs, vars)
            IN Len(p.e) = Len(all.e) /\ \A k \in DOMAIN all.e : p.e[k] = Str(ConvertToString(all.e[k]))
<1>1. PICK values : values = FilterErrors(all)
  OBVIOUS
<1>2. PICK p : p = QueryParams(task, inputs, vars)
  OBVIOUS
<1>3. Elements(all) = all.e
  BY DEF Elements
<1>5. p = IF all = Bad \/ Len(values) < Len(all.e) THEN Bad ELSE StringSliceParam(Slice(values))
  BY <1>1, <1>2, <1>3 DEF QueryParams
<1>6. /\ Len(values) \in Nat /\ Len(values) <= Len(all.e) /\ Len(all.e) \in Nat /\ DOMAIN values = 1..Len(values)
      /\ Len(values) = Len(all.e) =>
           DOMAIN values = DOMAIN all.e /\ \A k \in DOMAIN all.e : values[k] = all.e[k] /\ all.e[k] # Error
  <2>1. PICK e : e = all.e
    OBVIOUS
  <2>2. e = Elements(all) /\ e \in Seq(Range(e))
    BY <1>3, <2>1
  <2>3. /\ Len(values) \in Nat /\ Len(values) <= Len(e) /\ Len(e) \in Nat /\ DOMAIN values = 1..Len(values)
        /\ Len(values) = Len(e) => DOMAIN values = DOMAIN e /\ \A k \in DOMAIN e : values[k] = e[k] /\ e[k] # Error
    BY <1>1, <2>2, ErrorsAreFiltered
  <2> QED BY <2>1, <2>3
<1>7. Len(values) = Len(all.e) /\ p = StringSliceParam(Slice(values))
  BY <1>2, <1>5, <1>6
<1>8. PICK s : s = [k \in DOMAIN values |-> Str(ConvertToString(values[k]))]
  OBVIOUS
<1>9. p = Slice(s)
  <2>1. Slice(values).kind = "slice" /\ Slice(values).e = values /\ Slice(values) # Nil
    BY DEF Slice, Nil
  <2>2. StringSliceParam(Slice(values)) = Slice([k \in DOMAIN values |-> Str(ConvertToString(values[k]))])
    BY <2>1, SMT DEF StringSliceParam
  <2> QED BY <1>7, <1>8, <2>2
<1>10. PICK n \in Nat : n = Len(values)
  BY <1>6
<1>11. Len(s) = n
  <2>1. s = [k \in 1..n |-> s[k]]
    BY <1>6, <1>8, <1>10
  <2> QED BY <2>1, Z3
<1>12. p.e = s
  BY <1>9 DEF Slice
<1>13. DOMAIN values = DOMAIN all.e /\ Len(s) = Len(all.e)
  BY <1>6, <1>7, <1>10, <1>11
<1>14. ASSUME NEW k \in DOMAIN all.e
       PROVE  all.e[k] # Error /\ s[k] = Str(ConvertToString(all.e[k]))
  <2>1. values[k] = all.e[k] /\ all.e[k] # Error /\ k \in DOMAIN values
    BY <1>6, <1>7
  <2> QED BY <1>8, <2>1
<1>15. Len(p.e) = Len(all.e) /\ \A k \in DOMAIN all.e : all.e[k] # Error /\ p.e[k] = Str(ConvertToString(all.e[k]))
  BY <1>12, <1>13, <1>14
<1> QED BY <1>2, <1>15

\* A function on the first numbers is a sequence of its values.
LEMMA FunctionsAreSequences ==
  ASSUME NEW n \in Nat, NEW f, DOMAIN f = 1..n, f = [k \in 1..n |-> f[k]]
  PROVE  f \in Seq(Range(f)) /\ Len(f) = n
<1>1. \A k \in 1..n : f[k] \in Range(f)
  BY DEF Range
<1>2. f \in [1..n -> Range(f)]
  BY <1>1
<1> QED BY <1>2, SeqDef, LenProperties

\* A slice of JSON is resolved to its elements, with the variables it names in place.
LEMMA SliceDocuments ==
  ASSUME NEW t, NEW vars, NEW inputs, IsSlice(t), IsText(t),
         NEW all, all = ResolveParam(SliceParam, <<VarExpr(t, vars), JSONWithVarExprs(t, vars, AllowErrors), Inputs(inputs)>>),
         all # Bad
  PROVE  /\ all.kind = "slice" /\ all.e \in Seq(Range(all.e)) /\ Len(all.e) = Len(t.doc.e)
         /\ DOMAIN all.e = DOMAIN t.doc.e
         /\ \A k \in DOMAIN t.doc.e :
              all.e[k] = IF t.doc.e[k].kind = "expr" THEN Get(vars, t.doc.e[k].path) ELSE t.doc.e[k]
<1>1. t.form = "json" /\ t.doc.kind = "slice" /\ t.doc.e \in Seq(Range(t.doc.e)) /\ Parts(t.doc) = t.doc.e
  BY DEF IsSlice, IsText, Parts
<1>2. PICK d : d = Deciding(<<VarExpr(t, vars), JSONWithVarExprs(t, vars, AllowErrors), Inputs(inputs)>>)
  OBVIOUS
<1>3. d.got # "error" /\ all = SliceParam(d.v)
  BY <1>2 DEF ResolveParam
<1>4. PICK v : v = MapGoValue(t.doc, vars, AllowErrors)
  OBVIOUS
<1>5. d = Found(v) /\ v # Missing
  BY <1>1, <1>2, <1>3, <1>4, MapGettersFind
<1>6. /\ v.kind = "slice" /\ DOMAIN Parts(v) = DOMAIN t.doc.e
      /\ Parts(v) = [k \in DOMAIN t.doc.e |-> Parts(v)[k]]
      /\ \A k \in DOMAIN t.doc.e :
           Parts(v)[k] = IF t.doc.e[k].kind = "expr" THEN Get(vars, t.doc.e[k].path) ELSE t.doc.e[k]
  BY <1>1, <1>4, <1>5, DocumentsFind
<1>7. all = v /\ Parts(v) = v.e
  <2>1. d.v = v
    BY <1>5, GettersFind
  <2>2. SliceParam(v) = v
    BY <1>6, SMT DEF SliceParam
  <2> QED BY <1>3, <1>6, <2>1, <2>2 DEF Parts
<1>8. PICK n \in Nat : n = Len(t.doc.e) /\ DOMAIN t.doc.e = 1..n
  BY <1>1, LenProperties
<1>9. PICK f : f = v.e
  OBVIOUS
<1>10. f = [k \in 1..n |-> f[k]] /\ DOMAIN f = 1..n
  BY <1>6, <1>7, <1>8, <1>9
<1>11. f \in Seq(Range(f)) /\ Len(f) = n
  BY <1>10, FunctionsAreSequences
<1>12. all.kind = "slice" /\ all.e = f
  BY <1>6, <1>7, <1>9
<1>13. \A k \in DOMAIN t.doc.e : f[k] = IF t.doc.e[k].kind = "expr" THEN Get(vars, t.doc.e[k].path) ELSE t.doc.e[k]
  BY <1>6, <1>7, <1>9
<1> QED BY <1>8, <1>10, <1>11, <1>12, <1>13

\* A query goes out only if nothing it is made of is missing or an error.
LEMMA QueryUses ==
  ASSUME NEW task, NEW inputs, NEW vars, IsText(task.params), QueryParams(task, inputs, vars) # Bad
  PROVE  Checked(task.params, vars) /\ DocChecked(task.params, vars, NoErrors)
<1>1. PICK t : t = task.params
  OBVIOUS
<1>2. PICK all : all = ResolveParam(SliceParam, <<VarExpr(t, vars), JSONWithVarExprs(t, vars, AllowErrors), Inputs(inputs)>>)
  OBVIOUS
<1>3. all # Bad
  BY <1>1, <1>2 DEF QueryParams
<1>4. PICK d : d = Deciding(<<VarExpr(t, vars), JSONWithVarExprs(t, vars, AllowErrors), Inputs(inputs)>>)
  OBVIOUS
<1>5. d.got # "error" /\ all = SliceParam(d.v)
  BY <1>2, <1>3, <1>4 DEF ResolveParam
<1>6. Checked(t, vars) /\ DocChecked(t, vars, AllowErrors)
  BY <1>4, <1>5, DocsChecked
<1>7. ASSUME t.form = "json", t.doc.kind = "slice", NEW k \in DOMAIN Parts(t.doc), Parts(t.doc)[k].kind = "expr"
      PROVE  Get(vars, Parts(t.doc)[k].path) # Error
  <2>1. IsSlice(t) /\ IsText(t) /\ Parts(t.doc) = t.doc.e
    BY <1>1, <1>7 DEF IsSlice, Parts
  <2>2. /\ all.kind = "slice" /\ all.e \in Seq(Range(all.e)) /\ DOMAIN all.e = DOMAIN t.doc.e
        /\ \A j \in DOMAIN t.doc.e :
             all.e[j] = IF t.doc.e[j].kind = "expr" THEN Get(vars, t.doc.e[j].path) ELSE t.doc.e[j]
    BY <1>2, <1>3, <2>1, SliceDocuments
  <2>3. \A j \in DOMAIN all.e : all.e[j] # Error
    BY <1>1, <1>2, <2>2, QueryOfSlice
  <2> QED BY <1>7, <2>1, <2>2, <2>3
<1>8. ASSUME t.form = "json", t.doc.kind = "map" PROVE FALSE
  <2>1. PICK v : v = MapGoValue(t.doc, vars, AllowErrors)
    OBVIOUS
  <2>2. d = Found(v) /\ v # Missing
    BY <1>4, <1>5, <1>8, <2>1, MapGettersFind
  <2>3. v.kind = "map"
    BY <1>8, <2>1, <2>2, DocumentsFind
  <2>4. SliceParam(v) = Bad
    BY <2>3, SMT DEF SliceParam
  <2> QED BY <1>3, <1>5, <2>2, <2>4, GettersFind
<1> QED BY <1>1, <1>6, <1>7, <1>8 DEF DocChecked

\* A query binds every parameter it is given, in order.
LEMMA QueryBinds ==
  ASSUME NEW task, NEW inputs, NEW vars, IsText(task.params), inputs \in Seq(Range(inputs)),
         \A k \in DOMAIN inputs : inputs[k].kind # "expr",
         NEW t, t = task.params, t.form = "blank" \/ IsSlice(t),
         NEW p, p = QueryParams(task, inputs, vars), p # Bad,
         NEW given, given = IF t.form = "blank" THEN inputs ELSE t.doc.e
  PROVE  /\ Len(p.e) = Len(given)
         /\ \A k \in DOMAIN given :
              LET v == IF given[k].kind = "expr" THEN Get(vars, given[k].path) ELSE given[k]
              IN v # Error /\ p.e[k] = Str(ConvertToString(v))
<1>1. PICK all : all = ResolveParam(SliceParam, <<VarExpr(t, vars), JSONWithVarExprs(t, vars, AllowErrors), Inputs(inputs)>>)
  OBVIOUS
<1>2. all # Bad
  BY <1>1 DEF QueryParams
<1>3. /\ all.kind = "slice" /\ all.e \in Seq(Range(all.e)) /\ Len(all.e) = Len(given) /\ DOMAIN all.e = DOMAIN given
      /\ \A k \in DOMAIN given : all.e[k] = IF given[k].kind = "expr" THEN Get(vars, given[k].path) ELSE given[k]
  <2>1. CASE t.form = "blank"
    <3>1. all = Slice(inputs)
      BY <1>1, <2>1, InputsFound
    <3>2. all.kind = "slice" /\ all.e = inputs
      BY <3>1 DEF Slice
    <3> QED BY <2>1, <3>2
  <2>2. CASE t.form # "blank"
    <3>1. IsSlice(t) /\ IsText(t)
      BY <2>2
    <3>2. /\ all.kind = "slice" /\ all.e \in Seq(Range(all.e)) /\ Len(all.e) = Len(t.doc.e)
          /\ DOMAIN all.e = DOMAIN t.doc.e
          /\ \A k \in DOMAIN t.doc.e :
               all.e[k] = IF t.doc.e[k].kind = "expr" THEN Get(vars, t.doc.e[k].path) ELSE t.doc.e[k]
      BY <1>1, <1>2, <3>1, SliceDocuments, SMTT(60)
    <3>3. given = t.doc.e
      BY <2>2
    <3> QED BY <3>2, <3>3
  <2> QED BY <2>1, <2>2
<1>4. /\ \A k \in DOMAIN all.e : all.e[k] # Error
      /\ Len(p.e) = Len(all.e) /\ \A k \in DOMAIN all.e : p.e[k] = Str(ConvertToString(all.e[k]))
  BY <1>1, <1>3, QueryOfSlice
<1> QED BY <1>3, <1>4
-----------------------------------------------------------------------------
(* Keys and requests need all they are made of *)

\* DecodePK has found all three parameters, wherever they come from.
LEMMA KeyUses ==
  ASSUME NEW task, NEW inputs, NEW vars, NEW r \in RunDecodePK(task, inputs, vars), r # Error
  PROVE  /\ Checked(task.key, vars) /\ Checked(task.nonce, vars) /\ Checked(task.secret, vars)
         /\ task.key.form = "expr" /\ task.secret.form # "blank"
         /\ task.nonce.form = "expr" \/ (inputs # <<>> /\ inputs[1] # Error)
         /\ r \in {Panic, Key}
<1> DEFINE ks == <<VarExpr(task.key, vars)>>
           ns == <<VarExpr(task.nonce, vars), Input(inputs, 1)>>
           ss == <<VarExpr(task.secret, vars), NonemptyString(task.secret)>>
<1>1. HexDecode(TextParam(ks)) /\ HexDecode(TextParam(ns)) /\ TextParam(ss).chars \in KeyLengths /\ r \in {Panic, Key}
  BY DEF RunDecodePK
<1>2. ASSUME NEW gs, TextParam(gs) # Blank PROVE Deciding(gs).got # "error"
  BY <1>2 DEF TextParam, ResolveParam
<1>3. ~HexDecode(Blank) /\ Blank.chars \notin KeyLengths
  BY DEF HexDecode, Blank, KeyLengths
<1>4. Deciding(ks).got # "error" /\ Deciding(ns).got # "error" /\ Deciding(ss).got # "error"
  <2>1. TextParam(ks) # Blank /\ TextParam(ns) # Blank /\ TextParam(ss) # Blank
    BY <1>1, <1>3
  <2> QED BY <1>2, <2>1
<1>5. Checked(task.key, vars) /\ Checked(task.nonce, vars) /\ Checked(task.secret, vars)
  BY <1>4, VarsChecked
<1>6. task.key.form = "expr"
  <2>1. Deciding(ks) = IF VarExpr(task.key, vars).got = "empty" THEN Fails ELSE VarExpr(task.key, vars)
    BY OneDecides
  <2> QED BY <1>4, <2>1, GettersFind
<1>7. task.secret.form # "blank"
  <2>1. Deciding(ss) = IF VarExpr(task.secret, vars).got # "empty" THEN VarExpr(task.secret, vars)
                       ELSE IF NonemptyString(task.secret).got = "empty" THEN Fails ELSE NonemptyString(task.secret)
    BY TwoDecide
  <2> QED BY <1>4, <2>1, GettersFind
<1>8. task.nonce.form = "expr" \/ (1 \in DOMAIN inputs /\ inputs[1] # Error)
  <2>1. Deciding(ns) = IF VarExpr(task.nonce, vars).got # "empty" THEN VarExpr(task.nonce, vars)
                       ELSE IF Input(inputs, 1).got = "empty" THEN Fails ELSE Input(inputs, 1)
    BY TwoDecide
  <2> QED BY <1>4, <2>1, GettersFind
<1>9. 1 \in DOMAIN inputs => inputs # <<>>
  OBVIOUS
<1> QED BY <1>1, <1>5, <1>6, <1>7, <1>8, <1>9

\* What is unmarshalled to a map.
LEMMA MapsAre ==
  ASSUME NEW v, MapParam(v) # Bad
  PROVE  MapParam(v).kind \in {"nil", "map"} /\ v.kind \in {"nil", "map", "string", "bytes", "object"}
<1>1. CASE v.kind \in {"nil", "map"}
  BY <1>1, SMT DEF MapParam
<1>2. CASE v.kind \in {"string", "bytes"}
  <2>1. MapParam(v) = Decoded(v.text, "map")
    BY <1>2, SMT DEF MapParam
  <2> QED BY <1>2, <2>1 DEF Decoded
<1>3. CASE v.kind = "object" /\ v.of.kind = "map"
  BY <1>3, SMT DEF MapParam
<1>4. CASE v.kind \notin {"nil", "map", "string", "bytes"} /\ ~(v.kind = "object" /\ v.of.kind = "map")
  BY <1>4, SMT DEF MapParam
<1> QED BY <1>1, <1>2, <1>3, <1>4

\* The getters of the parameters of a request.
Methods == <<NonemptyString(case.task.method), Found(Str(Plain(3)))>>
URLs == <<VarExpr(case.task.url, case.vars), NonemptyString(case.task.url)>>
Bodies == <<VarExpr(case.task.requestData, case.vars), JSONWithVarExprs(case.task.requestData, case.vars, NoErrors), Found(Nil)>>
Allowances == <<NonemptyString(case.task.allow), Found(Bool(case.task.url.form # "expr"))>>
Headers == <<NonemptyString(case.task.headers), Found(Str(JSON(Slice(<<>>))))>>

\* A text that is an expression is none of the types these attributes have.
LEMMA PlainTexts ==
  ASSUME NEW t, t.form = "expr", NEW c
  PROVE  /\ Deciding(<<NonemptyString(t), c>>) = Found(Str(t)) /\ Found(Str(t)).v = Str(t)
         /\ StringParam(Str(t)) = Str(t) /\ Str(t).text = t
         /\ BoolParam(Str(t)) = Bad /\ StringSliceParam(Str(t)) = Bad
<1>1. NonemptyString(t) = Found(Str(t)) /\ Found(Str(t)).got # "empty" /\ Found(Str(t)).v = Str(t)
  BY GettersFind
<1>2. Deciding(<<NonemptyString(t), c>>) = Found(Str(t))
  BY <1>1, TwoDecide
<1>3. Str(t).kind = "string" /\ Str(t).text = t /\ Str(t) # Nil
  BY DEF Str, Nil
<1>4. StringParam(Str(t)) = Str(t)
  BY <1>3, SMT DEF StringParam
<1>5. BoolParam(Str(t)) = Bad
  BY <1>3, SMT DEF BoolParam
<1>6. StringSliceParam(Str(t)) = Bad
  <2>1. Decoded(t, "slice") = Bad
    BY DEF Decoded
  <2>2. StringSliceParam(Str(t)) = (IF Bad.kind # "slice" THEN Bad ELSE Bad)
    BY <1>3, <2>1, KindsDiffer, SMT DEF StringSliceParam
  <2> QED BY <2>2
<1> QED BY <1>1, <1>2, <1>3, <1>4, <1>5, <1>6

\* A request is made of attributes that were found and have the right types.
LEMMA RequestUses ==
  ASSUME Acceptable(RequestParams), ValidMethod(RequestParams.method)
  PROVE  /\ case.task.method.form # "expr" /\ case.task.allow.form # "expr" /\ case.task.headers.form # "expr"
         /\ Checked(case.task.url, case.vars)
         /\ Checked(case.task.requestData, case.vars) /\ DocChecked(case.task.requestData, case.vars, NoErrors)
         /\ RequestParams.url.text.form = "url" /\ RequestParams.body.kind \in {"nil", "map"}
         /\ case.task.requestData.form \in {"blank", "json", "expr"}
         /\ Len(Elements(RequestParams.headers)) % 2 = 0
<1>1. RequestParams = [method |-> ResolveParam(StringParam, Methods), url |-> ResolveParam(URLParam, URLs),
                       body |-> ResolveParam(MapParam, Bodies), unrestricted |-> ResolveParam(BoolParam, Allowances),
                       headers |-> ResolveParam(StringSliceParam, Headers)]
  BY DEF RequestParams, Methods, URLs, Bodies, Allowances, Headers
<1>2. /\ RequestParams.method # Bad /\ RequestParams.url # Bad /\ RequestParams.body # Bad
      /\ RequestParams.unrestricted # Bad /\ RequestParams.headers # Bad
      /\ Len(Elements(RequestParams.headers)) % 2 = 0
  BY <1>1 DEF Acceptable
<1>3. /\ Deciding(URLs).got # "error" /\ Deciding(Bodies).got # "error"
      /\ RequestParams.method = StringParam(Deciding(Methods).v) /\ RequestParams.url = URLParam(Deciding(URLs).v)
      /\ RequestParams.body = MapParam(Deciding(Bodies).v)
      /\ RequestParams.unrestricted = BoolParam(Deciding(Allowances).v)
      /\ RequestParams.headers = StringSliceParam(Deciding(Headers).v)
  BY <1>1, <1>2 DEF ResolveParam
<1>4. case.task.method.form # "expr"
  <2>1. SUFFICES ASSUME case.task.method.form = "expr" PROVE FALSE
    OBVIOUS
  <2>2. Deciding(Methods).v = Str(case.task.method)
    BY <2>1, PlainTexts DEF Methods
  <2>3. RequestParams.method = Str(case.task.method) /\ Str(case.task.method).text = case.task.method
    BY <1>3, <2>1, <2>2, PlainTexts
  <2> QED BY <2>1, <2>3 DEF ValidMethod
<1>5. case.task.allow.form # "expr"
  <2>1. SUFFICES ASSUME case.task.allow.form = "expr" PROVE FALSE
    OBVIOUS
  <2>2. Deciding(Allowances).v = Str(case.task.allow)
    BY <2>1, PlainTexts DEF Allowances
  <2> QED BY <1>2, <1>3, <2>1, <2>2, PlainTexts
<1>6. case.task.headers.form # "expr"
  <2>1. SUFFICES ASSUME case.task.headers.form = "expr" PROVE FALSE
    OBVIOUS
  <2>2. Deciding(Headers).v = Str(case.task.headers)
    BY <2>1, PlainTexts DEF Headers
  <2> QED BY <1>2, <1>3, <2>1, <2>2, PlainTexts
<1>7. Checked(case.task.url, case.vars)
  <2>1. PICK t, b : t = case.task.url /\ b = NonemptyString(case.task.url)
    OBVIOUS
  <2>2. Deciding(<<VarExpr(t, case.vars), b>>).got # "error"
    BY <1>3, <2>1 DEF URLs
  <2> QED BY <2>1, <2>2, VarsChecked
<1>8. Checked(case.task.requestData, case.vars) /\ DocChecked(case.task.requestData, case.vars, NoErrors)
  BY <1>3, DocsChecked DEF Bodies
<1>9. RequestParams.url.text.form = "url"
  BY <1>2, <1>3 DEF URLParam
<1>10. RequestParams.body.kind \in {"nil", "map"} /\ Deciding(Bodies).v.kind \in {"nil", "map", "string", "bytes", "object"}
  BY <1>2, <1>3, MapsAre
<1>11. case.task.requestData.form \in {"blank", "json", "expr"}
  <2>1. SUFFICES ASSUME case.task.requestData.form \notin {"blank", "json", "expr"} PROVE FALSE
    OBVIOUS
  <2>2. PICK t, d : t = case.task.requestData /\ d = Deciding(Bodies)
    OBVIOUS
  <2>3. d \in {Deciding(<<VarExpr(t, case.vars), JSONWithVarExprs(t, case.vars, NoErrors), Found(Nil)>>),
               Deciding(<<VarExpr(t, case.vars), JSONWithVarExprs(t, case.vars, NoErrors)>>)}
    BY <2>2 DEF Bodies
  <2>4. d = Found(Scalar(t)) /\ Scalar(t) # Missing
    BY <1>3, <2>1, <2>2, <2>3, MapGettersFind
  <2>5. Scalar(t).kind \in {"int64", "float64", "bool"} \/ Scalar(t) = Missing
    BY SMT DEF Scalar, Num, Bool
  <2> QED BY <1>10, <2>2, <2>4, <2>5, GettersFind
<1> QED BY <1>2, <1>4, <1>5, <1>6, <1>7, <1>8, <1>9, <1>10, <1>11
-----------------------------------------------------------------------------
(* The tasks, in every reachable state *)

\* What has been found is neither missing nor, where it is checked, an error.
LEMMA NamedAre ==
  ASSUME NEW a, Checked(case.task[a], case.vars), NEW allowErrors,
         a \in Interpolates => DocChecked(case.task[a], case.vars, allowErrors) \/ case.task[a].form # "json"
  PROVE  Missing \notin Named(a) /\ (~allowErrors => Error \notin Named(a))
<1>1. PICK t : t = case.task[a]
  OBVIOUS
<1>2. CASE t.form = "expr"
  <2>1. Named(a) = {Get(case.vars, t.path)}
    BY <1>1, <1>2, SMT DEF Named
  <2> QED BY <1>1, <1>2, <2>1 DEF Checked
<1>3. CASE t.form = "json" /\ t.doc.kind \in {"map", "slice"} /\ a \in Interpolates
  <2>1. Named(a) = {Get(case.vars, Parts(t.doc)[k].path) : k \in {k \in DOMAIN Parts(t.doc) : Parts(t.doc)[k].kind = "expr"}}
    BY <1>1, <1>3, SMT DEF Named
  <2>2. DocChecked(t, case.vars, allowErrors)
    BY <1>1, <1>3
  <2>3. \A k \in DOMAIN Parts(t.doc) : Parts(t.doc)[k].kind = "expr" =>
          LET v == Get(case.vars, Parts(t.doc)[k].path) IN v # Missing /\ (v = Error => allowErrors)
    BY <1>3, <2>2 DEF DocChecked
  <2> QED BY <2>1, <2>3
<1>4. CASE t.form # "expr" /\ ~(t.form = "json" /\ t.doc.kind \in {"map", "slice"} /\ a \in Interpolates)
  <2>1. Named(a) = {}
    BY <1>1, <1>4, SMT DEF Named
  <2> QED BY <2>1
<1> QED BY <1>2, <1>3, <1>4

\* The attributes of each type of task, and what running one is.
LEMMA AttributesAre ==
  /\ AttributesOf("sum") = {"values", "allowedFaults"} /\ AttributesOf("multiply") = {"input", "times"}
  /\ AttributesOf("lessthan") = {"left", "right"} /\ AttributesOf("length") = {"input"}
  /\ AttributesOf("conditional") = {"data"} /\ AttributesOf("memo") = {"value"}
  /\ AttributesOf("merge") = {"left", "right"} /\ AttributesOf("querydb") = {"params"}
  /\ AttributesOf("decodepk") = {"key", "nonce", "secret"}
  /\ AttributesOf("http") = {"method", "url", "requestData", "allow", "headers"}
BY DEF AttributesOf

LEMMA RunsAre ==
  ASSUME NEW task, NEW inputs, NEW vars
  PROVE  /\ task.type = "sum" => Run(task, inputs, vars) = {RunSum(task, inputs, vars)}
         /\ task.type = "multiply" => Run(task, inputs, vars) = {RunMultiply(task, inputs, vars)}
         /\ task.type = "lessthan" => Run(task, inputs, vars) = {RunLessThan(task, inputs, vars)}
         /\ task.type = "length" => Run(task, inputs, vars) = {RunLength(task, inputs, vars)}
         /\ task.type = "conditional" => Run(task, inputs, vars) = {RunConditional(task, inputs, vars)}
         /\ task.type = "memo" => Run(task, inputs, vars) = {RunMemo(task, inputs, vars)}
         /\ task.type = "merge" => Run(task, inputs, vars) = {RunMerge(task, inputs, vars)}
         /\ task.type = "decodepk" => Run(task, inputs, vars) = RunDecodePK(task, inputs, vars)
BY DEF Run

\* What is sent is what the attributes ask for.
RequestIsAsked ==
  /\ ~FailedInputs /\ Acceptable(RequestParams) /\ Encodable(RequestParams.body) /\ ValidMethod(RequestParams.method)
  /\ request.url = RequestParams.url /\ request.body = RequestParams.body
  /\ request.headers = Elements(RequestParams.headers)

ResponseIsWhole ==
  /\ result = Str(Plain(answer.size)) /\ answer.complete /\ ~answer.interrupted
  /\ answer.size <= SizeLimit /\ answer.status \in 100..399

Asked == QueryParams(case.task, case.inputs, case.vars)

\* The result is one Run can give; a query asks with the parameters it found; a
\* request that went out is the one asked for, and there is no result before.
TasksInv ==
  /\ case \in Cases
  /\ case.task.type \notin {"querydb", "http"} =>
       result = NotRun \/ result \in Run(case.task, case.inputs, case.vars)
  /\ bound # Nil => case.task.type = "querydb" /\ Asked # Bad /\ bound = Asked
  /\ case.task.type = "querydb" => result \in {NotRun, Error, Rows} /\ (result = Rows => Asked # Bad)
  /\ phase \in {"none", "resolving", "requesting", "reported"} /\ (phase = "none" <=> case.task.type # "http")
  /\ request # None => case.task.type = "http" /\ RequestIsAsked
  /\ phase = "requesting" => request # None
  /\ case.task.type = "http" =>
       result \in {NotRun, Error} \/ (phase = "reported" /\ request # None /\ ResponseIsWhole)

LEMMA TasksInvHolds == HTTPSpec => []TasksInv
<1>1. HTTPInit => TasksInv
  <2> SUFFICES ASSUME HTTPInit PROVE TasksInv
    OBVIOUS
  <2>1. /\ case \in Cases /\ result = NotRun /\ bound = Nil /\ request = None
        /\ phase = IF case.task.type = "http" THEN "resolving" ELSE "none"
    BY DEF HTTPInit, TaskInit
  <2>2. NotRun # Rows
    BY DEF NotRun, Rows
  <2>3. phase \in {"none", "resolving"} /\ (phase = "none" <=> case.task.type # "http")
    BY <2>1
  <2> QED BY <2>1, <2>2, <2>3 DEF TasksInv
<1>2. TasksInv /\ [HTTPNext]_httpVars => TasksInv'
  <2> SUFFICES ASSUME TasksInv, [HTTPNext]_httpVars PROVE TasksInv'
    OBVIOUS
  <2>a. ASSUME case' = case
        PROVE  /\ Asked' = Asked /\ FailedInputs' = FailedInputs /\ RequestParams' = RequestParams
               /\ Run(case.task, case.inputs, case.vars)' = Run(case.task, case.inputs, case.vars)
    BY <2>a DEF Asked, FailedInputs, RequestParams
  <2>b. ASSUME case' = case, request' = request PROVE RequestIsAsked' = RequestIsAsked
    BY <2>a, <2>b DEF RequestIsAsked
  <2>1. ASSUME Resolve PROVE TasksInv'
    <3>1. /\ phase = "resolving" /\ phase' = "requesting" /\ case' = case /\ result' = result /\ bound' = bound
          /\ ~FailedInputs /\ Acceptable(RequestParams) /\ Encodable(RequestParams.body)
          /\ ValidMethod(RequestParams.method)
          /\ request'.kind = "request" /\ request'.url = RequestParams.url /\ request'.body = RequestParams.body
          /\ request'.headers = Elements(RequestParams.headers)
      BY <2>1 DEF Resolve, taskVars
    <3>2. RequestIsAsked' /\ request' # None
      BY <2>a, <3>1, KindsDiffer DEF RequestIsAsked
    <3> QED BY <2>a, <3>1, <3>2 DEF TasksInv
  <2>2. ASSUME ResolveFails PROVE TasksInv'
    <3>1. phase = "resolving" /\ phase' = "reported" /\ case' = case /\ result' = Error /\ bound' = bound /\ request' = request
      BY <2>2 DEF ResolveFails, Reported
    <3> QED BY <2>a, <2>b, <3>1 DEF TasksInv
  <2>3. ASSUME SendRequest PROVE TasksInv'
    <3>1. PICK a \in Answers :
            /\ phase = "requesting" /\ answer' = a /\ phase' = "reported" /\ case' = case /\ bound' = bound
            /\ request' = request
            /\ \/ result' = Error
               \/ ~a.interrupted /\ BodyRead(a) /\ ~(a.status >= 400) /\ result' = Str(Plain(a.size))
      <4>1. PICK a \in Answers :
              /\ phase = "requesting" /\ answer' = a
              /\ CASE a.interrupted \/ ~BodyRead(a) -> Reported(Error, IsRetryableHTTPError(0, TRUE))
                   [] ~a.interrupted /\ BodyRead(a) /\ a.status >= 400 -> Reported(Error, IsRetryableHTTPError(a.status, TRUE))
                   [] OTHER -> Reported(Str(Plain(a.size)), FALSE)
        BY <2>3 DEF SendRequest
      <4>2. CASE a.interrupted \/ ~BodyRead(a)
        <5>1. Reported(Error, IsRetryableHTTPError(0, TRUE))
          BY <4>1, <4>2
        <5> QED BY <4>1, <5>1 DEF Reported
      <4>3. CASE ~a.interrupted /\ BodyRead(a) /\ a.status >= 400
        <5>1. Reported(Error, IsRetryableHTTPError(a.status, TRUE))
          BY <4>1, <4>3
        <5> QED BY <4>1, <5>1 DEF Reported
      <4>4. CASE ~a.interrupted /\ BodyRead(a) /\ ~(a.status >= 400)
        <5>1. Reported(Str(Plain(a.size)), FALSE)
          BY <4>1, <4>4
        <5> QED BY <4>1, <4>4, <5>1 DEF Reported
      <4> QED BY <4>2, <4>3, <4>4
    <3>2. result' = Error \/ ResponseIsWhole'
      <4>1. a.status \in 100..599 \cup {0}
        BY HTTPAssumption DEF Answers
      <4> QED BY <3>1, <4>1 DEF ResponseIsWhole, BodyRead
    <3> QED BY <2>a, <2>b, <3>1, <3>2 DEF TasksInv
  <2>4. ASSUME Retry PROVE TasksInv'
    <3>1. /\ phase = "reported" /\ phase' = "resolving" /\ case' = case /\ result = Error /\ result' = result
          /\ bound' = bound /\ request' = request
      BY <2>4 DEF Retry, WantsRetry, taskVars
    <3> QED BY <2>a, <2>b, <3>1 DEF TasksInv
  <2>5. ASSUME RunTask, UNCHANGED callVars PROVE TasksInv'
    <3>1. /\ case.task.type \notin {"querydb", "http"} /\ result' \in Run(case.task, case.inputs, case.vars)
          /\ case' = case /\ bound' = bound /\ phase' = phase /\ request' = request /\ answer' = answer
      BY <2>5 DEF RunTask, callVars
    <3> QED BY <2>a, <2>b, <3>1 DEF TasksInv
  <2>6. ASSUME RunQueryDB, UNCHANGED callVars PROVE TasksInv'
    <3>1. /\ case.task.type = "querydb" /\ case' = case /\ phase' = phase /\ request' = request
          /\ IF Asked = Bad THEN result' = Error /\ bound' = bound ELSE result' \in {Error, Rows} /\ bound' = Asked
      BY <2>6 DEF RunQueryDB, callVars, Asked
    <3>2. Error # Rows
      BY DEF Error, Rows
    <3> QED BY <2>a, <2>b, <3>1, <3>2 DEF TasksInv
  <2>7. ASSUME UNCHANGED httpVars PROVE TasksInv'
    <3>1. /\ case' = case /\ bound' = bound /\ phase' = phase /\ request' = request /\ answer' = answer
          /\ result' = result
      BY <2>7 DEF httpVars, taskVars, callVars
    <3>2. ResponseIsWhole' = ResponseIsWhole
      BY <3>1 DEF ResponseIsWhole
    <3> QED BY <2>a, <2>b, <3>1, <3>2 DEF TasksInv
  <2>8. TaskRan /\ UNCHANGED callVars => UNCHANGED httpVars
    BY DEF TaskRan, httpVars
  <2> QED BY <2>1, <2>2, <2>3, <2>4, <2>5, <2>6, <2>7, <2>8 DEF HTTPNext, OtherTask, TaskNext
<1> QED BY <1>1, <1>2, PTL DEF HTTPSpec
\* What an earlier task failed with is not used.
LEMMA NotUsed ==
  ASSUME TasksInv
  PROVE  ErrorsAreNotUsed
<1> SUFFICES ASSUME Succeeded
             PROVE  /\ \A a \in AttributesOf(case.task.type) :
                         Missing \notin Named(a) /\ (case.task.type # "sum" => Error \notin Named(a))
                    /\ (\E k \in DOMAIN case.inputs : case.inputs[k] = Error) =>
                         case.task.type \in {"sum", "querydb", "decodepk"}
  BY DEF ErrorsAreNotUsed
<1> DEFINE Fine(a) == Missing \notin Named(a) /\ Error \notin Named(a)
           NoFaults == ~\E k \in DOMAIN case.inputs : case.inputs[k] = Error
<1>1. case \in Cases /\ IsCase(case) /\ case.task.type \in TaskTypes /\ result \notin {NotRun, Error, Panic}
  BY TasksAssumption DEF TasksInv, Succeeded, IsCase
<1>2. ASSUME NEW a, Checked(case.task[a], case.vars),
             a \in Interpolates => DocChecked(case.task[a], case.vars, NoErrors) \/ case.task[a].form # "json"
      PROVE  Fine(a)
  BY <1>2, NamedAre DEF NoErrors
<1>3. CheckInputs(case.inputs) => NoFaults
  BY DEF CheckInputs
<1>4. case.task.type \notin {"querydb", "http"} => result \in Run(case.task, case.inputs, case.vars)
  BY <1>1 DEF TasksInv
<1> HIDE DEF Fine, NoFaults
<1>5. CASE case.task.type = "sum"
  <2>1. RunSum(case.task, case.inputs, case.vars) # Error
    BY <1>1, <1>4, <1>5, RunsAre
  <2>2. /\ Checked(case.task.values, case.vars) /\ DocChecked(case.task.values, case.vars, AllowErrors)
        /\ case.task.allowedFaults.form \in {"blank", "number"}
    BY <2>1, SumUses
  <2>3. Missing \notin Named("values")
    BY <2>2, NamedAre
  <2>4. Missing \notin Named("allowedFaults")
    BY <2>2, NamedAre DEF Checked
  <2> QED BY <1>5, <2>3, <2>4, AttributesAre
<1>6. CASE case.task.type = "multiply"
  <2>1. RunMultiply(case.task, case.inputs, case.vars) # Error
    BY <1>1, <1>4, <1>6, RunsAre
  <2>2. CheckInputs(case.inputs) /\ Checked(case.task.input, case.vars) /\ Checked(case.task.times, case.vars)
    BY <2>1, MultiplyUses
  <2>3. Fine("input") /\ Fine("times")
    BY <1>2, <2>2 DEF Interpolates
  <2> QED BY <1>3, <1>6, <2>2, <2>3, AttributesAre DEF Fine, NoFaults
<1>7. CASE case.task.type = "lessthan"
  <2>1. RunLessThan(case.task, case.inputs, case.vars) # Error
    BY <1>1, <1>4, <1>7, RunsAre
  <2>2. /\ CheckInputs(case.inputs) /\ Checked(case.task.left, case.vars) /\ Checked(case.task.right, case.vars)
        /\ case.task.left.form # "json" /\ case.task.right.form # "json"
    BY <2>1, LessThanUses
  <2>3. Fine("left") /\ Fine("right")
    BY <1>2, <2>2
  <2> QED BY <1>3, <1>7, <2>2, <2>3, AttributesAre DEF Fine, NoFaults
<1>8. CASE case.task.type = "length"
  <2>1. RunLength(case.task, case.inputs, case.vars) # Error
    BY <1>1, <1>4, <1>8, RunsAre
  <2>2. CheckInputs(case.inputs) /\ Checked(case.task.input, case.vars)
    BY <2>1, LengthUses
  <2>3. Fine("input")
    BY <1>2, <2>2 DEF Interpolates
  <2> QED BY <1>3, <1>8, <2>2, <2>3, AttributesAre DEF Fine, NoFaults
<1>9. CASE case.task.type = "conditional"
  <2>1. RunConditional(case.task, case.inputs, case.vars) # Error
    BY <1>1, <1>4, <1>9, RunsAre
  <2>2. CheckInputs(case.inputs) /\ Checked(case.task.data, case.vars)
    BY <2>1, ConditionalUses
  <2>3. Fine("data")
    BY <1>2, <2>2 DEF Interpolates
  <2> QED BY <1>3, <1>9, <2>2, <2>3, AttributesAre DEF Fine, NoFaults
<1>10. CASE case.task.type = "memo"
  <2>1. RunMemo(case.task, case.inputs, case.vars) # Error
    BY <1>1, <1>4, <1>10, RunsAre
  <2>2. CheckInputs(case.inputs) /\ Checked(case.task.value, case.vars) /\ DocChecked(case.task.value, case.vars, NoErrors)
    BY <2>1, MemoUses
  <2>3. Fine("value")
    BY <1>2, <2>2
  <2> QED BY <1>3, <1>10, <2>2, <2>3, AttributesAre DEF Fine, NoFaults
<1>11. CASE case.task.type = "merge"
  <2>1. RunMerge(case.task, case.inputs, case.vars) # Error
    BY <1>1, <1>4, <1>11, RunsAre
  <2>2. PICK l, r : /\ l = MapParam(Deciding(Left(case.task, case.inputs, case.vars)).v)
                    /\ r = MapParam(Deciding(Right(case.task, case.vars)).v)
    OBVIOUS
  <2>3. /\ CheckInputs(case.inputs)
        /\ Checked(case.task.left, case.vars) /\ DocChecked(case.task.left, case.vars, NoErrors)
        /\ Checked(case.task.right, case.vars) /\ DocChecked(case.task.right, case.vars, NoErrors)
    BY <2>1, <2>2, MergeUses
  <2>4. Fine("left") /\ Fine("right")
    BY <1>2, <2>3
  <2> QED BY <1>3, <1>11, <2>3, <2>4, AttributesAre DEF Fine, NoFaults
<1>12. CASE case.task.type = "querydb"
  <2>1. Asked # Bad
    BY <1>1, <1>12 DEF TasksInv
  <2>2. IsText(case.task.params)
    BY <1>1, <1>12, AttributesAre DEF IsCase
  <2>3. Checked(case.task.params, case.vars) /\ DocChecked(case.task.params, case.vars, NoErrors)
    BY <2>1, <2>2, QueryUses DEF Asked
  <2>4. Fine("params")
    BY <1>2, <2>3
  <2> QED BY <1>12, <2>4, AttributesAre DEF Fine
<1>13. CASE case.task.type = "decodepk"
  <2>1. result \in RunDecodePK(case.task, case.inputs, case.vars) /\ result # Error
    BY <1>1, <1>4, <1>13, RunsAre
  <2>2. Checked(case.task.key, case.vars) /\ Checked(case.task.nonce, case.vars) /\ Checked(case.task.secret, case.vars)
    BY <2>1, KeyUses
  <2>3. Fine("key") /\ Fine("nonce") /\ Fine("secret")
    BY <1>2, <2>2 DEF Interpolates
  <2> QED BY <1>13, <2>3, AttributesAre DEF Fine
<1>14. CASE case.task.type = "http"
  <2>1. RequestIsAsked
    BY <1>1, <1>14 DEF TasksInv
  <2>2. /\ case.task.method.form # "expr" /\ case.task.allow.form # "expr" /\ case.task.headers.form # "expr"
        /\ Checked(case.task.url, case.vars)
        /\ Checked(case.task.requestData, case.vars) /\ DocChecked(case.task.requestData, case.vars, NoErrors)
    BY <2>1, RequestUses DEF RequestIsAsked
  <2>3. Fine("requestData")
    BY <1>2, <2>2
  <2>4. Fine("url")
    BY <1>2, <2>2 DEF Interpolates
  <2>5. Fine("method") /\ Fine("allow") /\ Fine("headers")
    BY <1>2, <2>2 DEF Interpolates, Checked
  <2>6. NoFaults
    BY <2>1 DEF RequestIsAsked, FailedInputs, NoFaults
  <2> QED BY <1>14, <2>3, <2>4, <2>5, <2>6, AttributesAre DEF Fine, NoFaults
<1> QED BY <1>1, <1>5, <1>6, <1>7, <1>8, <1>9, <1>10, <1>11, <1>12, <1>13, <1>14 DEF TaskTypes

\* A panic has one of the two known reasons.
LEMMA PanicIsKnown ==
  ASSUME TasksInv
  PROVE  PanicsAreKnown
<1> SUFFICES ASSUME result = Panic, case.task.type # "decodepk"
             PROVE  /\ case.task.type = "merge"
                    /\ \/ \E v \in Named("left") : IsNull(v)
                       \/ case.task.left.form = "json" /\ IsNull(case.task.left.doc)
                       \/ case.task.left.form = "blank" /\ IsNull(case.inputs[1])
  BY DEF PanicsAreKnown
<1>1. case \in Cases /\ IsCase(case) /\ case.task.type \in TaskTypes
  BY TasksAssumption DEF TasksInv, IsCase
<1>2. Panic # NotRun /\ Panic # Error /\ Panic # Rows /\ \A n : Panic # Str(Plain(n))
  BY DEF Panic, NotRun, Error, Rows, Str
<1>3. case.task.type \notin {"querydb", "http"}
  BY <1>2 DEF TasksInv, ResponseIsWhole
<1>4. Panic \in Run(case.task, case.inputs, case.vars)
  BY <1>2, <1>3 DEF TasksInv
<1>5. case.task.type \notin {"sum", "multiply", "lessthan", "length", "conditional", "memo"}
  <2>1. case.task.type # "sum"
    BY <1>2, <1>4, RunsAre, SumUses
  <2>2. case.task.type # "multiply"
    BY <1>2, <1>4, RunsAre, MultiplyUses
  <2>3. case.task.type # "lessthan"
    BY <1>2, <1>4, RunsAre, LessThanUses
  <2>4. case.task.type # "length"
    BY <1>2, <1>4, RunsAre, LengthUses
  <2>5. case.task.type # "conditional"
    BY <1>2, <1>4, RunsAre, ConditionalUses
  <2>6. case.task.type # "memo"
    BY <1>2, <1>4, RunsAre, MemoUses
  <2> QED BY <2>1, <2>2, <2>3, <2>4, <2>5, <2>6
<1>6. case.task.type = "merge"
  BY <1>1, <1>3, <1>5 DEF TaskTypes
<1>7. RunMerge(case.task, case.inputs, case.vars) = Panic
  BY <1>4, <1>6, RunsAre
<1>8. \/ case.task.left.form = "expr" /\ IsNull(Get(case.vars, case.task.left.path))
      \/ case.task.left.form = "json" /\ IsNull(case.task.left.doc)
      \/ case.task.left.form = "blank" /\ IsNull(case.inputs[1])
  BY <1>7, MergePanics
<1>9. case.task.left.form = "expr" => Named("left") = {Get(case.vars, case.task.left.path)}
  BY SMT DEF Named
<1> QED BY <1>6, <1>8, <1>9

\* A result is made of all that was given.
LEMMA Complete ==
  ASSUME TasksInv
  PROVE  ResultsAreComplete
<1>1. case \in Cases /\ IsCase(case) /\ case.task.type \in TaskTypes
  BY TasksAssumption DEF TasksInv, IsCase
<1>2. /\ case.inputs \in Seq(Range(case.inputs)) /\ \A k \in DOMAIN case.inputs : case.inputs[k].kind # "expr"
      /\ \A a \in AttributesOf(case.task.type) : IsText(case.task[a])
  BY <1>1 DEF IsCase
<1>3. case.task.type \notin {"querydb", "http"} =>
        result = NotRun \/ result \in Run(case.task, case.inputs, case.vars)
  BY DEF TasksInv
<1>4. SumCountsFaults
  <2> SUFFICES ASSUME case.task.type = "sum", result # NotRun, case.task.values.form = "blank"
               PROVE  SumCountsFaults
    BY DEF SumCountsFaults, Ran
  <2>1. PICK r, good, t, faults :
          /\ r = RunSum(case.task, case.inputs, case.vars) /\ good = FilterErrors(Slice(case.inputs))
          /\ t = case.task.allowedFaults /\ faults = Len(case.inputs) - Len(good)
    OBVIOUS
  <2>2. result = r
    BY <1>3, <2>1, RunsAre
  <2>3. t.form = "number" => t.n \in Int
    <3>1. IsText(t)
      BY <1>2, <2>1, AttributesAre
    <3> QED BY <3>1 DEF IsText
  <2>4. /\ r # Error => r.scaled = ScaledSum([k \in DOMAIN good |-> DecimalParam(good[k])]) /\ good # <<>>
        /\ (\A k \in DOMAIN good : DecimalParam(good[k]) # Bad) /\ good # <<>>
           /\ (t.form = "blank" \/ (t.form = "number" /\ t.x = 0 /\ faults <= t.n /\ t.n < IntLimit))
             => r # Error
        /\ t.form = "number" /\ faults > t.n => r = Error
    <3>1. PICK task, inputs, vars : task = case.task /\ inputs = case.inputs /\ vars = case.vars
      OBVIOUS
    <3>2. /\ task.values.form = "blank" /\ inputs \in Seq(Range(inputs))
          /\ task.allowedFaults.form = "number" => task.allowedFaults.n \in Int
          /\ good = FilterErrors(Slice(inputs)) /\ t = task.allowedFaults /\ r = RunSum(task, inputs, vars)
          /\ faults = Len(inputs) - Len(good)
      BY <1>2, <2>1, <2>3, <3>1
    <3> QED BY <3>2, SumIsComplete, SMTT(60)
  <2>5. r # Panic /\ (Succeeded <=> r # Error)
    <3>1. r # Error => r # Panic
      BY <2>1, SumUses
    <3> QED BY <2>2, <3>1, KindsDiffer DEF Succeeded
  <2> QED BY <2>1, <2>2, <2>4, <2>5 DEF SumCountsFaults
<1>5. MergeKeepsBothSides
  <2> SUFFICES ASSUME case.task.type = "merge", Succeeded, IsMap(case.task.left), IsMap(case.task.right)
               PROVE  MergeKeepsBothSides
    BY DEF MergeKeepsBothSides, Ran
  <2>1. PICK m, l, r : m = RunMerge(case.task, case.inputs, case.vars) /\ l = case.task.left.doc.m /\ r = case.task.right.doc.m
    OBVIOUS
  <2>2. result = m /\ m # Error /\ m # Panic
    BY <1>3, <2>1, RunsAre DEF Succeeded
  <2>3. /\ DOMAIN m.m = DOMAIN l \cup DOMAIN r
        /\ \A k \in DOMAIN r : m.m[k] = IF r[k].kind = "expr" THEN Get(case.vars, r[k].path) ELSE r[k]
        /\ \A k \in DOMAIN l \ DOMAIN r : m.m[k] = IF l[k].kind = "expr" THEN Get(case.vars, l[k].path) ELSE l[k]
    BY <2>1, <2>2, MergeKeeps
  <2> QED BY <2>1, <2>2, <2>3 DEF MergeKeepsBothSides
<1>6. KeyNeedsAllParams
  <2> SUFFICES ASSUME case.task.type = "decodepk", Succeeded PROVE KeyNeedsAllParams
    BY DEF KeyNeedsAllParams, Ran
  <2>1. result \in RunDecodePK(case.task, case.inputs, case.vars) /\ result # Error
    BY <1>3, RunsAre DEF Succeeded
  <2> QED BY <2>1, KeyUses DEF KeyNeedsAllParams
<1>7. QueryBindsEveryValue
  <2>1. PICK t, given : t = case.task.params /\ given = IF t.form = "blank" THEN case.inputs ELSE t.doc.e
    OBVIOUS
  <2> SUFFICES ASSUME bound # Nil, t.form = "blank" \/ IsSlice(t) PROVE QueryBindsEveryValue
    BY <2>1 DEF QueryBindsEveryValue
  <2>2. case.task.type = "querydb" /\ bound # Bad /\ bound = QueryParams(case.task, case.inputs, case.vars)
    BY DEF TasksInv, Asked
  <2>3. IsText(case.task.params)
    BY <1>2, <2>2, AttributesAre
  <2>4. /\ Len(bound.e) = Len(given)
        /\ \A k \in DOMAIN given :
             LET v == IF given[k].kind = "expr" THEN Get(case.vars, given[k].path) ELSE given[k]
             IN v # Error /\ bound.e[k] = Str(ConvertToString(v))
    <3>1. /\ IsText(case.task.params) /\ t = case.task.params /\ (t.form = "blank" \/ IsSlice(t))
          /\ given = IF t.form = "blank" THEN case.inputs ELSE t.doc.e
          /\ bound = QueryParams(case.task, case.inputs, case.vars) /\ bound # Bad
      BY <2>1, <2>2, <2>3
    <3>2. case.inputs \in Seq(Range(case.inputs)) /\ \A k \in DOMAIN case.inputs : case.inputs[k].kind # "expr"
      BY <1>2, <2>2
    <3> QED BY <3>1, <3>2, QueryBinds, SMTT(60)
  <2> QED BY <2>1, <2>4 DEF QueryBindsEveryValue
<1> QED BY <1>4, <1>5, <1>6, <1>7 DEF ResultsAreComplete

\* Requests and responses are whole.
LEMMA ExchangesWhole ==
  ASSUME TasksInv
  PROVE  ExchangesAreWhole
<1>1. OnlyWholeResponses
  <2> SUFFICES ASSUME case.task.type = "http", result.kind = "string" PROVE ResponseIsWhole
    BY DEF OnlyWholeResponses, ResponseIsWhole
  <2>1. result \notin {NotRun, Error}
    BY KindsDiffer
  <2> QED BY <2>1 DEF TasksInv
<1>2. RequestsAreComplete
  <2> SUFFICES ASSUME request # None PROVE RequestsAreComplete
    BY DEF RequestsAreComplete
  <2>1. RequestIsAsked
    BY DEF TasksInv
  <2>2. /\ RequestParams.url.text.form = "url" /\ RequestParams.body.kind \in {"nil", "map"}
        /\ case.task.requestData.form \in {"blank", "json", "expr"}
        /\ Len(Elements(RequestParams.headers)) % 2 = 0
    BY <2>1, RequestUses DEF RequestIsAsked
  <2> QED BY <2>1, <2>2 DEF RequestsAreComplete, RequestIsAsked
<1> QED BY <1>1, <1>2 DEF ExchangesAreWhole

\* Whatever the tasks, inputs and variables are, no task computes with what an earlier
\* one failed with (common.go:271-290, getters.go:62-110).
THEOREM ErrorsAreNeverUsed == HTTPSpec => []ErrorsAreNotUsed
BY TasksInvHolds, NotUsed, PTL

\* Whatever the tasks, inputs and variables are, a task panics in the two known cases
\* only (task.merge.go:47, task.decode.pk.go:77, task.multiply.go:49-52).
THEOREM PanicsAreAlwaysKnown == HTTPSpec => []PanicsAreKnown
BY TasksInvHolds, PanicIsKnown, PTL

\* Whatever the tasks, inputs and variables are, nothing a task was given is missing
\* from its result: Sum, Merge, DecodePK and QueryDB (task.sum.go:27-66,
\* task.merge.go:26-51, task.decode.pk.go:29-85, task.query.db.go:23-58).
THEOREM ResultsAreAlwaysComplete == HTTPSpec => []ResultsAreComplete
BY TasksInvHolds, Complete, PTL

\* Whatever the server does, and whatever the limits are, a response is whole or an
\* error, and a request that goes out has a URL, paired headers and its body
\* (common_http.go:25-67, http.go:58-79, task.http.go:52-126).
THEOREM ExchangesAreAlwaysWhole == HTTPSpec => []ExchangesAreWhole
BY TasksInvHolds, ExchangesWhole, PTL
=============================================================================
