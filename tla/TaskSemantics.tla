---------------------------- MODULE TaskSemantics ----------------------------
(****************************************************************************)
(* What the tasks compute: Run of the task types that need no network, from *)
(* the attributes of the task, the results of its inputs and the variables. *)
(* HTTPTask adds the remaining type.                                        *)
(*                                                                          *)
(* A result is a value, an error, or the panic of the goroutine.  Run gives *)
(* the set of possible results: the database and the cipher are external.   *)
(****************************************************************************)
EXTENDS TaskParams

CONSTANTS
  IntLimit,  \* 2^63: one more than an int holds
  MaxExp,    \* the largest exponent of a decimal, math.MaxInt32
  Cases      \* records of a task, its inputs and the variables

AttributesOf(type) ==
  CASE type = "sum" -> {"values", "allowedFaults"}
    [] type = "multiply" -> {"input", "times"}
    [] type = "lessthan" -> {"left", "right"}
    [] type = "length" -> {"input"}
    [] type = "conditional" -> {"data"}
    [] type = "memo" -> {"value"}
    [] type = "merge" -> {"left", "right"}
    [] type = "querydb" -> {"params"}
    [] type = "decodepk" -> {"key", "nonce", "secret"}
    [] type = "http" -> {"method", "url", "requestData", "allow", "headers"}

TaskTypes == {"sum", "multiply", "lessthan", "length", "conditional", "memo", "merge", "querydb", "decodepk", "http"}

\* Expressions are in the documents of texts, never in what a task has left.
IsText(t) ==
  /\ t.form = "json" => t.doc.kind # "expr" /\ (t.doc.kind = "slice" => t.doc.e \in Seq(Range(t.doc.e)))
  /\ t.form = "number" => t.n \in Int
IsCase(c) ==
  /\ c.task.type \in TaskTypes /\ DOMAIN c.task = AttributesOf(c.task.type) \cup {"type"}
  /\ \A a \in AttributesOf(c.task.type) : IsText(c.task[a])
  /\ c.inputs \in Seq(Range(c.inputs)) /\ \A k \in DOMAIN c.inputs : c.inputs[k].kind # "expr"

ASSUME TasksAssumption == IntLimit \in Nat \ {0} /\ MaxExp \in Nat /\ \A c \in Cases : IsCase(c)

VARIABLES
  case,    \* what is run
  result,  \* the result of the task
  bound    \* the parameters the database was given

taskVars == <<case, result, bound>>

NotRun == [kind |-> "none"]
Panic == [kind |-> "panic"]
Rows == [kind |-> "rows", e |-> <<>>]
Key == [kind |-> "key"]

\* CheckInputs(inputs, min, max, maxErrors) of the tasks that take at most one
\* input: 0, 1, 0.
CheckInputsAny(inputs) == Len(inputs) <= 1  \* mutant: errors are not counted
CheckInputs(inputs) == Len(inputs) <= 1 /\ \A k \in DOMAIN inputs : inputs[k] # Error

Resolved(vs) == \A k \in DOMAIN vs : vs[k] # Bad

-----------------------------------------------------------------------------
(* Sum *)

\* The attribute is not a variable expression here: blank, or digits.
AllowedFaults(t) ==
  CASE t.form = "blank" -> Nil
    [] t.form = "number" /\ t.x = 0 /\ 0 <= t.n /\ t.n < 2 * IntLimit -> Num("uint64", t.n, 0)
    [] OTHER -> Bad

AsInt(n) == IF n < IntLimit THEN n ELSE n - 2 * IntLimit

\* Decimals on a common scale.
Scaled(d) == d.n * 10^(d.x + MaxExp + 1)
ScaledSum(e) == FoldLeft(LAMBDA s, d : s + Scaled(d), 0, e)

TooManyFaultsMore(faults, allowed) == faults > allowed + 1  \* mutant: off by one
TooManyFaults(faults, allowed) == faults > allowed

RunSum(task, inputs, vars) ==
  LET allowed == AllowedFaults(task.allowedFaults)
      all == ResolveParam(SliceParam, <<VarExpr(task.values, vars), JSONWithVarExprs(task.values, vars, AllowErrors), Inputs(inputs)>>)
      values == FilterErrors(all)
      maxFaults == IF allowed = Nil THEN Len(Elements(all)) - 1 ELSE AsInt(allowed.n)
      decimals == DecimalSliceParam(Slice(values))
  IN IF \/ ~Resolved(<<allowed, all>>)
        \/ TooManyFaults(Len(Elements(all)) - Len(values), maxFaults)
        \/ values = <<>> \/ decimals = Bad
     THEN Error ELSE [kind |-> "sum", scaled |-> ScaledSum(decimals.e)]

(* Multiply *)

ExponentFits(x) == -MaxExp - 1 <= x /\ x <= MaxExp
OverflowsNever(a, b) == FALSE  \* mutant: the exponents are not checked
Overflows(a, b) == ~ExponentFits(a.x + b.x)

\* decimal.Mul panics when the exponent does not fit.
Mul(a, b) == IF ExponentFits(a.x + b.x) THEN Num("decimal", a.n * b.n, a.x + b.x) ELSE Panic

Operands(left, right, inputs, vars) ==
  <<ResolveParam(DecimalParam, <<VarExpr(left, vars), NonemptyString(left), Input(inputs, 1)>>),
    ResolveParam(DecimalParam, <<VarExpr(right, vars), NonemptyString(right)>>)>>

RunMultiply(task, inputs, vars) ==
  LET ab == Operands(task.input, task.times, inputs, vars)
  IN IF ~CheckInputs(inputs) \/ ~Resolved(ab) \/ Overflows(ab[1], ab[2]) THEN Error ELSE Mul(ab[1], ab[2])

(* LessThan, Length, Conditional, Memo *)

RunLessThan(task, inputs, vars) ==
  LET ab == Operands(task.left, task.right, inputs, vars)
  IN IF ~CheckInputs(inputs) \/ ~Resolved(ab) THEN Error ELSE Bool(Scaled(ab[1]) < Scaled(ab[2]))

RunLength(task, inputs, vars) ==
  LET input == ResolveParam(BytesParam, <<VarExpr(task.input, vars), NonemptyString(task.input), Input(inputs, 1)>>)
  IN IF ~CheckInputs(inputs) \/ input = Bad THEN Error ELSE Num("decimal", input.text.chars, 0)

RunConditional(task, inputs, vars) ==
  LET data == ResolveParam(BoolParam, <<VarExpr(task.data, vars), Input(inputs, 1), Found(Nil)>>)
  IN IF ~CheckInputs(inputs) \/ data = Bad \/ data = Bool(FALSE) THEN Error ELSE Bool(TRUE)

RunMemo(task, inputs, vars) ==
  LET value == ResolveParam(ObjectParam, <<JSONWithVarExprs(task.value, vars, NoErrors), Input(inputs, 1)>>)
  IN IF ~CheckInputs(inputs) \/ value = Bad THEN Error ELSE value

(* Merge *)

Clobber(l, r) == [k \in DOMAIN l \cup DOMAIN r |-> IF k \in DOMAIN r THEN r[k] ELSE l[k]]

MapOf(v) == IF v = Nil THEN <<>> ELSE v.m

\* An assignment to an entry of a nil map panics.
RunMerge(task, inputs, vars) ==
  LET l == ResolveParam(MapParam, <<VarExpr(task.left, vars), JSONWithVarExprs(task.left, vars, NoErrors), Input(inputs, 1)>>)
      r == ResolveParam(MapParam, <<VarExpr(task.right, vars), JSONWithVarExprs(task.right, vars, NoErrors)>>)
  IN IF ~CheckInputs(inputs) \/ ~Resolved(<<l, r>>) THEN Error
     ELSE IF l = Nil /\ DOMAIN MapOf(r) # {} THEN Panic
     ELSE Map(Clobber(MapOf(l), MapOf(r)))

(* QueryDB: the parameters that reach the database, or Bad. *)

QueryParams(task, inputs, vars) ==
  LET all == ResolveParam(SliceParam, <<VarExpr(task.params, vars), JSONWithVarExprs(task.params, vars, AllowErrors), Inputs(inputs)>>)
      values == FilterErrors(all)
  IN IF all = Bad \/ Len(values) < Len(Elements(all)) THEN Bad ELSE StringSliceParam(Slice(values))

(* DecodePK: the error of resolving the parameters is overwritten by that of   *)
(* decoding the key.                                                           *)

TextParam(getters) ==
  LET s == ResolveParam(StringParam, getters) IN IF s = Bad THEN Blank ELSE s.text

HexDecode(t) == t.form = "hex"

KeyLengths == {16, 24, 32}
NonceLength == 12

RunDecodePK(task, inputs, vars) ==
  LET key == TextParam(<<VarExpr(task.key, vars)>>)
      nonce == TextParam(<<VarExpr(task.nonce, vars), Input(inputs, 1)>>)
      secret == TextParam(<<VarExpr(task.secret, vars), NonemptyString(task.secret)>>)
  IN IF ~HexDecode(key) \/ ~HexDecode(nonce) \/ secret.chars \notin KeyLengths THEN {Error}
     ELSE IF nonce.chars # 2 + 2 * NonceLength THEN {Panic}
     ELSE {Error, Key}

Run(task, inputs, vars) ==
  CASE task.type = "sum" -> {RunSum(task, inputs, vars)}
    [] task.type = "multiply" -> {RunMultiply(task, inputs, vars)}
    [] task.type = "lessthan" -> {RunLessThan(task, inputs, vars)}
    [] task.type = "length" -> {RunLength(task, inputs, vars)}
    [] task.type = "conditional" -> {RunConditional(task, inputs, vars)}
    [] task.type = "memo" -> {RunMemo(task, inputs, vars)}
    [] task.type = "merge" -> {RunMerge(task, inputs, vars)}
    [] task.type = "decodepk" -> RunDecodePK(task, inputs, vars)

-----------------------------------------------------------------------------

TaskInit == case \in Cases /\ result = NotRun /\ bound = Nil

RunTask ==
  /\ result = NotRun /\ case.task.type \notin {"querydb", "http"}
  /\ result' \in Run(case.task, case.inputs, case.vars)
  /\ UNCHANGED <<case, bound>>

RunQueryDB ==
  /\ result = NotRun /\ case.task.type = "querydb"
  /\ LET params == QueryParams(case.task, case.inputs, case.vars)
     IN IF params = Bad THEN result' = Error /\ UNCHANGED bound
        ELSE result' \in {Error, Rows} /\ bound' = params
  /\ UNCHANGED case

TaskRan == result # NotRun /\ UNCHANGED taskVars

TaskNext == RunTask \/ RunQueryDB \/ TaskRan

TaskSpec == TaskInit /\ [][TaskNext]_taskVars

-----------------------------------------------------------------------------
(* Properties *)

Ran(type) == case.task.type = type /\ result # NotRun
Succeeded == result \notin {NotRun, Error, Panic}

\* The variables an attribute names.  Those of the documents of interpolated
\* attributes count; elsewhere a document is a text like any other.
Interpolates == {"values", "value", "left", "right", "params", "requestData"}
Named(a) ==
  LET t == case.task[a] IN
  CASE t.form = "expr" -> {Get(case.vars, t.path)}
    [] t.form = "json" /\ t.doc.kind \in {"map", "slice"} /\ a \in Interpolates ->
         {Get(case.vars, Parts(t.doc)[k].path) : k \in {k \in DOMAIN Parts(t.doc) : Parts(t.doc)[k].kind = "expr"}}
    [] OTHER -> {}

\* What an earlier task failed with, or has not left at all, is never computed
\* with: only Sum tolerates errors, and only those of values, while DecodePK and
\* QueryDB ignore inputs they do not need.  CheckInputs, the getters and the
\* filters see to it at different places (common.go:271-290, getters.go:62-110,
\* 151-156; task.query.db.go:33).
ErrorsAreNotUsed ==
  Succeeded =>
    /\ \A a \in AttributesOf(case.task.type) :
         Missing \notin Named(a) /\ (case.task.type # "sum" => Error \notin Named(a))
    /\ (\E k \in DOMAIN case.inputs : case.inputs[k] = Error) => case.task.type \in {"sum", "querydb", "decodepk"}

\* A sum is that of all values that are not faulty, and there is one exactly if
\* there are such values and the faults are within the bound; without a bound
\* one value is enough (task.sum.go:43-54).
SumCountsFaults ==
  Ran("sum") /\ case.task.values.form = "blank" =>
    LET good == FilterErrors(Slice(case.inputs))
        faults == Len(case.inputs) - Len(good)
        allowed == case.task.allowedFaults
    IN /\ Succeeded => result.scaled = ScaledSum([k \in DOMAIN good |-> DecimalParam(good[k])]) /\ good # <<>>
       /\ (\A k \in DOMAIN good : DecimalParam(good[k]) # Bad) /\ good # <<>>
          /\ \/ allowed.form = "blank"
             \/ allowed.form = "number" /\ allowed.x = 0 /\ faults <= allowed.n /\ allowed.n < IntLimit
            => Succeeded
       /\ allowed.form = "number" /\ faults > allowed.n => ~Succeeded

IsMap(t) == t.form = "json" /\ t.doc.kind = "map"
IsSlice(t) == t.form = "json" /\ t.doc.kind = "slice"

\* "clobber lMap with rMap values", "nil values on the right will clobber"
\* (task.merge.go:44): nothing of the right side is lost, and of the left side
\* only what the right side names.
MergeKeepsBothSides ==
  Ran("merge") /\ Succeeded /\ IsMap(case.task.left) /\ IsMap(case.task.right) =>
    LET l == case.task.left.doc.m
        r == case.task.right.doc.m
        Of(v) == IF v.kind = "expr" THEN Get(case.vars, v.path) ELSE v
    IN /\ DOMAIN result.m = DOMAIN l \cup DOMAIN r
       /\ \A k \in DOMAIN r : result.m[k] = Of(r[k])
       /\ \A k \in DOMAIN l \ DOMAIN r : result.m[k] = Of(l[k])

IsNull(v) == v = Nil \/ (v.kind \in {"string", "bytes"} /\ v.text.form = "json" /\ v.text.doc = Nil)

\* A task panics in two cases only: it merges into null, be it a value or a text,
\* or the nonce has not the length GCM wants (task.merge.go:47,
\* task.decode.pk.go:77); the check of the exponents keeps Multiply from it
\* (task.multiply.go:49-52).
PanicsAreKnown ==
  result = Panic =>
    \/ case.task.type = "merge" /\ \/ \E v \in Named("left") : IsNull(v)
                                   \/ case.task.left.form = "json" /\ IsNull(case.task.left.doc)
                                   \/ case.task.left.form = "blank" /\ IsNull(case.inputs[1])
    \/ case.task.type = "decodepk"

\* A key is decoded only if all three parameters were found, although the error
\* that says so is overwritten (task.decode.pk.go:35-40).
KeyNeedsAllParams ==
  Ran("decodepk") /\ Succeeded =>
    /\ case.task.key.form = "expr"
    /\ case.task.nonce.form = "expr" \/ (case.inputs # <<>> /\ case.inputs[1] # Error)
    /\ case.task.secret.form # "blank"

\* The database is asked with one parameter for every value, in their order, and
\* never with one made of an error (task.query.db.go:33-47, and the WithArgs of
\* task.query.db_test.go:141-149).
QueryBindsEveryValue ==
  LET t == case.task.params
      given == IF t.form = "blank" THEN case.inputs ELSE t.doc.e
      Of(v) == IF v.kind = "expr" THEN Get(case.vars, v.path) ELSE v
  IN bound # Nil /\ (t.form = "blank" \/ IsSlice(t)) =>
       /\ Len(bound.e) = Len(given)
       /\ \A k \in DOMAIN given : Of(given[k]) # Error /\ bound.e[k] = Str(ConvertToString(Of(given[k])))

\* What a task results in is made of everything it was given and of nothing else:
\* the values that are not faulty, both sides of a merge, all three parameters of
\* a key, every parameter of a query.
ResultsAreComplete == SumCountsFaults /\ MergeKeepsBothSides /\ KeyNeedsAllParams /\ QueryBindsEveryValue

-----------------------------------------------------------------------------
(* What the comments of the code say and the tasks do not keep *)

\* "interpolates all variables expressions found in jsExpr from Vars"
\* (getters.go:114): no result holds the object that stands for an expression.
MemoInterpolates ==
  Ran("memo") /\ case.task.value.form = "expr" /\ Succeeded => result # Object(Placeholder(case.task.value.path))

\* Run.StringOutputs for one output: the types it knows.
StringOutput(v) == v.kind \in {"string", "map", "decimal", "sum", "uint64", "int64", "float64", "nil"}

\* "The UI expects all outputs to be strings" (models.go:121): whatever a task
\* results in can be an output of the run.
OutputsHaveStrings == Succeeded => StringOutput(result)
=============================================================================
