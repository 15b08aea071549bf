------------------------------- MODULE MCTasks -------------------------------
(****************************************************************************)
(* What tasks compute, on small inputs: a behaviour runs one task, or       *)
(* unmarshals one parameter, or one integer.  The three share no state, so  *)
(* one run of TLC takes them side by side; two of them stand still.         *)
(****************************************************************************)
EXTENDS HTTPTask, ParamTypes, IntegerParams, TLC

VARIABLE subject  \* what the behaviour is about

tasksVars == <<subject, httpVars, typeVars, integerVars>>

TaskIdle == case = [task |-> [type |-> "none"], inputs |-> <<>>, vars |-> <<>>] /\ result = NotRun /\ bound = Nil
            /\ phase = "none" /\ request = None /\ answer = NoAnswer /\ retryable = FALSE /\ attempts = 0
TypeIdle == value = Nil /\ type = "none" /\ param = Nil
IntegerIdle == number = [kind |-> "nil", text |-> "", h |-> 0] /\ to = "none" /\ out = Unset

Init ==
  \/ subject = "task" /\ HTTPInit /\ TypeIdle /\ IntegerIdle
  \/ subject = "parameter" /\ TypeInit /\ TaskIdle /\ IntegerIdle
  \/ subject = "integer" /\ IntegerInit /\ TaskIdle /\ TypeIdle

Next ==
  \/ subject = "task" /\ HTTPNext /\ UNCHANGED <<subject, typeVars, integerVars>>
  \/ subject = "parameter" /\ TypeNext /\ UNCHANGED <<subject, httpVars, integerVars>>
  \/ subject = "integer" /\ IntegerNext /\ UNCHANGED <<subject, httpVars, typeVars>>

Spec == Init /\ [][Next]_tasksVars

-----------------------------------------------------------------------------
(* Tasks: a handful of attributes, inputs and variables for every type. *)

URL == [form |-> "url", chars |-> 20]
Integer(n) == Num("int64", n, 0)
Vars == [x |-> Integer(2), err |-> Error, yes |-> Bool(TRUE), null |-> Nil, nulltext |-> Str(JSON(Nil)),
         map |-> Map([a |-> Integer(1), b |-> Nil]), list |-> Slice(<<Integer(1), Integer(4)>>),
         hex |-> Str(Hex(3)), nonce |-> Str(Hex(12)), object |-> Object(Map([a |-> Integer(1)]))]
Paths == {<<"x">>, <<"err">>, <<"gone">>, <<"null">>, <<"nulltext">>, <<"yes">>, <<"hex">>, <<"nonce">>, <<"object">>,
          <<"map">>, <<"map", "a">>, <<"list">>, <<"list", "1">>, <<"list", "a">>}
Exprs == {Expr(p) : p \in Paths}
Attribute == {Blank, Plain(16), Hex(3), NumberText(3, 0), NumberText(5, -1), BoolText(TRUE), JSON(Nil), JSON(Map([a |-> ExprIn(<<"gone">>)]))} \cup Exprs
Leaves == {Integer(7), Nil} \cup {ExprIn(p) : p \in {<<"x">>, <<"err">>, <<"gone">>, <<"map", "a">>}}
Maps == {Map(<<>>)} \cup {Map([a |-> v]) : v \in Leaves} \cup {Map([a |-> v, c |-> Integer(8)]) : v \in Leaves}
Lists == {Slice(<<>>)} \cup {Slice(<<v>>) : v \in Leaves} \cup {Slice(<<Integer(7), v>>) : v \in Leaves}

InputValues == {Error, Nil, Integer(3), Num("decimal", 15, -1), Bool(TRUE), Str(Hex(12)), Map([a |-> Nil]), Str(JSON(Nil)),
                Object(Num("decimal", 2, 0))}
NoneOrOne == {<<>>} \cup {<<v>> : v \in InputValues}
UpToTwo == NoneOrOne \cup {<<v, w>> : v \in InputValues, w \in {Error, Integer(3)}}
Three == {<<v, w, u>> : v \in {Error, Integer(3)}, w \in {Error, Integer(4)}, u \in {Error, Str(NumberText(5, 0))}}

With(tasks, inputs) == {[task |-> t, inputs |-> i, vars |-> Vars] : t \in tasks, i \in inputs}
Sums == With({[type |-> "sum", values |-> v, allowedFaults |-> a] :
                 v \in {Blank, Expr(<<"list">>), Expr(<<"err">>)} \cup {JSON(d) : d \in Lists},
                 a \in {Blank, NumberText(0, 0), NumberText(1, 0), NumberText(7, 0), NumberText(9, 0), NumberText(5, -1), Plain(1)}},
             UpToTwo \cup Three)
Huge == {Num("decimal", 1, x) : x \in -3..2}
Products == {[task |-> [type |-> "multiply", input |-> Blank, times |-> Expr(<<"big">>)],
              inputs |-> <<a>>, vars |-> [big |-> b]] : a, b \in Huge}
            \cup With({[type |-> "multiply", input |-> a, times |-> b] : a, b \in Attribute}, {<<>>, <<Integer(3)>>, <<Error>>})
Comparisons == With({[type |-> "lessthan", left |-> a, right |-> b] : a, b \in Attribute}, {<<>>, <<Integer(3)>>, <<Error>>})
Lengths == With({[type |-> "length", input |-> a] : a \in Attribute}, UpToTwo)
Conditions == With({[type |-> "conditional", data |-> a] : a \in Attribute}, UpToTwo)
Memos == With({[type |-> "memo", value |-> a] : a \in Attribute \cup {JSON(d) : d \in Maps \cup Lists}}, UpToTwo)
Merges == With({[type |-> "merge", left |-> a, right |-> b] : a, b \in Exprs \cup {JSON(d) : d \in Maps} \cup {Blank, JSON(Nil)}},
               {<<>>, <<Error>>, <<Nil>>, <<Str(JSON(Nil))>>, <<Map([z |-> Nil])>>})
Queries == With({[type |-> "querydb", params |-> a] : a \in {Blank, Plain(3), Expr(<<"list">>), Expr(<<"err">>), JSON(Nil)} \cup {JSON(d) : d \in Lists}},
                UpToTwo \cup Three)
Decodings == With({[type |-> "decodepk", key |-> a, nonce |-> b, secret |-> c] :
                     a, b \in {Blank, Plain(16), Expr(<<"hex">>), Expr(<<"nonce">>), Expr(<<"err">>)},
                     c \in {Blank, Plain(16), Plain(20), Expr(<<"err">>)}},
                  NoneOrOne)

\* Requests, attempted three times at most.
RequestVars == [url |-> Str(URL), n |-> Integer(2), err |-> Error, body |-> Map([a |-> Nil]),
                channel |-> Map([a |-> [kind |-> "unencodable"]])]
Header == Str(Plain(4))
Requests ==
  {[task |-> [type |-> "http", method |-> m, url |-> u, requestData |-> d, allow |-> a, headers |-> h],
    inputs |-> i, vars |-> RequestVars, retries |-> 2] :
     m \in {Blank, Plain(4), JSON(Nil)}, u \in {URL, Plain(3), Expr(<<"url">>), Expr(<<"n">>)},
     d \in {Blank, JSON(Map([a |-> ExprIn(<<"n">>)])), JSON(Map([a |-> ExprIn(<<"err">>)])), Expr(<<"body">>), Expr(<<"channel">>),
            JSON(Slice(<<>>))},
     a \in {Blank, BoolText(TRUE), Plain(1)},
     h \in {Blank, JSON(Slice(<<Header>>)), JSON(Slice(<<Header, Header>>))},
     i \in {<<>>, <<Error>>}}

AllCases == Sums \cup Products \cup Comparisons \cup Lengths \cup Conditions \cup Memos
            \cup Merges \cup Queries \cup Decodings \cup Requests

Statuses4 == {200, 302, 404, 500}

-----------------------------------------------------------------------------
(* Parameters: values of every kind, alone and as elements of slices. *)

Texts == {Blank, Plain(20), Plain(32), Hex(20), Hex(32), Hex(3), Hex(9), NumberText(1, 0), NumberText(7, -1),
          BoolText(TRUE), URL,
          PathText(("," :> <<Str(Plain(2)), Str(Plain(2))>>) @@ (";" :> <<Str(Plain(5))>>))}
Scalars == {Nil, Error, Bool(TRUE), Bool(FALSE), [kind |-> "address"], [kind |-> "hash"]}
           \cup {Num(k, n, 0) : k \in Numbers, n \in {0, 1, 5}}
           \cup {Str(t) : t \in Texts} \cup {Bytes(t) : t \in Texts}
Documents == {Nil, Map([a |-> Num("float64", 1, 0)]), Slice(<<>>)}
             \cup {Slice(<<x>>) : x \in {Str(Hex(20)), Str(Hex(32)), Str(Hex(9)), Str(Plain(20)), Num("float64", 5, 0), Nil}}
Objects == {Object(v) : v \in {Nil, Bool(TRUE), Num("decimal", 5, 0), Str(Hex(3)), Map([a |-> Nil]), Slice(<<Nil>>)}}
Elementary == Scalars \cup Objects \cup {Map([a |-> Nil])}
Slices == {Slice(<<>>)} \cup {Slice(<<x>>) : x \in Elementary} \cup {Slice(<<y, x>>) : x \in Elementary, y \in {Num("decimal", 3, 0), Str(Hex(20))}}
AllParams == Elementary \cup Slices \cup {Str(JSON(d)) : d \in Documents} \cup {Bytes(JSON(d)) : d \in Documents}

-----------------------------------------------------------------------------
(* Integers: every number of scaled-down types, and what is no number. *)

Of(k, text, numbers) == {[kind |-> k, text |-> text, h |-> h] : h \in numbers}
Wholes(a, b) == {2 * n : n \in a..b}

\* A float64 has a significand of 5 bits: beyond 2^5 only multiples of two and of
\* four; fractions below 2^4 only.
Significand == 5
Floats == ((-2^Significand)..(2^Significand))
          \cup Wholes(-(2^Significand), 2^Significand)
          \cup {h \in Wholes(-MaxUintAsFloat - 8, MaxUintAsFloat + 8) : h % 8 = 0}

Integers8 == Of("uint8", "", Wholes(0, MaxUint(Limit8))) \cup Of("int8", "", Wholes(MinInt(Limit8), MaxInt(Limit8)))
Integers16 == Of("uint16", "", Wholes(0, MaxUint(Limit16))) \cup Of("int16", "", Wholes(MinInt(Limit16), MaxInt(Limit16)))
Integers32 == Of("uint32", "", Wholes(0, MaxUint(Limit32))) \cup Of("int32", "", Wholes(MinInt(Limit32), MaxInt(Limit32)))
Integers64 == UNION {Of(k, "", Wholes(0, MaxUint(Limit64))) : k \in {"uint", "uint64"}}
              \cup UNION {Of(k, "", Wholes(MinInt(Limit64), MaxInt(Limit64))) : k \in {"int", "int64"}}
Wide == (2 * MinInt(Limit64) - 5)..(2 * MaxUint(Limit64) + 5)
NoIntegers == UNION {Of(k, "", Wide) : k \in Decimals} \cup Of("*big.Int", "", {h \in Wide : h % 2 = 0})
              \cup Of("string", "digits", Wide) \cup Of("string", "blank", {0}) \cup Of("string", "words", {0})
              \cup Of("nil", "", {0}) \cup Of("bool", "", {0})

AllValues == Integers8 \cup Integers16 \cup Integers32 \cup Integers64 \cup NoIntegers \cup Of("float64", "", Floats)
=============================================================================
