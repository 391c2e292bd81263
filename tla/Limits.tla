------------------------------- MODULE Limits -------------------------------
(***************************************************************************)
(* What a limit, a request's context, a counter and a counter's storage    *)
(* key are (limitador/src/limit.rs, limit/cel.rs, counter.rs and           *)
(* storage/keys.rs), as operators on records.                              *)
(*                                                                         *)
(* A CEL expression is cut down to the two shapes that the code tells      *)
(* apart: a variable ("app_id", path "") and a field of one                *)
(* ("descriptors[0].app_id", path "app_id").  A predicate compares such an *)
(* expression with a constant, or is the bare expression (want "").  A     *)
(* limit's conditions and variables are sequences in the order of their    *)
(* sources, which is the order of the code's BTreeSets.  The name of a     *)
(* limit travels with its max_value, and is folded into it.                *)
(***************************************************************************)
EXTENDS Naturals, Sequences, FiniteSets, SequencesExt

None == "None"
Error == "Error"
Panic == "Panic"

-----------------------------------------------------------------------------
(* Contexts and CEL.  A context holds the names has_variables looks at and *)
(* the bindings CEL resolves; a binding is a scalar or a map of scalars.   *)

Scalar(v) == [kind |-> "scalar", val |-> v]
Map(f) == [kind |-> "map", fields |-> f]

(* Context::default and list_binding: one list of maps, under one name;    *)
(* of the list only its first map is kept.                                 *)
ListBinding(name, fields) ==
    [variables |-> {name}, bound |-> (name :> Map(fields))]

(* Context::for_limit: "limit" is bound, but is not one of the variables.  *)
ForLimit(ctx, l) ==
    [ctx EXCEPT !.bound = ("limit" :> Map("id" :> l.id)) @@ @]

(* Value::resolve of the cel crate, as Expression::resolve uses it: an     *)
(* unbound variable is an error, a missing key is reported as such.        *)
Resolve(e, ctx) ==
    IF e.root \notin DOMAIN ctx.bound THEN [kind |-> "error"]
    ELSE LET v == ctx.bound[e.root]
         IN  IF e.path = "" THEN v
             ELSE IF v.kind # "map" THEN [kind |-> "error"]
             ELSE IF e.path \notin DOMAIN v.fields THEN [kind |-> "nokey"]
             ELSE Scalar(v.fields[e.path])

(* Expression::eval: a scalar's text, None for a missing key, an error for *)
(* a map and for a failed resolution (err_on_value).                       *)
Eval(e, ctx) ==
    LET v == Resolve(e, ctx)
    IN  CASE v.kind = "scalar" -> v.val
          [] v.kind = "nokey"  -> None
          [] OTHER             -> Error

(* Predicate::test: false without its variables or their keys, an error    *)
(* when the value is no Boolean.                                           *)
Test(p, ctx) ==
    IF ~({p.root} \ {"limit"} \subseteq ctx.variables) THEN "false"
    ELSE LET v == Resolve(p, ctx)
         IN  CASE v.kind = "nokey" -> "false"
               [] v.kind = "error" \/ p.want = "" -> Error
               [] OTHER -> IF v = Scalar(p.want) THEN "true" ELSE "false"

-----------------------------------------------------------------------------
(* Limits and counters.                                                    *)

(* Limit's PartialEq, Ord and Hash: not its id, max_value and name.        *)
Identity(l) == <<l.namespace, l.seconds, l.conditions, l.variables>>
SameLimit(l, m) == Identity(l) = Identity(m)

(* Expression::source and references, the latter of the cel crate.         *)
Source(e) == IF e.path = "" THEN <<e.root>> ELSE <<e.root, e.path>>
References(e) == {<<e.root>>}

(* Limit::has_variable                                                     *)
HasVariable(l, source) ==
    \E i \in DOMAIN l.variables : source \in References(l.variables[i])

(* Limit::applies: the first condition that is not true decides, and one   *)
(* that fails to evaluate panics (unwrap).                                 *)
Applies(l, ctx) ==
    LET inner == ForLimit(ctx, l)
        tests == [i \in DOMAIN l.conditions |-> Test(l.conditions[i], inner)]
        first == SelectInSeq(tests, LAMBDA t : t # "true")
        set == \A i \in DOMAIN l.variables :
                   l.variables[i].root \in ctx.variables
    IN  CASE first # 0 -> IF tests[first] = Error THEN Panic ELSE "false"
          [] OTHER     -> IF set THEN "true" ELSE "false"

(* Limit::resolve_variables: the first variable without a value decides.   *)
ResolveVariables(l, ctx) ==
    LET values == [i \in DOMAIN l.variables |-> Eval(l.variables[i], ctx)]
        first == SelectInSeq(values, LAMBDA v : v \in {None, Error})
    IN  IF first # 0 THEN [is |-> values[first], vars |-> {}]
        ELSE [is |-> "Some",
              vars |-> {<<Source(l.variables[i]), values[i]>> :
                             i \in DOMAIN l.variables}]

(* Counter::new of a limit that applies: None, an error or a counter.      *)
CounterNew(l, ctx) ==
    LET resolved == ResolveVariables(l, ctx)
    IN  [is |-> resolved.is, counter |-> [limit |-> l, vars |-> resolved.vars]]

(* Counter's PartialEq and Hash, as the set of what they compare.          *)
CounterEq(c) == <<Identity(c.limit), c.vars>>

(* Counter::update_to_limit, of a counter whose limit is the given one.    *)
UpdateToLimit(c, l) == IF SameLimit(c.limit, l) THEN [c EXCEPT !.limit = l]
                       ELSE c

-----------------------------------------------------------------------------
(* Storage keys.                                                           *)

(* key_for_counter_v2: an id stands for the limit when there is one.       *)
KeyForCounterV2(c) ==
    IF c.limit.id = None
    THEN <<"v1", c.limit.namespace, c.limit.seconds, c.limit.conditions, c.vars>>
    ELSE <<"v2", c.limit.id, c.vars>>

(* key_for_counter of Redis: the text encoding, unless there is an id.     *)
KeyForCounter(c) ==
    IF c.limit.id = None THEN <<"text", Identity(c.limit), c.vars>>
    ELSE KeyForCounterV2(c)


(* The disk storage's key_for_counter.                                     *)
KeyForDisk(c) ==
    <<c.limit.namespace, c.limit.seconds, c.limit.conditions, c.vars>>

(* key_for_counters_of_limit                                               *)
KeyForCountersOfLimit(l) ==
    IF l.id = None THEN <<"text", Identity(l)>> ELSE <<"v2", l.id>>

(* Counter::resolved_vars: a variable is kept when its source is the name  *)
(* of a variable that some expression of the limit refers to.              *)
ResolvedVars(l, vars) ==
    [limit |-> l, vars |-> {v \in vars : HasVariable(l, v[1])}]

(* The variables of a rebuilt limit, in the order of their sources, which  *)
(* the limit behind the key supplies here.                                 *)
Rebuilt(id, ns, seconds, conditions, order, vars) ==
    [id |-> id, namespace |-> ns, seconds |-> seconds, max |-> 0,
     conditions |-> conditions,
     variables |-> SelectSeq(order, LAMBDA e : \E v \in vars : v[1] = Source(e))]

(* partial_counter_from_counter_key_v2, and the disk storage's decoder.    *)
PartialFromV2(k, order) ==
    IF k[1] = "v1"
    THEN ResolvedVars(Rebuilt(None, k[2], k[3], k[4], order, k[5]), k[5])
    ELSE ResolvedVars(Rebuilt(k[2], "", 0, <<>>, order, k[3]), k[3])
PartialFromDisk(k, order) ==
    ResolvedVars(Rebuilt(None, k[1], k[2], k[3], order, k[4]), k[4])

(* partial_counter_from_counter_key: the text encoding is read back whole. *)
PartialFromKey(k, order) ==
    IF k[1] = "text"
    THEN [limit |-> [id |-> None, namespace |-> k[2][1], seconds |-> k[2][2],
                     max |-> 0, conditions |-> k[2][3], variables |-> k[2][4]],
          vars |-> k[3]]
    ELSE PartialFromV2(k, order)

(* counter_from_counter_key: panics when the key's limit is not the given. *)
CounterFromKey(k, l) == UpdateToLimit(PartialFromKey(k, l.variables), l)
=============================================================================
