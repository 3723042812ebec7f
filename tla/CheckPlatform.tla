--------------------------- MODULE CheckPlatform ---------------------------
(***************************************************************************)
(* checkPlatform and checkList of                                          *)
(* src/config/package-is-installable/src/checkPlatform.ts: whether a       *)
(* package's os/cpu/libc fields admit the platforms pnpm installs for      *)
(* (process.platform/arch and the detected libc, or the lists of           *)
(* supportedArchitectures with 'current' standing for them).              *)
(*                                                                         *)
(* Both are pure.  The module is a sequence of calls: each step takes one  *)
(* input from a bounded set and records the value returned, and the        *)
(* invariants compare it with a reference definition of what the lists    *)
(* mean (npm's os/cpu semantics).  A list element '!x' is a record with    *)
(* neg = TRUE; a string field is the one-element list it is turned into.  *)
(***************************************************************************)
EXTENDS Naturals, Sequences

CONSTANTS
  Undefined,    \* an absent field (a model value)
  Names,        \* platform, cpu and libc names that lists may mention
  ListInputs,   \* <<values, list>> pairs given to checkList
  PlatformInputs \* [wanted, supported, env] given to checkPlatform

Any == "any"
Current == "current"

VARIABLES
  call,   \* the last input
  out     \* what it returned (TRUE/FALSE for checkList, "ok"/"error")

vars == <<call, out>>

(***************************************************************************)
(* The code                                                                *)
(***************************************************************************)
\* The nested loops over values and list elements, in order: a negated
\* element naming the value returns false at once and counts into blc
\* otherwise; a plain element sets match when it names the value.
RECURSIVE Scan(_, _, _, _, _, _)
Scan(values, list, i, j, match, blc) ==
  IF i > Len(values) THEN match \/ blc = Len(list)
  ELSE IF j > Len(list) THEN Scan(values, list, i + 1, 1, match, blc)
  ELSE LET e == list[j] IN
       IF e.neg
         THEN IF e.name = values[i] THEN FALSE
              ELSE Scan(values, list, i, j + 1, match, blc + 1)
         ELSE Scan(values, list, i, j + 1, match \/ e.name = values[i], blc)

\* mutant: the `any` test checks the first element only
checkListAnyFirst(values, list) ==
  IF Len(list) >= 1 /\ list[1] = [neg |-> FALSE, name |-> Any] THEN TRUE
  ELSE Scan(values, list, 1, 1, FALSE, 0)

\* mutant: only the first supported value is looked at
checkListFirstValue(values, list) ==
  IF list = <<[neg |-> FALSE, name |-> Any]>> THEN TRUE
  ELSE Scan(<<values[1]>>, list, 1, 1, FALSE, 0)

\* checkList(value, list): ['any'] admits everything
checkList(values, list) ==
  IF list = <<[neg |-> FALSE, name |-> Any]>> THEN TRUE
  ELSE Scan(values, list, 1, 1, FALSE, 0)

\* dedupeCurrent: 'current' in a supported list stands for the running one
dedupeCurrent(current, supported) ==
  [i \in DOMAIN supported |->
     IF supported[i] = Current THEN current ELSE supported[i]]

\* supportedArchitectures?.x ?? ['current']
SupportedOr(s, f) == IF s = Undefined THEN <<Current>> ELSE s[f]

\* mutant: a libc requirement checked although the libc is unknown
checkPlatformLibcUnknown(wanted, supported, env) ==
  LET cur(f) == dedupeCurrent(env[f], SupportedOr(supported, f))
      ok(f) == wanted[f] = Undefined \/ checkList(cur(f), wanted[f])
  IN IF ok("os") /\ ok("cpu") /\ ok("libc") THEN "ok" ELSE "error"

\* checkPlatform: each wanted field present is checked against the current
\* values; libc only when detect-libc found a family
checkPlatform(wanted, supported, env) ==
  LET cur(f) == dedupeCurrent(env[f], SupportedOr(supported, f))
      ok(f) == wanted[f] = Undefined \/ checkList(cur(f), wanted[f])
      libcOk == wanted.libc = Undefined \/ env.libc = "unknown"
                \/ checkList(cur("libc"), wanted.libc)
  IN IF ok("os") /\ ok("cpu") /\ libcOk THEN "ok" ELSE "error"

(***************************************************************************)
(* Calls                                                                   *)
(***************************************************************************)
CallCheckList ==
  \E in \in ListInputs :
    /\ call' = [kind |-> "list", in |-> in]
    /\ out' = checkList(in[1], in[2])

CallCheckPlatform ==
  \E in \in PlatformInputs :
    /\ call' = [kind |-> "platform", in |-> in]
    /\ out' = checkPlatform(in.wanted, in.supported, in.env)

Init == call = [kind |-> "none"] /\ out = "none"

Next == CallCheckList \/ CallCheckPlatform

Spec == Init /\ [][Next]_vars

(***************************************************************************)
(* Reference: what an os/cpu/libc list means                               *)
(***************************************************************************)
Negated(list) == {list[j].name : j \in {k \in DOMAIN list : list[k].neg}}
Allowed(list) == {list[j].name : j \in {k \in DOMAIN list : ~list[k].neg}}

\* npm: 'any' alone admits all; a value named by '!x' is refused; else
\* it is admitted when named, or when the list names nothing positively
Admits(v, list) ==
  \/ list = <<[neg |-> FALSE, name |-> Any]>>
  \/ /\ v \notin Negated(list)
     /\ v \in Allowed(list) \/ Allowed(list) = {}

ValuesOf(s) == {s[i] : i \in DOMAIN s}

(***************************************************************************)
(* Properties                                                              *)
(***************************************************************************)
\* For a single current value (no supportedArchitectures), checkList's
\* loop with its early return and its counter of negations agrees with
\* the meaning of the list: ['any'] alone admits all, '!x' refuses x,
\* a list of negations only admits the rest.
CheckListMatchesNpm ==
  call.kind = "list" /\ Len(call.in[1]) = 1 =>
    out = Admits(call.in[1][1], call.in[2])

\* With several supported values and a list without negations, the
\* package is admitted when the list admits one of them (install for any
\* of the supported architectures).
PositiveListAdmitsAnySupported ==
  call.kind = "list" /\ Negated(call.in[2]) = {} =>
    out = \E v \in ValuesOf(call.in[1]) : Admits(v, call.in[2])

\* A list made only of negations admits supported values it does not
\* name: with supportedArchitectures.os = ['linux', 'darwin'], a package
\* with os: ['!win32'] is installable.
NegationListAdmitsUnnamed ==
  call.kind = "list" /\ Allowed(call.in[2]) = {}
  /\ ValuesOf(call.in[1]) \cap Negated(call.in[2]) = {} =>
    out = TRUE

\* Without supportedArchitectures, checkPlatform refuses a package exactly
\* when one of its os/cpu/libc fields does not admit the running
\* platform, a libc field counting only when the libc family is known.
PlatformMatchesNpm ==
  call.kind = "platform" /\ call.in.supported = Undefined =>
    LET w == call.in.wanted
        e == call.in.env
        adm(f) == w[f] = Undefined \/ Admits(e[f], w[f])
    IN (out = "ok") <=>
         adm("os") /\ adm("cpu") /\ (e.libc = "unknown" \/ adm("libc"))

=============================================================================
