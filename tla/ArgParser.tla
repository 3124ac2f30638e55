----------------------------- MODULE ArgParser -----------------------------
(***************************************************************************)
(* argparse::ArgParser and argparse::Argument: options are described by    *)
(* set_argument and the setters of the Argument it returns, then parse     *)
(* validates the command line as a whole and reads the values from it in a *)
(* second pass.                                                            *)
(*                                                                         *)
(* A word of the command line is a sequence of characters, of which only   *)
(* the dash, digits and names matter.  A name is its own hash.  Errors end *)
(* the program: code is the ArgErrCode it exits with.                      *)
(***************************************************************************)
EXTENDS Integers, SequencesExt

CONSTANTS Names,        \* pairs of a long and a short name given to set_argument
          Settings,     \* what the setters of an Argument are given
          Words,        \* words of a command line
          MaxArgs, MaxWords   \* bounds

VARIABLE parser
(* parser.mArgs, mFoundOpts, mValues  sequences with one entry per option  *)
(* parser.long, parser.short          mLongOptToIndices, mShortOptToIndices*)
(* parser.code                        "SUCCESS" or an error if parse was   *)
(*                                    the last call, or else ""            *)

NoName == ""
LEAST_ONE == 1000       \* ~(size_t)0: more than any number of words
Dash == "-"
Digits == {"1"}

Fresh == [mArgs |-> <<>>, long |-> <<>>, short |-> <<>>,
          mFoundOpts |-> <<>>, mValues |-> <<>>, code |-> ""]

Init == parser = Fresh

-----------------------------------------------------------------------------
(* Words *)

param_is_integral(w) ==
    \A i \in (IF w # <<>> /\ w[1] = Dash THEN 2 ELSE 1)..Len(w) : w[i] \in Digits

\* sscanf reads the word as one number.
param_is_real(w) == param_is_integral(w) /\ \E i \in 1..Len(w) : w[i] \in Digits

param_matches_type(w, type) ==
    CASE type = "STRING" -> TRUE
      [] type = "CHAR" -> Len(w) = 1
      [] type = "INTEGRAL" -> param_is_integral(w)
      [] type = "REAL" -> param_is_real(w)

parse_arg_type(w) ==
    CASE Len(w) >= 3 /\ w[1] = Dash /\ w[2] = Dash -> "LONG_ARG"
      [] Len(w) = 2 /\ w[1] = Dash -> "SHORT_ARG"
      [] Len(w) > 2 /\ w[1] = Dash /\ w[2] # Dash -> "SHORT_FLAGS"
      [] OTHER -> "PARAMETER"

LongName(w) == w[3]               \* names are one character here
Flags(w) == SubSeq(w, 2, Len(w))

-----------------------------------------------------------------------------
(* set_argument *)

Put(f, x, v) == [y \in DOMAIN f \cup {x} |-> IF y = x THEN v ELSE f[y]]

\* The option that set_argument finds under a long and a short name, or 0.  A
\* short name is looked up only if there is no long one.
Known(p, l, s) ==
    IF l # NoName THEN (IF l \in DOMAIN p.long THEN p.long[l] ELSE 0)
    ELSE IF s \in DOMAIN p.short THEN p.short[s] ELSE 0

\* A new option takes its names, even from another option.
Added(p, l, s) ==
    LET i == Len(p.mArgs) + 1
    IN [p EXCEPT
          !.mArgs = Append(@, [long |-> l, short |-> s]),
          !.long = IF l # NoName THEN Put(@, l, i) ELSE @,
          !.short = IF s # NoName THEN Put(@, s, i) ELSE @]

\* The setters of an Argument replace what they are named for.
Described(arg, setting) ==
    [long |-> arg.long, short |-> arg.short, type |-> setting.type,
     required |-> setting.required, num_required |-> setting.num_required,
     default_value |-> setting.default_value, const_value |-> setting.const_value]

\* set_argument and the setters called on its result
SetArgument(l, s, setting) ==
    LET i == Known(parser, l, s)
        p == IF i = 0 THEN Added(parser, l, s) ELSE parser
        n == IF i = 0 THEN Len(p.mArgs) ELSE i
    IN /\ parser.code \in {"", "SUCCESS"}
       /\ i # 0 \/ Len(parser.mArgs) < MaxArgs
       /\ parser' = [p EXCEPT !.mArgs[n] = Described(@, setting), !.code = ""]

-----------------------------------------------------------------------------
(* parse: the two validations *)

\* _validate_arg_counts, of one option
CountsCode(arg) ==
    LET size == Len(arg.const_value)
    IN IF size = 0 /\ (~arg.required \/ arg.num_required # LEAST_ONE) THEN "SUCCESS"
       ELSE IF ~(size = arg.num_required \/ (size >= 1 /\ arg.num_required = LEAST_ONE))
       THEN "INTERNAL_CONST_ARG_COUNT_MISMATCH"
       ELSE IF \E i \in 1..size : ~param_matches_type(arg.const_value[i], arg.type)
       THEN "INTERNAL_CONST_ARG_TYPE_MISMATCH"
       ELSE "SUCCESS"

\* param_validator: an option that was given n values.  Its second check can
\* only fail where the first does.
param_validator(arg, n) ==
    IF arg.num_required > 0 /\ n = 0 /\ arg.const_value = <<>> THEN "NO_VALUES_AVAILABLE"
    ELSE IF arg.num_required # LEAST_ONE /\ arg.num_required > n THEN "INSUFFICIENT_NUM_VALUES"
    ELSE IF arg.num_required < n THEN "TOO_MANY_VALUES"
    ELSE "SUCCESS"

\* The validation so far is its code, the option the next word belongs to (or 0)
\* and the number of values that option was given.
Fails(v, code) == [v EXCEPT !.code = code]

\* The j-th flag of a word; all but the last are without values.
FlagChecked(p, v, flags, j) ==
    IF v.code # "SUCCESS" THEN v
    ELSE IF flags[j] = "h" THEN Fails(v, "HELP")
    ELSE IF flags[j] \notin DOMAIN p.short THEN Fails(v, "UNKNOWN_ARG")
    ELSE [code |-> IF j < Len(flags)
                   THEN param_validator(p.mArgs[p.short[flags[j]]], 0) ELSE "SUCCESS",
          option |-> p.short[flags[j]], count |-> 0]

\* The validation after j of the flags of a word.
FlagsChecked(p, before, flags) ==
    LET v[j \in 0..Len(flags)] ==
          IF j = 0 THEN before ELSE FlagChecked(p, v[j - 1], flags, j)
    IN v

LongChecked(p, v, name) ==
    IF name = "help" THEN Fails(v, "HELP")
    ELSE IF name \notin DOMAIN p.long THEN Fails(v, "UNKNOWN_ARG")
    ELSE [code |-> "SUCCESS", option |-> p.long[name], count |-> 0]

ParameterChecked(p, v, w) ==
    IF v.option = 0 THEN Fails(v, "UNKNOWN_ARG")
    ELSE IF ~param_matches_type(w, p.mArgs[v.option].type) THEN Fails(v, "INVALID_ARG_TYPE")
    ELSE [v EXCEPT !.count = @ + 1]

\* The option before is validated when the next one begins.
Ended(p, v) ==
    IF v.code # "SUCCESS" \/ v.option = 0 THEN v
    ELSE Fails(v, param_validator(p.mArgs[v.option], v.count))

WordChecked(p, v, w) ==
    IF v.code # "SUCCESS" THEN v
    ELSE IF parse_arg_type(w) = "PARAMETER" THEN ParameterChecked(p, v, w)
    ELSE LET before == Ended(p, v)
         IN IF before.code # "SUCCESS" THEN before
            ELSE IF parse_arg_type(w) = "LONG_ARG" THEN LongChecked(p, before, LongName(w))
            ELSE FlagsChecked(p, before, Flags(w))[Len(Flags(w))]

\* _validate_args: the validation after k words
Validation(p, argv) ==
    LET v[k \in 0..Len(argv)] ==
          IF k = 0 THEN [code |-> "SUCCESS", option |-> 0, count |-> 0]
          ELSE WordChecked(p, v[k - 1], argv[k])
    IN v

ValidationCode(p, argv) == Ended(p, Validation(p, argv)[Len(argv)]).code

-----------------------------------------------------------------------------
(* parse: the values *)

\* _parse_long_opt and _parse_short_opts: an option begins without values, and
\* the words up to the next one go to the last option of a word.
Options(p, w) ==
    IF parse_arg_type(w) = "LONG_ARG" THEN <<p.long[LongName(w)]>>
    ELSE [j \in 1..Len(Flags(w)) |-> p.short[Flags(w)[j]]]

\* Mutant: an option that is repeated keeps the values it had.
WordRead_Accumulates(r, w) ==
    IF parse_arg_type(w) = "PARAMETER"
    THEN [r EXCEPT !.p.mValues[r.last] = Append(@, w)]
    ELSE LET options == Options(r.p, w)
         IN [last |-> options[Len(options)],
             p |-> [r.p EXCEPT !.mFoundOpts = [i \in DOMAIN @ |-> @[i] \/ Contains(options, i)]]]

WordRead(r, w) ==
    IF parse_arg_type(w) = "PARAMETER"
    THEN [r EXCEPT !.p.mValues[r.last] = Append(@, w)]
    ELSE LET options == Options(r.p, w)
         IN [last |-> options[Len(options)],
             p |-> [r.p EXCEPT
                      !.mFoundOpts = [i \in DOMAIN @ |-> @[i] \/ Contains(options, i)],
                      !.mValues = [i \in DOMAIN @ |-> IF Contains(options, i) THEN <<>> ELSE @[i]]]]

\* The parser and the option of the last word after k words.
Reading(p, argv) ==
    LET r[k \in 0..Len(argv)] ==
          IF k = 0 THEN [p |-> p, last |-> 0] ELSE WordRead(r[k - 1], argv[k])
    IN r

Read(p, argv) == Reading(p, argv)[Len(argv)].p

\* What parse looks an option up by at the end: its long name, or its short one.
IndexOf(p, arg) == IF arg.long # NoName THEN p.long[arg.long] ELSE p.short[arg.short]

\* Options that were not given, or were given without values.
Completed(p, arg) ==
    LET i == IndexOf(p, arg)
    IN IF p.code # "SUCCESS" THEN p
       ELSE IF ~p.mFoundOpts[i]
       THEN IF arg.required /\ arg.num_required # 0 /\ arg.default_value = <<>>
            THEN Fails(p, "NO_DEFAULT_VALUE_AVAILABLE")
            ELSE [p EXCEPT !.mValues[i] = arg.default_value]
       ELSE IF p.mValues[i] # <<>> THEN p
       ELSE IF arg.required /\ arg.const_value = <<>>
       THEN Fails(p, "NO_CONST_VALUE_AVAILABLE")
       ELSE [p EXCEPT !.mValues[i] = arg.const_value]

\* The parser after k of the options.
Completion(p) ==
    LET c[k \in 0..Len(p.mArgs)] == IF k = 0 THEN p ELSE Completed(c[k - 1], p.mArgs[k])
    IN c

Parsed(p, argv) ==
    LET cleared == [p EXCEPT !.code = "SUCCESS",
                      !.mFoundOpts = [i \in DOMAIN p.mArgs |-> FALSE],
                      !.mValues = [i \in DOMAIN p.mArgs |-> <<>>]]
        bad == SelectInSeq(p.mArgs, LAMBDA arg : CountsCode(arg) # "SUCCESS")
        code == IF bad # 0 THEN CountsCode(p.mArgs[bad]) ELSE ValidationCode(cleared, argv)
    IN IF code # "SUCCESS" THEN Fails(cleared, code)
       ELSE Completion(Read(cleared, argv))[Len(p.mArgs)]

Parse(argv) ==
    /\ parser.code \in {"", "SUCCESS"}
    /\ parser' = Parsed(parser, argv)

CommandLines == UNION {[1..n -> Words] : n \in 0..MaxWords}

Next ==
    \/ \E name \in Names, setting \in Settings : SetArgument(name[1], name[2], setting)
    \/ \E argv \in CommandLines : Parse(argv)

-----------------------------------------------------------------------------
(* Every option has both of its names to itself. *)
NamesAreUnique(p) ==
    \A i \in DOMAIN p.mArgs :
        /\ p.mArgs[i].long # NoName => p.long[p.mArgs[i].long] = i
        /\ p.mArgs[i].short # NoName => p.short[p.mArgs[i].short] = i

HasNumber(arg, values) ==
    Len(values) = arg.num_required \/ (arg.num_required = LEAST_ONE /\ values # <<>>)

\* value_exists and value, under a long name, or under a short one if there is none
value_exists(p, l, s) == p.mFoundOpts[IF l # NoName THEN p.long[l] ELSE p.short[s]]
value(p, l, s) == p.mValues[IF l # NoName THEN p.long[l] ELSE p.short[s]]

(* A command line that parse accepts gives a caller, under either name of  *)
(* an option, what the option was described to have: one that was given    *)
(* with as many values as it requires, each of its type, even if they are  *)
(* its const values; one that was not with its default values. So the      *)
(* second pass, which checks nothing, agrees with the first through        *)
(* repeated options and groups of flags. An option whose short name        *)
(* another one took may be left without its default, so this needs unique  *)
(* names.                                                                  *)
AcceptedValuesFit ==
    parser.code = "SUCCESS" /\ NamesAreUnique(parser) =>
        \A arg \in ToSet(parser.mArgs) :
            \A name \in {<<arg.long, NoName>>, <<NoName, arg.short>>} \ {<<NoName, NoName>>} :
                LET values == value(parser, name[1], name[2])
                IN IF value_exists(parser, name[1], name[2])
                   THEN /\ HasNumber(arg, values)
                        /\ \A j \in DOMAIN values : param_matches_type(values[j], arg.type)
                   ELSE /\ values = arg.default_value
                        /\ arg.required /\ arg.num_required # 0 => values # <<>>
=============================================================================
