---------------------------- MODULE CommandLine ----------------------------
(***************************************************************************)
(* MOOS::CommandLineParser and the part of GetPot that it uses.  The       *)
(* arguments are parsed one by one into an argument vector, the indices of *)
(* the arguments without a minus and a list of variables; then the program *)
(* asks for flags, options, variables and free parameters in any order.    *)
(* Every search moves GetPot's cursor, where the next search begins.       *)
(*                                                                         *)
(* An argument is a model of its text: what it is ("flag" for what begins  *)
(* with a minus, "word", "var" for name=value, "label" for [name]), a name *)
(* and a value, with the section that the parser puts in front of it.      *)
(* GetPot counts arguments from 0 and this module from 1.                  *)
(***************************************************************************)
EXTENDS Integers, Sequences, SequencesExt

CONSTANTS
    MaxArgs,      \* bound on the arguments, the program's name included
    EmptyArgs     \* whether an argument may be the empty string

ASSUME CLAssumption == EmptyArgs \in BOOLEAN

VARIABLES
    args,         \* the command line, as main() receives it
    argv,         \* the arguments GetPot keeps
    idx_nominus,  \* the indices of the arguments that begin with no minus
    variables,    \* <<[name, original], ...>>
    section,      \* the section of the last label, as the names that lead to it
    cursor,       \* where the last search ended; Len(argv) + 1 when it ran off the end
    answer        \* the last question and its answer

clVars == <<args, argv, idx_nominus, variables, section, cursor, answer>>

Arg(kind, name, value) == [kind |-> kind, name |-> name, value |-> value, sec |-> <<>>]
Program == Arg("word", "p", "")
Flags == {"-f", "-o"}
FlagArgs == {Arg("flag", n, "") : n \in Flags}
WordArgs == {Arg("word", "w", ""), Arg("word", "1", "")}
VarArgs == {Arg("var", "x", v) : v \in {"1", "-1"}} \cup {Arg("var", "-o", v) : v \in {"1", "-1"}}
Labels == {Arg("label", "s", ""), Arg("label", "t", "./"), Arg("label", "", "../"), Arg("label", "", "")}
Empties == IF EmptyArgs THEN {Arg("empty", "", "")} ELSE {}
Arguments == FlagArgs \cup WordArgs \cup VarArgs \cup Labels \cup Empties

NoAnswer == [ask |-> "none", of |-> "", ok |-> FALSE, val |-> "", free |-> <<>>]

CLInit ==
    /\ args = <<Program>> /\ argv = <<Program>>
    /\ idx_nominus = <<>> /\ variables = <<>>
    /\ section = <<>> /\ cursor = 1
    /\ answer = NoAnswer

----------------------------------------------------------------------------
(* __parse_argument_vector *)

\* The text of an argument, as far as two of them can be equal.
ArgText(a) == <<a.sec, a.kind, a.name, a.value>>
BeginsWithMinus(a) == a.sec = <<>> /\ a.kind \in {"flag", "var"} /\ a.name \in Flags

\* A label names a section below the one it is in, below that one's parent, or below the root.
ProcessSectionLabel(a, stack) ==
    (CASE a.value = "./" -> stack
       [] a.value = "../" -> IF stack = <<>> THEN <<>> ELSE Front(stack)
       [] OTHER -> <<>>) \o (IF a.name = "" THEN <<>> ELSE <<a.name>>)

FindVariable(name) == SelectInSeq(variables, LAMBDA v : v.name = name)

\* Mutant: the first assignment of a variable stays.
FirstStays(name, value) == IF FindVariable(name) # 0 THEN variables
                           ELSE Append(variables, [name |-> name, original |-> value])

SetVariable(name, value) ==
    IF FindVariable(name) # 0 THEN [variables EXCEPT ![FindVariable(name)].original = value]
    ELSE Append(variables, [name |-> name, original |-> value])

\* The index that goes into idx_nominus counts the arguments given: an empty argument is not
\* kept but counted.
Parse(a) ==
    /\ answer = NoAnswer /\ Len(args) < MaxArgs
    /\ args' = Append(args, a)
    /\ IF a.kind = "empty" THEN UNCHANGED <<argv, idx_nominus, variables, section>>
       ELSE LET arg == IF a.kind = "label" THEN a ELSE [a EXCEPT !.sec = section] IN
            /\ section' = IF a.kind = "label" THEN ProcessSectionLabel(a, section) ELSE section
            /\ argv' = Append(argv, arg)
            /\ idx_nominus' = IF BeginsWithMinus(arg) THEN idx_nominus ELSE Append(idx_nominus, Len(args) + 1)
            /\ variables' = IF a.kind = "var" THEN SetVariable(<<arg.sec, a.name>>, a.value) ELSE variables
    /\ UNCHANGED <<cursor, answer>>

----------------------------------------------------------------------------
(* search() and what is built on it.  A term is the text that is looked for. *)

OptionText(o) == <<<<>>, "flag", o, "">>

\* Mutant: the first loop begins behind the cursor.
BehindCursor(c) == c + 1

FirstLoopFrom(c) == c

\* The second loop ends before the place where the first began; a cursor that has run off the
\* end is set to the last argument for it.
Places(c) ==
    LET n == Len(argv)
        old == IF c > n THEN n ELSE c
    IN  [i \in 1 .. n |-> i \in FirstLoopFrom(c) .. n \/ i \in 2 .. old - 1]
FoundAt(o, c) ==
    LET hits == {i \in 1 .. Len(argv) : Places(c)[i] /\ ArgText(argv[i]) = OptionText(o)}
        ahead == {i \in hits : i >= c}
    IN  IF hits = {} THEN 0
        ELSE IF ahead # {} THEN CHOOSE i \in ahead : \A j \in ahead : i <= j
        ELSE CHOOSE i \in hits : \A j \in hits : i <= j

Say(ask, of, ok, val, free) == answer' = [ask |-> ask, of |-> of, ok |-> ok, val |-> val, free |-> free]

\* GetFlag with an alternative searches for that only when the flag is not found.
GetFlag(o, alternative) ==
    /\ LET at == FoundAt(o, cursor)
           alt == IF alternative = "" THEN 0 ELSE FoundAt(alternative, cursor)
           hit == IF at # 0 THEN at ELSE alt
       IN  /\ cursor' = IF hit # 0 THEN hit ELSE cursor
           /\ Say("flag", o, hit # 0, alternative, <<>>)
    /\ UNCHANGED <<args, argv, idx_nominus, variables, section>>

\* Conversion of what follows to a number; the default stands when it is none.
Number(a) == CASE a.kind = "word" /\ a.name = "1" -> "1" [] OTHER -> "default"
Negative(val) == val = "-1"

\* follow(): what next() finds behind an option.
NothingFollows == Arg("outside", "", "")
Follow(at) == IF at # 0 /\ at < Len(argv) THEN argv[at + 1] ELSE NothingFollows

\* The option is searched for twice, the second time from where it is, and next() goes one further.
GetOption(o, type) ==
    LET at == FoundAt(o, cursor)
        text == Follow(at)
        val == IF text = NothingFollows THEN "default" ELSE IF type = "string" THEN text.name ELSE Number(text)
    IN  /\ cursor' = IF at # 0 THEN at + 1 ELSE cursor
        /\ Say(type, o, at # 0, val, <<>>)
        /\ UNCHANGED <<args, argv, idx_nominus, variables, section>>

VariableExists(v) == \E i \in 1 .. Len(variables) : variables[i].name = <<<<>>, v>>
Original(v) == IF VariableExists(v) THEN variables[FindVariable(<<<<>>, v>>)].original ELSE "default"

\* A variable as text, as a number, as a number that must not be negative, and as a truth value,
\* which a flag of that name also gives.
GetVariable(v, type) ==
    LET at == FoundAt(v, cursor)
    IN  /\ IF type = "boolvar" /\ ~VariableExists(v)
           THEN /\ cursor' = IF at # 0 THEN at ELSE cursor
                /\ Say(type, v, at # 0, "default", <<>>)
           ELSE /\ Say(type, v, VariableExists(v) /\ ~(type = "unsignedvar" /\ Negative(Original(v))), Original(v), <<>>)
                /\ UNCHANGED cursor
        /\ UNCHANGED <<args, argv, idx_nominus, variables, section>>

\* nominus_vector(): an index behind the end reads no argument.
NominusVector == LET at(i) == IF i <= Len(argv) THEN argv[i] ELSE NothingFollows
                 IN  [k \in 1 .. Len(idx_nominus) |-> at(idx_nominus[k])]

GetFreeParameters ==
    /\ Say("free", "", TRUE, "", NominusVector)
    /\ UNCHANGED <<args, argv, idx_nominus, variables, section, cursor>>

CLNext ==
    \/ \E a \in Arguments : Parse(a)
    \/ \E o \in Flags, alternative \in Flags \cup {""} : GetFlag(o, alternative)
    \/ \E o \in Flags, type \in {"string", "number"} : GetOption(o, type)
    \/ \E v \in {"x", "-o"}, type \in {"stringvar", "unsignedvar", "boolvar"} : GetVariable(v, type)
    \/ GetFreeParameters

CLSpec == CLInit /\ [][CLNext]_clVars

----------------------------------------------------------------------------
\* The section of the i-th argument of a command line.
SectionOf(line, i) ==
    LET sec[j \in 0 .. i] == IF j = 0 THEN <<>>
                             ELSE IF line[j].kind = "label" THEN ProcessSectionLabel(line[j], sec[j - 1]) ELSE sec[j - 1]
    IN  sec[i]
Given(kind, name) == {i \in 2 .. Len(args) : args[i].kind = kind /\ args[i].name = name /\ SectionOf(args, i) = <<>>}
LastGiven(S) == CHOOSE i \in S : \A j \in S : i >= j
Bare(a) == [a EXCEPT !.sec = <<>>]
FreeParameters == {i \in 2 .. Len(args) :
                      ~(SectionOf(args, i) = <<>> /\ args[i].kind \in {"flag", "var"} /\ args[i].name \in Flags)}

\* A flag or an option that is found is one of the command line.
FlagsAreGiven ==
    answer.ask \in {"flag", "string", "number"} /\ answer.ok =>
        \/ Given("flag", answer.of) # {}
        \/ answer.ask = "flag" /\ answer.val # "" /\ Given("flag", answer.val) # {}

\* An option has the value that stands behind one of its occurrences.
OptionsAreGiven ==
    answer.ask = "string" /\ answer.ok =>
        \E i \in Given("flag", answer.of) :
            IF i = Len(args) THEN answer.val = "default" ELSE answer.val = args[i + 1].name

\* A variable has the value given last, and a negative number is no unsigned one.
VariablesAreGiven ==
    answer.ask \in {"stringvar", "unsignedvar"} =>
        LET at == Given("var", answer.of) IN
        /\ answer.val = IF at = {} THEN "default" ELSE args[LastGiven(at)].value
        /\ answer.ok <=> at # {} /\ ~(answer.ask = "unsignedvar" /\ answer.val = "-1")

\* The free parameters are the arguments that begin with no minus, in order.
FreeAreGiven ==
    answer.ask = "free" =>
        \E at \in [1 .. Len(answer.free) -> FreeParameters] :
            /\ \A i \in FreeParameters : \E k \in 1 .. Len(answer.free) : at[k] = i
            /\ \A j, k \in 1 .. Len(answer.free) : j < k => at[j] < at[k]
            /\ \A k \in 1 .. Len(answer.free) : Bare(answer.free[k]) = args[at[k]]

\* Whatever was asked before, the answer is in the command line.
AnswersAreGiven == FlagsAreGiven /\ OptionsAreGiven /\ VariablesAreGiven /\ FreeAreGiven

\* From every place the cursor can be in, a flag of the command line is found, except the last
\* argument when an option ran off the end (see FlagStaysFound).
PresentIsFound ==
    \A o \in Flags : cursor <= Len(argv) /\ Given("flag", o) # {} => FoundAt(o, cursor) # 0

\* The same for every place: "in case nothing is found the cursor stays where it was" and the
\* second loop is "from 0 to old cursor position".
FlagStaysFound == \A o \in Flags : Given("flag", o) # {} => FoundAt(o, cursor) # 0

\* What the header promises of the free parameters: "all command line parameters that are not
\* like x=7".
FreeParametersAreNoVariables ==
    answer.ask = "free" => \A k \in 1 .. Len(answer.free) : answer.free[k].kind # "var"

(* All that is promised of the command line, asked in any order. *)
CommandLineIsAnswered == AnswersAreGiven /\ PresentIsFound
=============================================================================
