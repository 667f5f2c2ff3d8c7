---------------------------- MODULE StringChecks ----------------------------
(***************************************************************************)
(* The operators of Strings against reference definitions: one state for   *)
(* every input up to a length, built a character at a time.                *)
(***************************************************************************)
EXTENDS Strings

CONSTANTS MaxPattern, MaxText, MaxField      \* bounds: lengths of the inputs

VARIABLES what,      \* which family of inputs
          pat, txt   \* the input

stringVars == <<what, pat, txt>>

Alphabet == [glob |-> {"a", "b"}, field |-> {"a", "b", "=", ",", " "}, path |-> {"a", "/", "."},
             vector |-> {"0", "1", "2"}, angle |-> {"1"}]
Longest == [glob |-> MaxText, field |-> MaxField, path |-> MaxField, vector |-> 3, angle |-> 30]

StringInit == what \in DOMAIN Alphabet /\ pat = <<>> /\ txt = <<>>

LongerPattern(c) ==
    /\ what = "glob" /\ Len(pat) < MaxPattern
    /\ pat' = Append(pat, c) /\ UNCHANGED <<what, txt>>

LongerText(c) ==
    /\ Len(txt) < Longest[what]
    /\ txt' = Append(txt, c) /\ UNCHANGED <<what, pat>>

StringNext == \/ \E c \in {"a", "b", "*", "?"} : LongerPattern(c)
              \/ \E c \in Alphabet[what] : LongerText(c)

StringSpec == StringInit /\ [][StringNext]_stringVars

----------------------------------------------------------------------------
RECURSIVE Glob(_, _)
Glob(p, s) ==
    IF p = <<>> THEN s = <<>>
    ELSE IF Head(p) = "*" THEN \E i \in 0 .. Len(s) : Glob(Tail(p), From(s, i + 1))
    ELSE s # <<>> /\ Head(p) \in {Head(s), "?"} /\ Glob(Tail(p), Tail(s))

(* The single point of return that MOOSWildCmp keeps is enough: it agrees with the definition that
   tries every way of matching every star. *)
WildCmpIsGlob == what = "glob" => (MOOSWildCmp(pat, txt) <=> Glob(pat, txt))

(* MOOSValFromString against the fields: the value of the first field whose part before the equals
   sign is the token up to white space; a longer name, a value or a field without an equals sign
   that contains the token is not taken for it. *)
Fields == StringListToVector(txt, <<",">>)
Key(f) == MOOSTrimWhiteSpace(MOOSChomp(f, <<"=">>).head)
Named == {i \in 1 .. Len(Fields) : Key(Fields[i]) = <<"a">> /\ FindChar(Fields[i], "=", 1) # NoPos}
ValFromStringIsField ==
    what = "field" =>
        LET v == MOOSValFromString(txt, <<"a">>, FALSE) IN
        /\ v.ok <=> Named # {}
        /\ v.ok => v.val = MOOSTrimWhiteSpace(MOOSChomp(Fields[FirstOf(Named)], <<"=">>).rest)

(* What MOOSAddValToString adds to a list of fields can be read back, as wildcard registrations and
   audit records are, unless the list already has the token. *)
AddedCanBeRead ==
    what = "field" /\ Named = {}
        => LET s == MOOSAddValToString(txt, <<"a">>, <<"1">>) IN
           /\ IntFromString(s, <<"a">>) = [ok |-> TRUE, val |-> <<"1">>]
           /\ DoubleFromString(s, <<"a">>) = [ok |-> TRUE, val |-> <<"1">>]
           /\ BoolFromString(s, <<"a">>) = [ok |-> TRUE, val |-> TRUE]

(* A vector written is read back, of any length from one: the commas are counted right. *)
WrittenCanBeRead ==
    what = "vector" /\ txt # <<>> =>
        LET v == [i \in 1 .. Len(txt) |-> ValueOf(txt[i])] IN
        MOOSVectorFromString(WriteVector(v)) = [ok |-> TRUE, val |-> v]

(* The parts of a path make the path again, and the file part has no slash and the extension no
   dot; only a leading slash and a final dot are lost. *)
PartsMakeThePath ==
    what = "path" =>
        LET p == MOOSFileParts(txt)
            dir == IF p.path = <<>> THEN {<<>>, <<"/">>} ELSE {p.path \o <<"/">>}
            ext == IF p.ext = <<>> THEN {<<>>, <<".">>} ELSE {<<".">> \o p.ext} IN
        /\ \E d \in dir, e \in ext : d \o p.file \o e = txt
        /\ FindChar(p.file, "/", 1) = NoPos /\ FindChar(p.ext, ".", 1) = NoPos
        /\ FindChar(p.ext, "/", 1) = NoPos

(* An angle is wrapped into (-PI, PI] by whole turns. *)
Angle == Len(txt) - 15
WrapKeepsTheAngle ==
    what = "angle" => LET w == MOOS_ANGLE_WRAP(Angle, 4) IN
                      w > -4 /\ w <= 4 /\ (w - Angle) % 8 = 0

(* All that is promised of the string utilities. *)
StringsAreAsDefined ==
    /\ WildCmpIsGlob /\ ValFromStringIsField /\ AddedCanBeRead
    /\ WrittenCanBeRead /\ PartsMakeThePath /\ WrapKeepsTheAngle
=============================================================================
