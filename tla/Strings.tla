------------------------------ MODULE Strings ------------------------------
(***************************************************************************)
(* The string functions of MOOSUtilityFunctions that other components      *)
(* depend on, as operators on sequences of characters.  A position is the  *)
(* index of a character, and 0 stands for std::string::npos.               *)
(***************************************************************************)
EXTENDS Integers, Sequences

NoPos == 0
Spaces == {" ", "\t", "\n", "\r"}

\* The least and the greatest position of a set, or npos.
FirstPos[S \in SUBSET Nat] == IF S = {} THEN NoPos ELSE CHOOSE i \in S : \A j \in S : i <= j
LastPos[S \in SUBSET Nat] == IF S = {} THEN NoPos ELSE CHOOSE i \in S : \A j \in S : i >= j
FirstOf(S) == FirstPos[S]
LastOf(S) == LastPos[S]

\* std::string's find, find_last_of, find_first_not_of and substr from a position.
FindChar(s, c, from) == FirstOf({i \in from .. Len(s) : s[i] = c})
LastChar(s, c, upto) == LastOf({i \in 1 .. upto : s[i] = c})
FirstNotIn(s, C, from) == FirstOf({i \in from .. Len(s) : s[i] \notin C})
From(s, i) == SubSeq(s, i, Len(s))

\* Upper case of the letters that the inputs use.
ToUpper(c) == CASE c = "a" -> "A" [] c = "b" -> "B" [] OTHER -> c
Upper(s) == [i \in 1 .. Len(s) |-> ToUpper(s[i])]
MOOSStrCmp(s, t) == Upper(s) = Upper(t)

\* An empty token is not found.
StrFind(s, tok) ==
    IF tok = <<>> THEN NoPos
    ELSE FirstOf({i \in 1 .. Len(s) - Len(tok) + 1 : SubSeq(s, i, i + Len(tok) - 1) = tok})

MOOSStrFind(s, tok, insensitive) ==
    IF insensitive THEN StrFind(Upper(s), Upper(tok)) ELSE StrFind(s, tok)

\* What is chomped off and what stays in the string.
MOOSChomp(s, tok) ==
    LET at[n \in Nat] == IF n = NoPos THEN [head |-> s, rest |-> <<>>]
                         ELSE [head |-> SubSeq(s, 1, n - 1), rest |-> From(s, n + Len(tok))]
    IN  at[StrFind(s, tok)]

StringListToVector(s, tok) ==
    LET split[t \in Seq(STRING)] ==
            IF t = <<>> THEN <<>> ELSE <<MOOSChomp(t, tok).head>> \o split[MOOSChomp(t, tok).rest]
    IN  split[s]

MOOSTrimWhiteSpace(s) ==
    LET keep == {i \in 1 .. Len(s) : s[i] \notin Spaces} IN
    IF keep = {} THEN <<>> ELSE SubSeq(s, FirstOf(keep), LastOf(keep))

MOOSRemoveChars(s, C) ==
    LET kept[n \in 0 .. Len(s)] ==
            IF n = 0 THEN <<>> ELSE IF s[n] \in C THEN kept[n - 1] ELSE Append(kept[n - 1], s[n])
    IN  kept[Len(s)]

----------------------------------------------------------------------------
(* MOOSWildCmp: one pattern position, one string position, and the positions to fall back to
   after the last star. *)

\* Mutant: after two mismatches a place to begin again is skipped.
RetryFurther(cp) == cp + 2

Retry(cp) == cp + 1

Wild(pat, w) == IF w <= Len(pat) THEN pat[w] ELSE "end"

WildLoop(pat, str) ==
    LET match[w \in Nat, s \in Nat, mp \in Nat, cp \in Nat] ==
            IF s > Len(str) THEN \A i \in w .. Len(pat) : pat[i] = "*"
            ELSE IF Wild(pat, w) = "*"
            THEN w + 1 > Len(pat) \/ match[w + 1, s, w + 1, s + 1]
            ELSE IF Wild(pat, w) \in {str[s], "?"} THEN match[w + 1, s + 1, mp, cp]
            ELSE match[mp, cp, mp, Retry(cp)]
    IN  match[1, 1, NoPos, NoPos]

\* The first loop: up to the first star both go in step, and the rest of the string is left.
MOOSWildCmp(pat, str) ==
    LET in_step[i \in Nat] ==
            IF i > Len(str) \/ Wild(pat, i) = "*" THEN WildLoop(From(pat, i), From(str, i))
            ELSE Wild(pat, i) \in {str[i], "?"} /\ in_step[i + 1]
    IN  in_step[1]

----------------------------------------------------------------------------
(* MOOSValFromString: "tok=value" among fields separated by commas.  The token must be the first
   thing of its field, and only white space may stand between it and the equals sign. *)

Digit == <<"0", "1", "2", "3">>
DigitChars == {Digit[i] : i \in 1 .. Len(Digit)}
ValueOf(c) == CHOOSE n \in 0 .. Len(Digit) - 1 : Digit[n + 1] = c

MOOSIsNumeric(s) == \A i \in 1 .. Len(s) : s[i] \in DigitChars \cup {".", "e", "E", "-", "+"}
Atof(s) == IF s # <<>> /\ s[1] \in DigitChars THEN ValueOf(s[1]) ELSE 0

NotFound == [ok |-> FALSE, val |-> <<>>]

\* Mutant: any occurrence of the token will do.
Anywhere(s, n) == TRUE

StartsField(s, n) == FirstNotIn(s, {" ", "\t"}, LastChar(s, ",", n) + 1) = n

MOOSValFromString(s, tok, insensitive) ==
    LET search[k \in Nat] ==
            LET found == MOOSStrFind(From(s, k), tok, insensitive)
                n == found + k - 1
                eq == FindChar(s, "=", n)
                comma == FindChar(s, ",", eq) IN
            IF found = NoPos THEN NotFound
            ELSE IF ~StartsField(s, n) THEN search[n + 1]
            ELSE IF eq = NoPos THEN NotFound
            ELSE IF MOOSTrimWhiteSpace(SubSeq(s, n + Len(tok), eq - 1)) # <<>> THEN search[n + 1]
            ELSE [ok |-> TRUE, val |-> MOOSTrimWhiteSpace(
                      SubSeq(s, eq + 1, IF comma = NoPos THEN Len(s) ELSE comma - 1))]
    IN  IF FindChar(tok, ",", 1) # NoPos THEN NotFound ELSE search[1]

\* The overloads for numbers want the value to begin like a number.
BeginsWith(v, C) == LET n == FirstNotIn(v.val, {" "}, 1) IN v.ok /\ n # NoPos /\ v.val[n] \in C
IntFromString(s, tok) ==
    LET v == MOOSValFromString(s, tok, FALSE) IN
    IF BeginsWith(v, DigitChars \cup {"-", "+"}) THEN v ELSE NotFound
DoubleFromString(s, tok) ==
    LET v == MOOSValFromString(s, tok, FALSE) IN
    IF BeginsWith(v, DigitChars \cup {".", "-", "+"}) THEN v ELSE NotFound
BoolFromString(s, tok) ==
    LET v == MOOSValFromString(s, tok, FALSE)
        w == MOOSRemoveChars(v.val, {" "}) IN
    CASE v.ok /\ w = <<"1">> -> [ok |-> TRUE, val |-> TRUE]       \* or "true", in any case
      [] v.ok /\ w = <<"0">> -> [ok |-> TRUE, val |-> FALSE]      \* or "false"
      [] OTHER -> NotFound

\* Mutant: no comma between the fields.
NoComma(s) == <<>>

Comma(s) == IF s = <<>> THEN <<>> ELSE <<",">>

MOOSAddValToString(s, tok, val) == s \o Comma(s) \o tok \o <<"=">> \o val

----------------------------------------------------------------------------
(* Vectors as text: "[rows x cols]{v,v,...}". *)

\* Write, of integers below ten.
Values(v) ==
    LET text[n \in 0 .. Len(v)] ==
            IF n = 0 THEN <<>> ELSE text[n - 1] \o (IF n = 1 THEN <<>> ELSE <<",">>) \o <<Digit[v[n] + 1]>>
    IN  text[Len(v)]
WriteVector(v) == <<"[", Digit[Len(v) + 1], "x", "1", "]", "{">> \o Values(v) \o <<"}">>

\* Mutant: the search for the next value begins at the comma it has just found.
NextHere(s, pos) == FindChar(s, ",", pos)

\* When no comma is left the position becomes npos, and npos + 1 is the start of the text.
NextValue(s, pos) == FindChar(s, ",", pos + 1)

\* atoi and strtoul: a digit is converted and anything else is not.
Convertible(s, i) == i <= Len(s) /\ s[i] \in DigitChars

ReadValues(s, pos, n) ==
    LET read[p \in Nat, m \in 0 .. n, sofar \in Seq(Nat)] ==
            IF m = 0 THEN [ok |-> TRUE, val |-> sofar]
            ELSE IF ~Convertible(s, p + 1) THEN NotFound
            ELSE read[NextValue(s, p), m - 1, Append(sofar, ValueOf(s[p + 1]))]
    IN  read[pos, n, <<>>]

Atoi(s, i) == IF Convertible(s, i) THEN ValueOf(s[i]) ELSE 0

MOOSVectorFromString(s) ==
    LET open == FindChar(s, "[", 1)
        x == FindChar(s, "x", open)
        cols == IF x = NoPos THEN 1 ELSE Atoi(s, x + 1)
        brace == FindChar(s, "{", IF x = NoPos THEN open ELSE x) IN
    IF open = NoPos \/ brace = NoPos \/ cols <= 0 \/ Atoi(s, open + 1) <= 0 THEN NotFound
    ELSE ReadValues(s, brace, Atoi(s, open + 1) * cols)

----------------------------------------------------------------------------
\* Mutant: the extension begins at the last dot of the whole path.
AnyDot(s, slash) == LastChar(s, ".", Len(s))

DotAfter(s, slash) == LET dot == LastChar(s, ".", Len(s)) IN IF dot > slash THEN dot ELSE NoPos

(* MOOSFileParts: the last slash and the last dot after it. *)
MOOSFileParts(s) ==
    LET slash == LastChar(s, "/", Len(s))
        dot == DotAfter(s, slash) IN
    [path |-> IF slash = NoPos THEN <<>> ELSE SubSeq(s, 1, slash - 1),
     file |-> SubSeq(s, slash + 1, IF dot = NoPos THEN Len(s) ELSE dot - 1),
     ext |-> IF dot = NoPos THEN <<>> ELSE From(s, dot + 1)]

\* Mutant: the remainder is taken to be positive.
Positive(w, p) == w

FromZero(w, p) == IF w < 0 THEN w + 2 * p ELSE w

(* MOOS_ANGLE_WRAP with PI = p in whole units; C's fmod has the sign of its first argument. *)
Fmod(a, b) == IF a >= 0 THEN a % b ELSE -((-a) % b)
MOOS_ANGLE_WRAP(a, p) ==
    IF a < p /\ a > -p THEN a
    ELSE LET w == Fmod(a + p, 2 * p)
             v == FromZero(w, p) IN
         IF v = 0 THEN p ELSE v - p
=============================================================================
