---------------------------- MODULE MissionFile ----------------------------
(***************************************************************************)
(* Reading a mission file: CMOOSFileReader, whose threads each have a      *)
(* stream of their own over the one file, and CProcessConfigReader, which  *)
(* looks for the parameters of a process in the block that follows its     *)
(* ProcessConfig line.  One thread asks for a parameter, another for a     *)
(* value anywhere in the file; their reads of lines interleave.            *)
(*                                                                         *)
(* Lines are abstracted to what they are; a value is a sequence of         *)
(* characters, "V" standing for a reference ${V}.                          *)
(***************************************************************************)
EXTENDS Strings, SequencesExt

CONSTANTS MaxLines,      \* bound: lines of the file
          Columns        \* bound: positions within a line

VARIABLES mfFile,        \* the lines of the file
          mfVars,        \* m_LocalShellVariables: values of V, at most one
          mfPos,         \* per thread: lines its stream has read
          mfPc,          \* per thread: idle, goto, brace, body, search, done
          mfParams,      \* the parameters collected from the block
          mfResult,      \* per thread: the answer, <<>> or <<value>>
          mfQuote        \* a line with a quotation: columns of "\"", "\"" and "//"

mfAll == <<mfFile, mfVars, mfPos, mfPc, mfParams, mfResult, mfQuote>>
Readers == {"config", "global"}

Line(kind, tok, val) == [kind |-> kind, tok |-> tok, val |-> val]
Comment == Line("comment", "", <<>>)
Config == Line("config", "ProcessConfig", <<"A">>)
OtherLines == {Comment, Line("open", "", <<>>), Line("close", "", <<>>), Line("bracket", "", <<>>),
               Line("pair", "p", <<>>), Line("pair", "p", <<"1">>), Line("pair", "p", <<"V", "1">>)}
              \cup {Line("define", "define:V", <<c>>) : c \in {"-", "+"}}

MFInit ==
    /\ mfFile = <<Config>> /\ mfVars = <<>>
    /\ mfPos = [r \in Readers |-> 0] /\ mfPc = [r \in Readers |-> "idle"]
    /\ mfParams = <<>> /\ mfResult = [r \in Readers |-> <<>>]
    /\ mfQuote = <<>>

\* The user writes the file before the program starts.
WriteLine ==
    /\ \A r \in Readers : mfPc[r] = "idle"
    /\ Len(mfFile) < MaxLines /\ mfQuote = <<>>
    /\ \E l \in OtherLines : mfFile' = Append(mfFile, l)
    /\ UNCHANGED <<mfVars, mfPos, mfPc, mfParams, mfResult, mfQuote>>

----------------------------------------------------------------------------
(* The file as lines: what SetFile builds and what a copy holds. *)

\* BuildLocalShellVars: the last definition counts.
BuildLocalShellVars(f) ==
    LET defs == SelectSeq(f, LAMBDA l : l.kind = "define") IN
    IF defs = <<>> THEN <<>> ELSE <<Last(defs).val>>

\* DoVariableExpansion: a reference without definition stands for its name; an empty expansion
\* ends the loop, and with it the line.
RECURSIVE Expand(_, _)
Expand(val, vars) ==
    IF val = <<>> THEN <<>>
    ELSE IF Head(val) # "V" THEN <<Head(val)>> \o Expand(Tail(val), vars)
    ELSE IF vars = <<>> THEN <<"V">> \o Expand(Tail(val), vars)
    ELSE IF vars[1] = <<>> THEN <<>> ELSE vars[1] \o Expand(Tail(val), vars)

\* Mutant: the line is not commented out.
BothLines(l, v) == <<l, Line("pair", l.tok, v)>>

Replaced(l, v) == <<Comment, Comment, Line("pair", l.tok, v)>>

\* MakeOverloadedCopy: the lines of an overloaded token become comments, followed by the new value.
MakeOverloadedCopy(f, tok, v) ==
    FlattenSeq([i \in 1 .. Len(f) |-> IF f[i].kind = "pair" /\ f[i].tok = tok
                                      THEN Replaced(f[i], v) ELSE <<f[i]>>])

----------------------------------------------------------------------------
(* The threads. *)

\* Mutant: one stream for all threads.
SharedStream(r, n) == [s \in Readers |-> n]

OwnStream(r, n) == [mfPos EXCEPT ![r] = n]

\* Comments are skipped; Len + 1 says that the stream is at its end and the line is empty.
NextLine(r) == LET rest == {i \in mfPos[r] + 1 .. Len(mfFile) : mfFile[i].kind # "comment"} IN
               IF rest = {} THEN Len(mfFile) + 1 ELSE CHOOSE i \in rest : \A j \in rest : i <= j
FileLine(n) == IF n <= Len(mfFile) THEN mfFile[n] ELSE Line("empty", "", <<>>)
Eof(r) == mfPos[r] >= Len(mfFile)
ReadTo(r, l) == mfPos' = OwnStream(r, NextLine(r)) /\ mfPc' = [mfPc EXCEPT ![r] = l]
Answer(r, a) == mfResult' = [mfResult EXCEPT ![r] = a]
Finish(r) == mfPc' = [mfPc EXCEPT ![r] = "done"] /\ mfPos' = mfPos

\* SetFile has been called; a request puts the thread's stream back to the start.
Ask(r) ==
    /\ mfPc[r] = "idle" /\ mfQuote = <<>>
    /\ mfVars' = BuildLocalShellVars(mfFile)
    /\ mfPos' = OwnStream(r, 0)
    /\ mfPc' = [mfPc EXCEPT ![r] = IF r = "config" THEN "goto" ELSE "search"]
    /\ UNCHANGED <<mfFile, mfParams, mfResult, mfQuote>>

\* GoTo: lines are read until one is "ProcessConfig = A".
GoTo ==
    /\ mfPc["config"] = "goto"
    /\ IF Eof("config") THEN Finish("config")
       ELSE ReadTo("config", IF FileLine(NextLine("config")).kind = "config" THEN "brace" ELSE "goto")
    /\ UNCHANGED <<mfFile, mfVars, mfParams, mfResult, mfQuote>>

\* The next line must open the block.
OpenBlock ==
    /\ mfPc["config"] = "brace"
    /\ ReadTo("config", IF FileLine(NextLine("config")).kind = "open" THEN "body" ELSE "done")
    /\ UNCHANGED <<mfFile, mfVars, mfParams, mfResult, mfQuote>>

\* GetConfigurationParam searches the list up to the first entry without a value.
Search(params) ==
    LET stop == {i \in 1 .. Len(params) : params[i].val = <<>> \/ params[i].tok = "p"}
        i == CHOOSE j \in stop : \A k \in stop : j <= k IN
    IF stop = {} \/ params[i].val = <<>> THEN <<>> ELSE <<params[i].val>>

(* GetConfigurationAndPreserveSpace: up to the closing brace, lines with a value are kept, and lines
   with a square bracket as they are; an end of file before the brace is an error. *)
Body ==
    /\ mfPc["config"] = "body"
    /\ LET l == FileLine(NextLine("config"))
           v == Expand(l.val, mfVars) IN
       CASE Eof("config") -> Finish("config") /\ UNCHANGED <<mfParams, mfResult>>
         [] ~Eof("config") /\ l.kind = "close" ->
                ReadTo("config", "done") /\ Answer("config", Search(mfParams)) /\ UNCHANGED mfParams
         [] OTHER -> /\ ReadTo("config", "body") /\ UNCHANGED mfResult
                     /\ mfParams' = IF v # <<>> \/ l.kind = "bracket"
                                    THEN Append(mfParams, Line(l.kind, l.tok, v)) ELSE mfParams
    /\ UNCHANGED <<mfFile, mfVars, mfQuote>>

\* GetValue: the first line of the whole file with the token, in whatever block.
GetValue ==
    /\ mfPc["global"] = "search"
    /\ LET l == FileLine(NextLine("global")) IN
       IF Eof("global") THEN Finish("global") /\ UNCHANGED mfResult
       ELSE IF l.tok = "p" THEN ReadTo("global", "done") /\ Answer("global", <<Expand(l.val, mfVars)>>)
       ELSE ReadTo("global", "search") /\ UNCHANGED mfResult
    /\ UNCHANGED <<mfFile, mfVars, mfParams, mfQuote>>

----------------------------------------------------------------------------
(* GetNextValidLine's treatment of a comment and a quotation in one line, by columns from 0.  The
   quotes are removed, which moves what follows the first by one and what follows both by two. *)
WriteQuote ==
    /\ mfQuote = <<>> /\ Len(mfFile) = 1 /\ \A r \in Readers : mfPc[r] = "idle"
    /\ \E s1, s2, c \in Columns :
          /\ s1 < s2 /\ c # s1 /\ c # s2 /\ c + 1 # s1 /\ c + 1 # s2
          /\ mfQuote' = <<s1, s2, c>>
    /\ UNCHANGED <<mfFile, mfVars, mfPos, mfPc, mfParams, mfResult>>

\* nC << nS2 on 64 bits: the test that stands where a comparison was meant.
ShiftIsZero(c, n) == \A b \in 0 .. 6 : (c \div 2 ^ b) % 2 = 0 \/ b + (n % 64) >= 64

NoCut == -1
CutAt(s1, s2, c) ==
    IF s1 < c /\ ~ShiftIsZero(c, s2)
    THEN IF c > s2 THEN c - 2 ELSE NoCut      \* looked for again behind the quotation
    ELSE c

----------------------------------------------------------------------------
(* The whole block at once, and typed answers. *)
Valid(f) == SelectSeq(f, LAMBDA l : l.kind # "comment")
Plain(l) == Line(l.kind, l.tok, Expand(l.val, BuildLocalShellVars(mfFile)))
Closing(f) == {i \in 3 .. Len(f) : f[i].kind = "close"}

(* GetConfiguration: the last line comes first, and the empty line that is read at the end of a file
   that ends in comments is kept too, as is what was read of a block that is not closed. *)
GetConfiguration(f) ==
    LET v == Valid(f)
        closed == Closing(v) # {}
        body == SubSeq(v, 3, IF closed THEN FirstOf(Closing(v)) - 1 ELSE Len(v))
        over == IF ~closed /\ Last(f).kind = "comment" THEN <<Line("empty", "", <<>>)>> ELSE <<>>
        kept(l) == l.val # <<>> \/ l.kind \in {"bracket", "empty"}
        lines == body \o over
    IN  IF Len(v) < 2 \/ v[2].kind # "open" THEN [ok |-> FALSE, params |-> <<>>]
        ELSE [ok |-> closed, params |-> Reverse(SelectSeq([i \in 1 .. Len(lines) |-> Plain(lines[i])], kept))]

\* atof and atoi of the values here, and MOOSStrCmp with "TRUE", which is none of them.
Signed(val) == IF val # <<>> /\ val[1] \in {"-", "+"}
               THEN (IF val[1] = "-" THEN -1 ELSE 1) * Atof(Tail(val)) ELSE Atof(val)
AsBool(val) == MOOSStrCmp(val, <<"T", "R", "U", "E">>) \/ (MOOSIsNumeric(val) /\ Signed(val) > 0)

Read(ok, val) == [ok |-> ok, val |-> val]

\* GetConfigurationParam by type: a double must begin like a number, an int need not be one, and a
\* negative number is a large one as an unsigned short.
ParamBool(a) == IF a = <<>> THEN NotFound ELSE Read(TRUE, AsBool(a[1]))
ParamDouble(a) == IF a = <<>> THEN NotFound
                  ELSE IF a[1] # <<>> /\ a[1][1] \in DigitChars \cup {"-"} THEN Read(TRUE, Signed(a[1])) ELSE NotFound
ParamInt(a) == IF a = <<>> THEN NotFound ELSE Read(TRUE, Signed(a[1]))
ParamUnsignedShort(a) == IF a = <<>> THEN NotFound ELSE Read(TRUE, Signed(a[1]) % 2^16)

\* GetValue by type: numbers must be numeric, and a negative number is zero as an unsigned int.
ValueBool(a) == IF a = <<>> THEN NotFound ELSE Read(TRUE, AsBool(a[1]))
ValueNumber(a) == IF a = <<>> THEN NotFound
                  ELSE IF MOOSIsNumeric(a[1]) THEN Read(TRUE, Signed(a[1])) ELSE NotFound
ValueUnsigned(a) == LET n == ValueNumber(a) IN IF n.ok /\ n.val < 0 THEN Read(TRUE, 0) ELSE n

----------------------------------------------------------------------------
MFNext == WriteLine \/ WriteQuote \/ (\E r \in Readers : Ask(r)) \/ GoTo \/ OpenBlock \/ Body \/ GetValue

MFSpec == MFInit /\ [][MFNext]_mfAll

----------------------------------------------------------------------------
(* Reference: the answers as functions of the file. *)
Block(f) == IF Len(f) < 2 \/ f[2].kind # "open" \/ Closing(f) = {} THEN <<>>
            ELSE SubSeq(f, 3, (CHOOSE i \in Closing(f) : \A j \in Closing(f) : i <= j) - 1)
KeptLines(l) == l.val # <<>> \/ l.kind = "bracket"
ParamOf(f) == Search(SelectSeq([i \in 1 .. Len(Block(f)) |-> Plain(Block(f)[i])], KeptLines))
ValueOfP(f) == LET ps == SelectSeq(f, LAMBDA l : l.tok = "p") IN
               IF ps = <<>> THEN <<>> ELSE <<Plain(ps[1]).val>>

(* Whatever the other thread reads in between, a thread is given what the file says: the parameter
   from the process's own block, with the variables that the file defines before or after it, and
   nothing from a block that is not closed. *)
AnswersAreOfTheFile ==
    /\ mfPc["config"] = "done" => mfResult["config"] = ParamOf(Valid(mfFile))
    /\ mfPc["global"] = "done" => mfResult["global"] = ValueOfP(Valid(mfFile))

(* A copy with an overload gives the new value wherever the file gave one, and changes nothing else:
   no line is lost and the other tokens keep their lines. *)
OverloadIsRead ==
    LET copy == MakeOverloadedCopy(mfFile, "p", <<"y">>)
        Others(f) == SelectSeq(Valid(f), LAMBDA l : l.tok # "p") IN
    /\ ValueOfP(Valid(copy)) = IF ValueOfP(Valid(mfFile)) = <<>> THEN <<>> ELSE <<<<"y">>>>
    /\ Others(copy) = Others(mfFile)

(* "Quoted strings are treated as literals": a comment mark inside the quotation cuts nothing, and
   one behind it cuts the line where it stands. *)
QuotedIsVerbatim ==
    mfQuote # <<>> =>
        LET s1 == mfQuote[1]  s2 == mfQuote[2]  c == mfQuote[3] IN
        CutAt(s1, s2, c) = IF c < s1 THEN c ELSE IF c < s2 THEN NoCut ELSE c - 2

(* Both ways to read a block give the same parameters, one in the order of the file and the other in
   reverse, and agree on whether there is one. *)
ListsAgree ==
    mfPc["config"] = "done" =>
        LET c == GetConfiguration(mfFile) IN
        /\ c.ok => c.params = Reverse(mfParams)
        /\ mfResult["config"] # <<>> => c.ok

(* A number is the same number by whichever call it is read, and a truth if it is above zero; what
   a narrow type makes of it agrees with it where it can. *)
TypedReadsAgree ==
    \A r \in Readers :
        LET a == mfResult[r]
            p == ParamDouble(a)
            v == ValueNumber(a) IN
        /\ p.ok => p = ParamInt(a) /\ ParamBool(a).val = (p.val > 0)
        /\ v.ok => ValueBool(a).val = (v.val > 0) /\ (v.val >= 0 => ValueUnsigned(a) = v)
        /\ p.ok /\ v.ok => p = v /\ (p.val >= 0 => ParamUnsignedShort(a) = v)

(* A number that GetValue reads, GetConfigurationParam reads as well: it does not, if the number begins
   with "+" or ".". *)
NumbersAreRead ==
    \A r \in Readers : LET a == mfResult[r] IN
        ValueNumber(a).ok /\ a[1] # <<>> => ParamDouble(a).ok

(* All that is promised of the mission file, read or copied. *)
MissionIsRead == AnswersAreOfTheFile /\ ListsAgree /\ TypedReadsAgree /\ OverloadIsRead
=============================================================================
