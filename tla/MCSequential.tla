---------------------------- MODULE MCSequential ----------------------------
(***************************************************************************)
(* Small instances of the parts that a thread calls and that start no thread *)
(* of their own: skew filter and clock, server audit, string utilities,    *)
(* mission file, command line, serial port, dynamic variables and the      *)
(* topology tool.  They share no state, so each behaviour is one of one    *)
(* part, chosen at the start.                                              *)
(***************************************************************************)
EXTENDS SkewFilter, Clock, Audit, StringChecks, MissionFile, CommandLine, SerialPort, DynamicVariables, Topology

VARIABLE part

sequentialVars == <<part, skewVars, clkVars, auditVars, stringVars, mfAll, clVars, spVars, dyVars_, topVars>>

MCTopClients == <<"a", "b", "g">>
MCLatencies == {-1, 2}

\* A part that was not chosen rests in one of its initial states.
Init == /\ part \in {"skew", "clock", "audit", "strings", "mission", "command", "serial", "dynamic", "topology"}
        /\ SkewInit
        /\ ClkInit /\ (part # "clock" => ~clkQuiet /\ clkAsync /\ clkDB = CHOOSE d \in Databases : TRUE)
        /\ AuditInit
        /\ StringInit /\ (part # "strings" => what = "glob")
        /\ MFInit
        /\ CLInit
        /\ SPInit /\ (part # "serial" => spSettings = Setting(DefaultSettings, "BAUDRATE", 0))
        /\ DYInit /\ (part # "dynamic" => dyUp)
        /\ TopInit

Next == /\ UNCHANGED part
        /\ \/ /\ part = "skew" /\ SkewNext
              /\ UNCHANGED <<clkVars, auditVars, stringVars, mfAll, clVars, spVars, dyVars_, topVars>>
           \/ /\ part = "clock" /\ ClkNext
              /\ UNCHANGED <<skewVars, auditVars, stringVars, mfAll, clVars, spVars, dyVars_, topVars>>
           \/ /\ part = "audit" /\ AuditNext
              /\ UNCHANGED <<skewVars, clkVars, stringVars, mfAll, clVars, spVars, dyVars_, topVars>>
           \/ /\ part = "strings" /\ StringNext
              /\ UNCHANGED <<skewVars, clkVars, auditVars, mfAll, clVars, spVars, dyVars_, topVars>>
           \/ /\ part = "mission" /\ MFNext
              /\ UNCHANGED <<skewVars, clkVars, auditVars, stringVars, clVars, spVars, dyVars_, topVars>>
           \/ /\ part = "command" /\ CLNext
              /\ UNCHANGED <<skewVars, clkVars, auditVars, stringVars, mfAll, spVars, dyVars_, topVars>>
           \/ /\ part = "serial" /\ SPNext
              /\ UNCHANGED <<skewVars, clkVars, auditVars, stringVars, mfAll, clVars, dyVars_, topVars>>
           \/ /\ part = "dynamic" /\ DYNext
              /\ UNCHANGED <<skewVars, clkVars, auditVars, stringVars, mfAll, clVars, spVars, topVars>>
           \/ /\ part = "topology" /\ TopNext
              /\ UNCHANGED <<skewVars, clkVars, auditVars, stringVars, mfAll, clVars, spVars, dyVars_>>

Spec == Init /\ [][Next]_sequentialVars

(* What is read from text is what the text says: the utilities agree with the definitions of what
   they look for, and the mission file is read as it is written, by two threads at once. *)
TextIsRead == StringsAreAsDefined /\ MissionIsRead
=============================================================================
