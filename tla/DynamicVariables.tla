-------------------------- MODULE DynamicVariables --------------------------
(***************************************************************************)
(* The dynamic variables of an application: CMOOSVariable and the map of   *)
(* them that mail updates, the application writes to, and                  *)
(* PublishFreshMOOSVariables sends through the Notify calls of the client. *)
(***************************************************************************)
EXTENDS Integers, Sequences, FiniteSets

CONSTANTS DynNames,       \* names of dynamic variables
          MaxWrites,      \* bound: writes and messages
          SkewTolerance   \* SKEW_TOLERANCE

VARIABLES dyVars,       \* m_MOOSVars
          dyPosted,     \* the messages of the last call that posted any
          dyPublished,  \* m_Published
          dySubscribed, \* the names registered for
          dyUp,         \* the client is connected
          dyClock,      \* writes so far, which is also the time
          dyLast        \* history, per name: the last write that took effect and was not yet published

dyVars_ == <<dyVars, dyPosted, dyPublished, dySubscribed, dyUp, dyClock, dyLast>>

NoWrite == [type |-> "none", val |-> 0, time |-> -1]
SubscribeName(n) == <<"in", n>>
NoSubscription == <<>>
PublishName(n) == <<"out", n>>

\* CMOOSVariable: both values are kept, and m_bDouble tells which of them counts.
NewVariable(n, sub) == [name |-> n, sub |-> sub, dfVal |-> 0, sVal |-> 0, bDouble |-> FALSE, fresh |-> FALSE, time |-> -1]

\* Mutant: the type is left as it was.
KeepsType(v, val, time) == [v EXCEPT !.dfVal = val, !.time = time, !.fresh = TRUE]

SetDouble(v, val, time) == [v EXCEPT !.dfVal = val, !.time = time, !.bDouble = TRUE, !.fresh = TRUE]
SetString(v, val, time) == [v EXCEPT !.sVal = val, !.time = time, !.bDouble = FALSE, !.fresh = TRUE]

\* Set from a message also takes its key for the name.
SetFromMsg(v, msg) ==
    [IF msg.type = "double" THEN SetDouble(v, msg.val, msg.time) ELSE SetString(v, msg.val, msg.time)
        EXCEPT !.name = msg.key]

IsSkewed(msg) == dyClock - msg.time > SkewTolerance \/ msg.time - dyClock > SkewTolerance

DYInit ==
    /\ dyVars = <<>> /\ dyPosted = {} /\ dyPublished = {} /\ dySubscribed = {} /\ dyUp \in BOOLEAN /\ dyClock = 0
    /\ dyLast = [n \in DynNames |-> NoWrite]

\* A second variable of the same name is refused.
AddMOOSVariable(n, sub) ==
    /\ n \notin DOMAIN dyVars
    /\ dyVars' = [k \in DOMAIN dyVars \cup {n} |-> IF k = n THEN NewVariable(n, sub) ELSE dyVars[k]]
    /\ UNCHANGED <<dyPosted, dyPublished, dySubscribed, dyUp, dyClock, dyLast>>

Written(n, write) == dyLast' = [dyLast EXCEPT ![n] = write] /\ dyClock' = dyClock + 1

SetMOOSVar(n, type) ==
    /\ n \in DOMAIN dyVars /\ dyClock < MaxWrites
    /\ dyVars' = [dyVars EXCEPT ![n] = IF type = "double" THEN SetDouble(@, dyClock, dyClock)
                                       ELSE SetString(@, dyClock, dyClock)]
    /\ Written(n, [type |-> type, val |-> dyClock, time |-> dyClock])
    /\ UNCHANGED <<dyPosted, dyPublished, dySubscribed, dyUp>>

\* The variable that GetMOOSVar returned, changed and handed back: it is looked up under the name it has.
SetMOOSVariable(n) ==
    LET v == SetDouble(dyVars[n], dyClock, dyClock) IN
    /\ n \in DOMAIN dyVars /\ dyClock < MaxWrites
    /\ IF v.name \in DOMAIN dyVars
       THEN dyVars' = [dyVars EXCEPT ![v.name] = v]
            /\ Written(v.name, [type |-> "double", val |-> dyClock, time |-> dyClock])
       ELSE UNCHANGED <<dyVars, dyClock, dyLast>>
    /\ UNCHANGED <<dyPosted, dyPublished, dySubscribed, dyUp>>

PeekFirst(mail, key) == LET S == {i \in 1 .. Len(mail) : mail[i].key = key} IN
                        IF S = {} THEN 0 ELSE CHOOSE i \in S : \A j \in S : i <= j

\* Each variable takes the first message of its key, unless that one is too old.
UpdateMOOSVariables(mail) ==
    LET at(n) == PeekFirst(mail, dyVars[n].sub)
        takes(n) == at(n) # 0 /\ ~IsSkewed(mail[at(n)])
    IN  /\ dyVars' = [n \in DOMAIN dyVars |-> IF takes(n) THEN SetFromMsg(dyVars[n], mail[at(n)]) ELSE dyVars[n]]
        /\ dyLast' = [n \in DynNames |-> IF n \in DOMAIN dyVars /\ takes(n)
                                         THEN [type |-> mail[at(n)].type, val |-> mail[at(n)].val,
                                               time |-> mail[at(n)].time]
                                         ELSE dyLast[n]]
        /\ dyClock' = dyClock + 1 /\ dyClock < MaxWrites
        /\ UNCHANGED <<dyPosted, dyPublished, dySubscribed, dyUp>>

\* Variables with a subscribe name are registered for, once the client is connected.
RegisterMOOSVariables ==
    /\ dyUp
    /\ dySubscribed' = dySubscribed \cup ({dyVars[n].sub : n \in DOMAIN dyVars} \ {NoSubscription})
    /\ UNCHANGED <<dyVars, dyPosted, dyPublished, dyUp, dyClock, dyLast>>

----------------------------------------------------------------------------
(* Notify, in its forms for a number, a string, binary data and a vector, with or without an
   auxiliary source: the name is noted whether or not the message can be posted. *)
Notification(name, v) ==
    [name |-> name, type |-> IF v.bDouble THEN "double" ELSE "string",
     val |-> IF v.bDouble THEN v.dfVal ELSE v.sVal, time |-> v.time]

Posted(msgs) == dyPosted' = IF dyUp THEN msgs ELSE {}

Notify(type, empty) ==
    /\ ~(type = "vector" /\ empty)
    /\ Posted({[name |-> <<"direct">>, type |-> IF type = "vector" THEN "binary" ELSE type, val |-> 0, time |-> dyClock]})
    /\ dyPublished' = dyPublished \cup {<<"direct">>}
    /\ UNCHANGED <<dyVars, dySubscribed, dyUp, dyClock, dyLast>>

Fresh == {n \in DOMAIN dyVars : dyVars[n].fresh}

PublishFreshMOOSVariables ==
    /\ Posted({Notification(PublishName(n), dyVars[n]) : n \in Fresh})
    /\ dyPublished' = dyPublished \cup {PublishName(n) : n \in Fresh}
    /\ dyVars' = [n \in DOMAIN dyVars |-> [dyVars[n] EXCEPT !.fresh = FALSE]]
    /\ dyLast' = [n \in DynNames |-> IF n \in Fresh THEN NoWrite ELSE dyLast[n]]
    /\ UNCHANGED <<dySubscribed, dyUp, dyClock>>

DyMail == {<<[key |-> SubscribeName(n), type |-> t, val |-> v, time |-> dyClock - d]>> :
              n \in DynNames, t \in {"double", "string"}, v \in {7}, d \in {0, SkewTolerance + 1, -SkewTolerance - 1}}
          \cup {<<[key |-> SubscribeName(n), type |-> "double", val |-> 7, time |-> dyClock],
                  [key |-> SubscribeName(n), type |-> "string", val |-> 8, time |-> dyClock]>> : n \in DynNames}

DYNext ==
    \/ \E n \in DynNames : \/ SetMOOSVariable(n)
                           \/ \E sub \in {SubscribeName(n), NoSubscription} : AddMOOSVariable(n, sub)
                           \/ \E t \in {"double", "string"} : SetMOOSVar(n, t)
    \/ \E mail \in DyMail : UpdateMOOSVariables(mail)
    \/ RegisterMOOSVariables
    \/ PublishFreshMOOSVariables
    \/ \E t \in {"double", "string", "binary", "vector"}, e \in BOOLEAN : Notify(t, e)

DYSpec == DYInit /\ [][DYNext]_dyVars_

----------------------------------------------------------------------------
(* What is published of a variable is one of its writes, the last one: its type, value and time
   belong together although the variable keeps a number and a string side by side; a write is
   published once, and a variable nobody wrote to is not published. *)
PublishedIsOneWrite ==
    [][PublishFreshMOOSVariables =>
          \A n \in DynNames :
              LET sent == {m \in dyPosted' : m.name = PublishName(n)}
                  w == dyLast[n]
              IN  IF dyUp /\ w # NoWrite
                  THEN sent = {[name |-> PublishName(n), type |-> w.type, val |-> w.val, time |-> w.time]}
                  ELSE sent = {}]_dyVars_

(* The comment on SetMOOSVar: the type of a variable "is set on first write". *)
TypeIsSetOnFirstWrite ==
    [][\A n \in DOMAIN dyVars : dyVars[n].time # -1 => dyVars'[n].bDouble = dyVars[n].bDouble]_dyVars_

(* The comment on SetMOOSVar: it sets the value of "a previously added dynamic variable". *)
AddedVariableIsFound == \A n \in DOMAIN dyVars : dyVars[n].name \in DOMAIN dyVars
=============================================================================
