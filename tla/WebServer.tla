------------------------------ MODULE WebServer ------------------------------
(***************************************************************************)
(* The database's web server: a listening thread that makes one handler    *)
(* with a thread of its own for each browser and throws away the handlers  *)
(* whose thread has ended, and the handlers, which share one communication *)
(* client and take turns with it under m_pMOOSCommsLock.  A browser pokes  *)
(* a variable with the URL's form and is shown a page of what a server     *)
(* request returns.  Strings are sequences of words and characters; the    *)
(* layout of the page is left out.                                         *)
(***************************************************************************)
EXTENDS Integers, Sequences, FiniteSets, Strings

CONSTANTS Browsers, WebVar,
          MaxDrops          \* bound: how often the connection to the database is lost

VARIABLES wsListen,     \* listening thread: connect, accept, clean, over
          wsList,       \* m_Connections
          wsLeft,       \* handlers the clean-up has still to look at
          wsPc,         \* per handler: none, line, poke, headers, make, ask, close, ended
          wsRunning,    \* per handler: its thread's m_bRunning
          wsFreed,      \* handlers that were deleted
          wsAsked,      \* per browser: what the user typed, or NoAsk
          wsRequest,    \* per handler: m_sFocusVariable, m_Headers and the poke's form
          wsPage,       \* per handler: m_sWebPage and what became of it
          wsLock,       \* who holds m_pMOOSCommsLock, or "none"
          wsUp,         \* the client is connected
          wsOut,        \* its outbox: the pokes it has not sent
          wsDB,         \* pokes the database has, in order
          wsDrops,
          wsLost        \* history: browsers whose poke went down with a connection

wsVars == <<wsListen, wsList, wsLeft, wsPc, wsRunning, wsFreed, wsAsked, wsRequest, wsPage, wsLock, wsUp,
            wsOut, wsDB, wsDrops, wsLost>>
wsHandlers == <<wsListen, wsList, wsLeft, wsRunning, wsFreed>>
wsComms == <<wsUp, wsOut, wsDB, wsDrops, wsLost>>

----------------------------------------------------------------------------
(* What a browser may ask for, and the URL it makes of it. *)

NoAsk == [focus |-> <<>>, form |-> "none", text |-> <<>>]
WebText == <<"+", " ", "a">>
Asks == {[focus |-> <<"favicon.ico">>, form |-> "none", text |-> <<>>],
         [focus |-> WebVar, form |-> "poke", text |-> WebText]}
        \cup [focus : {<<>>}, form : {"poke", "unsubmitted"}, text : {<<"1">>}]

\* The browser's own encoding (external).
Encode(c) == CASE c = " " -> <<"+">> [] c = "+" -> <<"%", "2", "B">> [] OTHER -> <<c>>
EncodeText(s) == IF s = WebText THEN Encode(s[1]) \o Encode(s[2]) \o Encode(s[3]) ELSE s

Form(a) == (IF a.focus = <<>> THEN <<"VariableToPoke", "=">> \o WebVar \o <<"&">> ELSE <<>>)
           \o <<"NewValue", "=">> \o EncodeText(a.text)
           \o IF a.form = "poke" THEN <<"&", "DoPoke", "=", "Poke">> ELSE <<>>
URL(a) == <<"/">> \o a.focus \o IF a.form = "none" THEN <<>> ELSE <<"?">> \o Form(a)
HeaderLines(a) == IF a.form = "poke" THEN <<"connection", ":", " ", "close">> ELSE <<"keep-alive", ":", " ", "3">>

----------------------------------------------------------------------------
(* ReadRequest: the first line gives the focus and the form's contents. *)

Focus(url) == MOOSRemoveChars(MOOSChomp(url, <<"?">>).head, {"/"})
FormContents(url) == MOOSChomp(url, <<"?">>).rest

(* AddHeader, and the questions a request answers about its headers. *)
HeaderUpper(h) == CASE h = <<"connection">> -> <<"CONNECTION">> [] h = <<"keep-alive">> -> <<"KEEP-ALIVE">>
                    [] OTHER -> h
AddHeader(headers, line) ==
    LET c == MOOSChomp(MOOSRemoveChars(line, {" "}), <<":">>)
        name == HeaderUpper(c.head)
    IN  [h \in DOMAIN headers \cup {name} |-> IF h = name THEN StringListToVector(c.rest, <<",">>) ELSE headers[h]]
GetHeader(headers, h) == IF HeaderUpper(h) \in DOMAIN headers THEN headers[HeaderUpper(h)] ELSE <<>>
HasProperty(headers, h, p) == \E i \in 1 .. Len(GetHeader(headers, h)) : MOOSStrCmp(GetHeader(headers, h)[i], p)
IsKeepAlive(headers) ==
    HasProperty(headers, <<"CONNECTION">>, <<"keep-alive">>) \/ ~HasProperty(headers, <<"CONNECTION">>, <<"close">>)
GetKeepAliveTime(headers) == GetHeader(headers, <<"keep-alive">>)

(* HandlePoke: the fields of the form, the tests, and the value's conversion. *)
Fields(form) ==
    LET pairs == StringListToVector(form, <<"&">>)
        token(i) == MOOSChomp(pairs[i], <<"=">>).head
    IN  [t \in {token(i) : i \in 1 .. Len(pairs)} |->
            MOOSChomp(pairs[LastOf({i \in 1 .. Len(pairs) : token(i) = t})], <<"=">>).rest]
Pokes(focus, fields) ==
    /\ focus = <<>> => {<<"VariableToPoke">>, <<"DoPoke">>} \subseteq DOMAIN fields
    /\ <<"NewValue">> \in DOMAIN fields
Poked(focus, fields) == IF focus = <<>> THEN fields[<<"VariableToPoke">>] ELSE focus

CharFromHex(h) == CASE h = <<"2", "B">> -> "+" [] h = <<"2", "0">> -> " " [] OTHER -> "?"

RECURSIVE DecodeHex(_)
DecodeHex(s) ==
    LET n == FindChar(s, "%", 1) IN
    IF n = NoPos THEN s
    ELSE DecodeHex(SubSeq(s, 1, n - 1) \o <<CharFromHex(SubSeq(s, n + 1, n + 2))>> \o From(s, n + 3))

Spaced(s) == [i \in 1 .. Len(s) |-> IF s[i] = "+" THEN " " ELSE s[i]]

Decode(s) == DecodeHex(Spaced(s))

NoValue == [type |-> "none", val |-> <<>>]
PokedValue(raw) == IF MOOSIsNumeric(raw) THEN [type |-> "double", val |-> <<Atof(raw)>>]
                   ELSE [type |-> "string", val |-> Decode(raw)]

----------------------------------------------------------------------------
\* A request as the handler takes it apart.  It is computed when the browser is let in, which is the
\* only time it needs to be; the handler's steps say when its parts are used.
Parse(a) ==
    LET focus == Focus(URL(a))
        fields == Fields(FormContents(URL(a)))
        pokes == Pokes(focus, fields)
    IN  [focus |-> focus, pokes |-> pokes, icon |-> MOOSStrCmp(focus, <<"favicon.ico">>),
         var |-> IF pokes THEN Poked(focus, fields) ELSE <<>>,
         value |-> IF pokes THEN PokedValue(fields[<<"NewValue">>]) ELSE NoValue,
         headers |-> AddHeader(<<>>, HeaderLines(a))]

WSInit ==
    /\ wsListen = "connect" /\ wsList = <<>> /\ wsLeft = <<>>
    /\ wsPc = [b \in Browsers |-> "none"] /\ wsRunning = [b \in Browsers |-> FALSE] /\ wsFreed = {}
    /\ wsAsked = [b \in Browsers |-> NoAsk]
    /\ wsRequest = [b \in Browsers |-> Parse(NoAsk)]
    /\ wsPage = [b \in Browsers |-> [kind |-> "none", rows |-> 0, answer |-> "none"]]
    /\ wsLock = "none" /\ wsUp = FALSE /\ wsOut = <<>> /\ wsDB = <<>> /\ wsDrops = 0 /\ wsLost = {}

Enter(b, l) == wsPc' = [wsPc EXCEPT ![b] = l]
Locked(b) == wsLock = "none" /\ wsLock' = b
UnLock == wsLock' = "none"

\* Mutant: the exception's handler forgets the lock.
KeepsTheLock == wsLock' = wsLock

UnLockOnFailure == wsLock' = "none"

----------------------------------------------------------------------------
(* The communication client, as the handlers see it.  The database's mail comes in order, and
   a lost connection takes the outbox with it. *)
Connected ==
    /\ ~wsUp /\ wsUp' = TRUE
    /\ UNCHANGED <<wsHandlers, wsPc, wsAsked, wsRequest, wsPage, wsLock, wsOut, wsDB, wsDrops, wsLost>>

Dropped ==
    /\ wsUp /\ wsDrops < MaxDrops /\ wsUp' = FALSE /\ wsDrops' = wsDrops + 1
    /\ wsLost' = wsLost \cup {wsOut[i].by : i \in 1 .. Len(wsOut)} /\ wsOut' = <<>>
    /\ UNCHANGED <<wsHandlers, wsPc, wsAsked, wsRequest, wsPage, wsLock, wsDB>>

\* The client's own thread sends the outbox at its tick.
ClientTick ==
    /\ wsUp /\ wsOut # <<>> /\ wsDB' = wsDB \o wsOut /\ wsOut' = <<>>
    /\ UNCHANGED <<wsHandlers, wsPc, wsAsked, wsRequest, wsPage, wsLock, wsUp, wsDrops, wsLost>>

----------------------------------------------------------------------------
(* The listening thread. *)

\* It waits for the database before it binds; another server on the port ends it.
Bind ==
    /\ wsListen = "connect" /\ wsUp
    /\ wsListen' \in {"accept", "over"}
    /\ UNCHANGED <<wsList, wsLeft, wsRunning, wsFreed, wsPc, wsAsked, wsRequest, wsPage, wsLock, wsComms>>

\* Mutant: the flag is left to the new thread, which has not run yet.
NotYetRunning(b) == wsRunning

RunningBeforeCreated(b) == [wsRunning EXCEPT ![b] = TRUE]

\* Accept, a new handler, its thread, and the list.
Accept(b) ==
    /\ wsListen = "accept" /\ wsPc[b] = "none" /\ wsListen' = "clean"
    /\ \E a \in Asks : /\ wsAsked' = [wsAsked EXCEPT ![b] = a]
                       /\ wsRequest' = [wsRequest EXCEPT ![b] = Parse(a)]
    /\ wsRunning' = RunningBeforeCreated(b) /\ Enter(b, "line")
    /\ wsList' = Append(wsList, b) /\ wsLeft' = Append(wsList, b)
    /\ UNCHANGED <<wsFreed, wsPage, wsLock, wsComms>>

HasCompleted(b) == ~wsRunning[b]

\* The clean-up takes the flags of the handlers one after the other.
CleanUp ==
    /\ wsListen = "clean" /\ wsLeft # <<>>
    /\ LET b == Head(wsLeft) IN
       /\ wsFreed' = IF HasCompleted(b) THEN wsFreed \cup {b} ELSE wsFreed
       /\ wsList' = IF HasCompleted(b) THEN SelectSeq(wsList, LAMBDA x : x # b) ELSE wsList
    /\ wsLeft' = Tail(wsLeft) /\ wsListen' = IF Len(wsLeft) = 1 THEN "accept" ELSE "clean"
    /\ UNCHANGED <<wsPc, wsRunning, wsAsked, wsRequest, wsPage, wsLock, wsComms>>

----------------------------------------------------------------------------
(* A handler's thread. *)

\* The first line, and the tests of HandlePoke, which need no lock.  A browser that goes away before
\* the end of the line is not answered.
ReadRequest(b) ==
    /\ wsPc[b] = "line"
    /\ Enter(b, IF wsRequest[b].pokes THEN "poke" ELSE "headers") \/ Enter(b, "close")
    /\ UNCHANGED <<wsHandlers, wsAsked, wsRequest, wsPage, wsLock, wsComms>>

\* Lock, Notify, UnLock.
HandlePoke(b) ==
    /\ wsPc[b] = "poke" /\ wsLock = "none" /\ Enter(b, "headers")
    /\ wsOut' = IF wsUp THEN Append(wsOut, [by |-> b, var |-> wsRequest[b].var, value |-> wsRequest[b].value])
                ELSE wsOut
    /\ wsLost' = IF wsUp THEN wsLost ELSE wsLost \cup {b}
    /\ UNCHANGED <<wsHandlers, wsAsked, wsRequest, wsPage, wsLock, wsUp, wsDB, wsDrops>>

\* The other header lines; a browser that goes away among them is served all the same.
ReadHeaders(b) ==
    /\ wsPc[b] = "headers" /\ Enter(b, "make")
    /\ UNCHANGED <<wsHandlers, wsAsked, wsRequest, wsPage, wsLock, wsComms>>

NotFoundPage == [kind |-> "Not Found", rows |-> 0, answer |-> "404"]
FailedPage == [kind |-> "none", rows |-> 0, answer |-> "404"]

\* MakeWebPage: an icon is refused at once; otherwise the lock, which is kept for the whole request.
MakeWebPage(b) ==
    /\ wsPc[b] = "make"
    /\ \/ /\ wsRequest[b].icon
          /\ wsPage' = [wsPage EXCEPT ![b] = NotFoundPage] /\ Enter(b, "close")
          /\ UNCHANGED wsLock
       \/ /\ ~wsRequest[b].icon /\ Locked(b)
          /\ Enter(b, "ask") /\ UNCHANGED wsPage
    /\ UNCHANGED <<wsHandlers, wsAsked, wsRequest, wsComms>>

\* ServerRequest("ALL") posts and flushes: what the outbox holds goes to the database before the
\* request, whose reply lists every variable.
BuildFullDBWebPageContents(db) == [kind |-> "full", rows |-> Len(db), answer |-> "200"]
PeekMail(db, key) == \E i \in 1 .. Len(db) : db[i].var = key
BuildSingleVariableWebPageContents(db, key) ==
    [kind |-> IF PeekMail(db, key) THEN "single" ELSE "absent", rows |-> Len(db), answer |-> "200"]

Flushed == wsDB \o wsOut

PageMade(b) ==
    /\ wsPc[b] = "ask" /\ wsUp
    /\ wsDB' = wsDB \o wsOut /\ wsOut' = <<>>
    /\ wsPage' = [wsPage EXCEPT ![b] =
           IF wsRequest[b].focus = <<>> THEN BuildFullDBWebPageContents(Flushed)
           ELSE BuildSingleVariableWebPageContents(Flushed, wsRequest[b].focus)]
    /\ UnLock /\ Enter(b, "close")
    /\ UNCHANGED <<wsHandlers, wsAsked, wsRequest, wsUp, wsDrops, wsLost>>

\* No connection, or no reply in time: the outbox may have been flushed before the time ran out.
PageFailed(b) ==
    /\ wsPc[b] = "ask"
    /\ \/ UNCHANGED <<wsDB, wsOut>>
       \/ wsUp /\ wsDB' = wsDB \o wsOut /\ wsOut' = <<>>
    /\ wsPage' = [wsPage EXCEPT ![b] = FailedPage]
    /\ UnLockOnFailure /\ Enter(b, "close")
    /\ UNCHANGED <<wsHandlers, wsAsked, wsRequest, wsUp, wsDrops, wsLost>>

\* The header and the page, vCloseSocket, and the thread's flag.
SendWebPage(b) ==
    /\ wsPc[b] = "close" /\ Enter(b, "ended") /\ wsRunning' = [wsRunning EXCEPT ![b] = FALSE]
    /\ UNCHANGED <<wsListen, wsList, wsLeft, wsFreed, wsAsked, wsRequest, wsPage, wsLock, wsComms>>

Serve(b) == \/ ReadRequest(b) \/ HandlePoke(b) \/ ReadHeaders(b) \/ MakeWebPage(b)
            \/ PageMade(b) \/ PageFailed(b) \/ SendWebPage(b)

WSNext ==
    \/ Connected \/ Dropped \/ ClientTick
    \/ Bind \/ CleanUp
    \/ \E b \in Browsers : Accept(b) \/ Serve(b)

\* The threads run; a browser sends its request or goes away; a server request has a time limit.
WSSpec == WSInit /\ [][WSNext]_wsVars /\ WF_wsVars(CleanUp) /\ \A b \in Browsers : WF_wsVars(Serve(b))

----------------------------------------------------------------------------
Serving(b) == wsPc[b] \notin {"none", "ended"}
PokeOf(b) == {i \in 1 .. Len(wsDB) : wsDB[i].by = b}

(* A handler is not deleted while its thread uses it; a page shown to the browser that poked is
   not older than the poke; what was poked is what the user typed, a number as a number; and a browser
   that said it closes the connection is not taken to keep it alive. *)
PagesAreServed ==
    /\ \A b \in wsFreed : ~Serving(b)
    /\ \A b \in Browsers : wsPage[b].answer = "200" /\ wsAsked[b].form = "poke" /\ b \notin wsLost =>
           \E i \in PokeOf(b) : i <= wsPage[b].rows /\ wsPage[b].kind # "absent"
    /\ \A i \in 1 .. Len(wsDB) :
           /\ Cardinality(PokeOf(wsDB[i].by)) = 1 /\ wsDB[i].var = WebVar
           /\ wsDB[i].value = IF wsAsked[wsDB[i].by].text = <<"1">> THEN [type |-> "double", val |-> <<1>>]
                              ELSE [type |-> "string", val |-> wsAsked[wsDB[i].by].text]
    /\ \A b \in Browsers : LET h == wsRequest[b].headers IN
           IF wsAsked[b].form = "poke" THEN ~IsKeepAlive(h)
           ELSE IsKeepAlive(h) /\ GetKeepAliveTime(h) = <<<<"3">>>>

(* Every browser that was let in is answered or given up, whatever the others meet: the lock does
   not stay with a handler whose request failed. *)
BrowsersAreServed == \A b \in Browsers : Serving(b) ~> wsPc[b] = "ended"
=============================================================================
