----------------------------- MODULE SerialPort -----------------------------
(***************************************************************************)
(* CMOOSSerialPort on Linux, and the instrument that talks through it: the *)
(* device's bytes arrive a few at a time, the streaming port's thread cuts *)
(* telegrams out of an accumulator and keeps them for GetLatest and        *)
(* GetEarliest, and the polled port reads one telegram per call, throwing  *)
(* away or keeping what it has when time runs out.  Bytes are carried as   *)
(* their positions in the device's stream.                                 *)
(***************************************************************************)
EXTENDS Integers, Sequences, FiniteSets, Strings

CONSTANTS CommsSpace,       \* DEFAULT_COMMS_SPACE; the accumulator is twice as large
          InboxMax,         \* MOOS_SERIAL_INBOX_MAX_SIZE
          TelegramLen       \* TELEGRAM_LEN

ASSUME SerialAssumption == InboxMax \in Nat

VARIABLES spState,      \* closed, open, streaming, joining, closing, exited (the process)
          spSettings,   \* what Configure has read
          spFed,        \* bytes GrabN has returned
          spTmp,        \* pTmp of the thread, or pData of the polled call
          spStore,      \* pAccumulator, or telegramBuffer
          spInBox,      \* m_InBox, newest first: positions of the telegrams' bytes
          spGot,        \* the telegram the user was given last
          spReset       \* history: position up to which bytes were thrown away last

spVars == <<spState, spSettings, spFed, spTmp, spStore, spInBox, spGot, spReset>>

----------------------------------------------------------------------------
(* The instrument's NMEA sentences.  The letters stand for the codes 8 and 2. *)

Code(c) == IF c = "m" THEN {3} ELSE IF c = "n" THEN {1} ELSE {}
Xor(x, y) == (x \ y) \cup (y \ x)
CheckSum(s) ==
    LET sum[n \in 0 .. Len(s)] == IF n = 0 THEN {} ELSE Xor(sum[n - 1], Code(s[n]))
    IN  sum[Len(s)]
HexDigits(sum) == <<"0", CASE sum = {} -> "0" [] sum = {1} -> "2" [] sum = {3} -> "8" [] OTHER -> "a">>

\* CMOOSInstrument::Message2NMEA, in upper case, and DoNMEACheckSum, which compares without case.
Message2NMEA(msg) == <<"$">> \o msg \o <<"*">> \o Upper(HexDigits(CheckSum(msg))) \o <<"\r", "\n">>
DoNMEACheckSum(s) ==
    LET body == MOOSChomp(MOOSChomp(s, <<"$">>).rest, <<"*">>)
    IN  MOOSStrCmp(HexDigits(CheckSum(body.head)), body.rest)

\* What the device sends: sentences, and noise without an end.
DeviceStream == Message2NMEA(<<"m", "n">>) \o Message2NMEA(<<"n">>) \o <<"#", "#", "#", "#", "#", "#">>
                \o Message2NMEA(<<"m">>)
Size == Len(DeviceStream)
Byte[i \in 1 .. Size] == DeviceStream[i]

GetTermCharacter == "\r"
Terminators == {i \in 1 .. Size : Byte[i] = GetTermCharacter}
Text(positions) == MOOSRemoveChars([i \in 1 .. Len(positions) |-> Byte[positions[i]]], {"\r", "\n"})

----------------------------------------------------------------------------
(* Configure reads its parameters, the last of each kind winning. *)

DefaultSettings == [baud |-> 9600, streaming |-> FALSE, handshaking |-> FALSE, verbose |-> FALSE, csm |-> FALSE]
BaudRates == {300, 600, 1200, 2400, 4800, 9600, 19200, 38400, 57600, 115200, 500000}
Flag(value) == MOOSStrCmp(value, <<"TRUE">>)
Setting(s, tok, val) ==
    CASE tok = "BAUDRATE" -> [s EXCEPT !.baud = IF val = 0 THEN 9600 ELSE val]
      [] tok = "STREAMING" -> [s EXCEPT !.streaming = Flag(val)]
      [] tok = "HANDSHAKING" -> [s EXCEPT !.handshaking = Flag(val)]
      [] tok = "VERBOSE" -> [s EXCEPT !.verbose = Flag(val)]
      [] tok = "USECSMEXT" -> [s EXCEPT !.csm = Flag(val)]
      [] OTHER -> s

SPInit ==
    /\ spState = "closed" /\ spFed = 0
    /\ spTmp = <<>> /\ spStore = <<>> /\ spInBox = <<>> /\ spGot = <<>> /\ spReset = 0
    /\ \E streaming \in {<<"TRUE">>, <<"FALSE">>}, baud \in {0, 1} :
          spSettings = Setting(Setting(DefaultSettings, "BAUDRATE", baud), "STREAMING", streaming)

\* Configure flushes the port and, when it is to stream, starts its thread.
Configured == IF spSettings.streaming THEN "streaming" ELSE "open"

\* Create refuses a rate it does not know; a device that cannot be opened ends the process.
CreatePort ==
    /\ spState = "closed" /\ spSettings.baud \in BaudRates
    /\ spState' \in {Configured, "exited"}
    /\ UNCHANGED <<spSettings, spFed, spTmp, spStore, spInBox, spGot, spReset>>

\* GrabN: bytes that have arrived; the device sends when it likes.
Grabbed(n) == [i \in 1 .. n |-> spFed + i]

----------------------------------------------------------------------------
(* The streaming port's thread. *)

\* ReadNWithTimeOut: GrabN until the buffer is full or the time is up; bytes go on arriving.
ReadNWithTimeOut(n) ==
    /\ spState \in {"streaming", "joining"} /\ Len(spTmp) + n <= CommsSpace /\ spFed + n <= Size
    /\ spTmp' = spTmp \o Grabbed(n) /\ spFed' = spFed + n
    /\ UNCHANGED <<spState, spSettings, spStore, spInBox, spGot, spReset>>

\* Each telegram that ends in the accumulator is put to the front of the inbox and taken off the
\* accumulator: after n bytes, the inbox and how many bytes have been taken off.
Stuff(cut, acc, n) == [box |-> <<SubSeq(acc, cut.off + 1, n)>> \o cut.box, off |-> n]
Telegrams(acc, box) ==
    LET cut[n \in 0 .. Len(acc)] ==
            IF n = 0 THEN [box |-> box, off |-> 0]
            ELSE IF acc[n] \in Terminators THEN Stuff(cut[n - 1], acc, n) ELSE cut[n - 1]
    IN  cut[Len(acc)]
Newest(box) == SubSeq(box, 1, IF Len(box) > InboxMax THEN InboxMax ELSE Len(box))

\* Mutant: an overflow throws the read away and keeps the store.
KeepStore == spStore

AfterOverflow == <<>>

\* The rest of the loop, under m_InBoxLock: append, or start again when there is no room.
CommsLoop ==
    /\ spState \in {"streaming", "joining"} /\ spTmp # <<>> /\ spTmp' = <<>>
    /\ \/ /\ Len(spStore) + Len(spTmp) > 2 * CommsSpace
          /\ spStore' = AfterOverflow /\ spReset' = spFed /\ UNCHANGED spInBox
       \/ /\ Len(spStore) + Len(spTmp) <= 2 * CommsSpace
          /\ LET acc == spStore \o spTmp
                 cut == Telegrams(acc, spInBox) IN
             /\ spStore' = From(acc, cut.off + 1) /\ spInBox' = Newest(cut.box)
          /\ UNCHANGED spReset
    /\ UNCHANGED <<spState, spSettings, spFed, spGot>>

Give(t) == spGot' = t

GetLatest ==
    /\ spState = "streaming" /\ spInBox # <<>> /\ Give(Head(spInBox)) /\ spInBox' = Tail(spInBox)
    /\ UNCHANGED <<spState, spSettings, spFed, spTmp, spStore, spReset>>

GetEarliest ==
    /\ spState = "streaming" /\ spInBox # <<>> /\ Give(spInBox[Len(spInBox)])
    /\ spInBox' = SubSeq(spInBox, 1, Len(spInBox) - 1)
    /\ UNCHANGED <<spState, spSettings, spFed, spTmp, spStore, spReset>>

----------------------------------------------------------------------------
(* The polled port: a byte at a time into pData (GetTelegram) or into a buffer that outlives the
   call (GetTelegramOrAccumulate).  Calls of the two are not mixed here. *)

IsCompleteReply(data) == data # <<>> /\ data[Len(data)] \in Terminators

Grab(data) == Append(data, spFed + 1)

GetTelegram ==
    /\ spState = "open" /\ spStore = <<>>
    /\ \/ /\ spFed < Size /\ Len(spTmp) < TelegramLen /\ spFed' = spFed + 1
          /\ IF IsCompleteReply(Grab(spTmp)) THEN Give(Grab(spTmp)) /\ spTmp' = <<>>
             ELSE spTmp' = Grab(spTmp) /\ UNCHANGED spGot
          /\ UNCHANGED spReset
       \/ /\ spTmp # <<>> /\ spTmp' = <<>> /\ spReset' = spFed      \* out of time, or full
          /\ UNCHANGED <<spFed, spGot>>
    /\ UNCHANGED <<spState, spSettings, spStore, spInBox>>

\* A full buffer is never emptied again.
GetTelegramOrAccumulate ==
    /\ spState = "open" /\ spTmp = <<>>
    /\ spFed < Size /\ Len(spStore) < TelegramLen /\ spFed' = spFed + 1
    /\ IF IsCompleteReply(Grab(spStore)) THEN Give(Grab(spStore)) /\ spStore' = <<>>
       ELSE spStore' = Grab(spStore) /\ UNCHANGED spGot
    /\ UNCHANGED <<spState, spSettings, spTmp, spInBox, spReset>>

\* Close sets m_bQuit, waits for a thread to end the read it is in, and closes the port.
ClosePort ==
    /\ \/ spState = "open" /\ spState' = "closing"
       \/ spState = "streaming" /\ spState' = "joining"
    /\ UNCHANGED <<spSettings, spFed, spTmp, spStore, spInBox, spGot, spReset>>

Joined ==
    /\ spState = "joining" /\ spState' = "closing"
    /\ UNCHANGED <<spSettings, spFed, spTmp, spStore, spInBox, spGot, spReset>>

SPNext ==
    \/ CreatePort
    \/ \E n \in 1 .. 2 : ReadNWithTimeOut(n)
    \/ CommsLoop \/ GetLatest \/ GetEarliest \/ GetTelegram \/ GetTelegramOrAccumulate \/ ClosePort \/ Joined

SPSpec == SPInit /\ [][SPNext]_spVars

----------------------------------------------------------------------------
Received == {spInBox[i] : i \in 1 .. Len(spInBox)} \cup ({spGot} \ {<<>>})
InboxFront(data) == data # <<>> => data[1] - 1 \in Terminators \cup {spReset}

(* However the bytes are cut up on their way: a telegram is one run of the device's bytes that
   ends with the terminator and holds no other, never the front of one joined to the end of
   another; one that begins where the last ended is the sentence that was sent, whose check sum is
   right; what is being put together is short of its front only where the port threw bytes away; and
   the inbox holds the newest, in order. *)
TelegramsAreTrue ==
    /\ \A t \in Received :
           /\ \A i \in 1 .. Len(t) - 1 : t[i + 1] = t[i] + 1 /\ t[i] \notin Terminators
           /\ t[Len(t)] \in Terminators
           /\ t[1] - 1 \in Terminators \cup {0} => DoNMEACheckSum(Text(t))
    /\ InboxFront(IF spSettings.streaming THEN spStore ELSE spStore \o spTmp)
    /\ \A i, j \in 1 .. Len(spInBox) : i < j => spInBox[i][1] > spInBox[j][1]
    /\ Len(spInBox) <= InboxMax
=============================================================================
