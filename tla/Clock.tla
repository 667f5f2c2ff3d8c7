------------------------------- MODULE Clock -------------------------------
(***************************************************************************)
(* The clock of a client: MOOSTime is the local clock, warped, plus a skew *)
(* that the handshake sets and every timed exchange with the database      *)
(* corrects.  Times are relative to the moment a request leaves, so only   *)
(* the offset of the database's clock and the delays of the network        *)
(* matter.  Skews are multiples of 1/SkewUnit of a tick, which is exact    *)
(* when SkewUnit is 2 * 10^MaxUpdates.                                     *)
(***************************************************************************)
EXTENDS Integers

CONSTANTS Offsets,      \* offsets of a remote database's clock from the client's, shifted by MaxDelay
          MaxDelay,     \* bound: a message takes 0 .. MaxDelay ticks
          MaxUpdates,   \* bound: exchanges in one connection
          SkewUnit      \* parts of a tick a skew is counted in

ASSUME ClkAssumption ==
    /\ Offsets \subseteq Int
    /\ MaxDelay \in Nat
    /\ SkewUnit \in Nat /\ SkewUnit = 2 * (SkewUnit \div 2)

VARIABLES clkSkew,      \* gdfMOOSSkew
          clkCorrect,   \* m_bDoLocalTimeCorrection
          clkQuiet,     \* m_bQuiet
          clkAsync,     \* the client is a MOOSAsyncCommClient
          clkUp,        \* connected
          clkDB,        \* the database: its clock's offset, whether it is on this host, whether it is
                        \* the single threaded server
          clkUpdates,   \* exchanges so far in this connection
          clkGuessed    \* history: a packet without a timing message was used

clkVars == <<clkSkew, clkCorrect, clkQuiet, clkAsync, clkUp, clkDB, clkUpdates, clkGuessed>>

Delays == 0 .. MaxDelay
Databases == [offset : {o - MaxDelay : o \in Offsets}, here : {FALSE}, single : BOOLEAN]
             \cup [offset : {0}, here : {TRUE}, single : BOOLEAN]

\* MOOSLocalTime and MOOSTime, at a local time t of a process whose warp is w.
MOOSLocalTime(t, w) == t * w
MOOSTime(t, w) == MOOSLocalTime(t, w) * SkewUnit + clkSkew

MaxTimeWarp == 400
SetMOOSTimeWarp(old, w) == IF w > 0 /\ w <= MaxTimeWarp THEN w ELSE old
Warp == SetMOOSTimeWarp(1, 2)      \* every process takes it from the mission file

ClkInit ==
    /\ clkSkew = 0 /\ clkCorrect = TRUE /\ clkQuiet \in BOOLEAN /\ clkAsync \in BOOLEAN /\ clkUp = FALSE
    /\ clkDB \in Databases /\ clkUpdates = 0 /\ clkGuessed = FALSE

----------------------------------------------------------------------------
\* The server's half of the handshake: the welcome carries its time less the time of the client's message.
WelcomeSkew(skew, delay) == (MOOSLocalTime(delay, Warp) + clkDB.offset) * SkewUnit - skew

\* A client that prints decides from the database's host whether it needs to correct its clock.
DoLocalTimeCorrection == IF clkQuiet THEN clkCorrect ELSE ~clkDB.here

(* HandShake with the database on whichever host it is now: a client that corrects its clock takes
   its old skew back before it stamps the message, then uses the skew of the welcome. *)
ClkHandShake(db, delay) ==
    /\ ~clkUp /\ clkDB = db
    /\ LET base == IF clkCorrect THEN 0 ELSE clkSkew IN
       /\ clkCorrect' = DoLocalTimeCorrection
       /\ clkSkew' = IF DoLocalTimeCorrection THEN WelcomeSkew(base, delay) ELSE base
    /\ clkUp' = TRUE /\ clkUpdates' = 0 /\ clkGuessed' = FALSE
    /\ UNCHANGED <<clkQuiet, clkAsync, clkDB>>

\* The handshake fails after the skew was taken back.
ClkHandShakeFails ==
    /\ ~clkUp /\ clkSkew' = IF clkCorrect THEN 0 ELSE clkSkew
    /\ UNCHANGED <<clkCorrect, clkQuiet, clkAsync, clkUp, clkDB, clkUpdates, clkGuessed>>

\* The connection is lost; the database may come back on another host.
ClkLost ==
    /\ clkUp /\ clkUp' = FALSE /\ clkDB' \in Databases
    /\ UNCHANGED <<clkSkew, clkCorrect, clkQuiet, clkAsync, clkUpdates, clkGuessed>>

----------------------------------------------------------------------------
\* Mutant: one of the measurements has its sign the wrong way round.
SwappedSkew(rq, tx, rx) == ((rx - tx) + (tx - rq)) * (SkewUnit \div 2)

\* Half of the sum of the two measured skews.
MeasuredSkew(rq, tx, rx) == ((tx - rx) + (tx - rq)) * (SkewUnit \div 2)

\* The first measurement is taken as it is, and a skew of exactly 0 counts as none.
UpdateMOOSSkew(rq, tx, rx) ==
    LET measured == MeasuredSkew(rq, tx, rx) IN
    clkSkew' = IF clkSkew # 0 THEN (9 * clkSkew + measured) \div 10 ELSE measured

(* A timed exchange: the synchronous client's call and reply, or the timing message of an
   asynchronous client that the threaded server sends back. *)
TimedExchange(out, back) ==
    /\ clkUp /\ clkUpdates < MaxUpdates /\ (clkAsync => ~clkDB.single)
    /\ IF clkCorrect
       THEN UpdateMOOSSkew(0, MOOSLocalTime(out, Warp) + clkDB.offset, MOOSLocalTime(out + back, Warp))
       ELSE UNCHANGED clkSkew
    /\ clkUpdates' = clkUpdates + 1
    /\ UNCHANGED <<clkCorrect, clkQuiet, clkAsync, clkUp, clkDB, clkGuessed>>

(* The single threaded server's packets carry the time they were sent only: an asynchronous client
   makes up the time its request would have left. *)
GuessedExchange(back) ==
    LET rx == MOOSLocalTime(back, Warp)
        tx == clkDB.offset
        rq == tx + (tx - rx)
    IN  /\ clkUp /\ clkUpdates < MaxUpdates /\ clkAsync /\ clkDB.single
        /\ IF clkCorrect THEN UpdateMOOSSkew(rq, tx, rx) /\ clkGuessed' = TRUE
           ELSE UNCHANGED <<clkSkew, clkGuessed>>
        /\ clkUpdates' = clkUpdates + 1
        /\ UNCHANGED <<clkCorrect, clkQuiet, clkAsync, clkUp, clkDB>>

ClkNext ==
    \/ \E db \in Databases, d \in Delays : ClkHandShake(db, d)
    \/ ClkHandShakeFails \/ ClkLost
    \/ \E out \in Delays, back \in Delays : TimedExchange(out, back)
    \/ \E back \in Delays : GuessedExchange(back)

ClkSpec == ClkInit /\ [][ClkNext]_clkVars

----------------------------------------------------------------------------
ClockError == LET e == MOOSTime(0, Warp) - clkDB.offset * SkewUnit IN IF e < 0 THEN -e ELSE e
WithinADelay == ClockError <= MOOSLocalTime(MaxDelay, Warp) * SkewUnit

(* While it is connected a client's MOOSTime is within one delay of the network of the time of the
   database it is connected to, wherever databases were before and however the handshakes went;
   a client without timing messages is left out, see SkewIsEstimated. *)
ClockFollowsTheDatabase == clkUp /\ ~clkGuessed => WithinADelay

(* The comment in DoReading: without a corresponding outgoing packet the client imagines "it tooks
   as long to send to the DB as to receive", so that its estimate is as good as a delay. *)
SkewIsEstimated == clkUp => WithinADelay
=============================================================================
