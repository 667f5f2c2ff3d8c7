--------------------------- MODULE SuicidalSleeper ---------------------------
(***************************************************************************)
(* An application that can be told to die: SuicidalSleeper inside the      *)
(* application, the tool ktm outside, each with a MulticastNode, whose     *)
(* reading and writing threads join two lists to a multicast group.  The   *)
(* group loses, repeats and reorders datagrams and returns a node its own. *)
(***************************************************************************)
EXTENDS Integers, Sequences, SequencesExt

CONSTANTS UnreadLimit,      \* unread_limit_
          CountDown,        \* count_down_seconds_
          MaxDatagrams      \* bound: datagrams each node receives

ASSUME SleepAssumption == UnreadLimit \in Nat

VARIABLES inbox,            \* per node, inbox_
          outbox,           \* per node, outbox_
          trimming,         \* nodes whose reading thread is about to look at the size of inbox_
          popping,          \* nodes whose reading thread found inbox_ too long and is about to pop it
          group,            \* datagrams that may still arrive
          rx,               \* history: per node, datagrams received
          taken,            \* history: per node, the places in rx of the datagrams read
          ktm,              \* the tool: what it sent, or Null
          sleeper,          \* "work", "last rights", "stopping", "dead"
          seconds           \* k of DoCountDown, or Null

ssleepVars == <<inbox, outbox, trimming, popping, group, rx, taken, ktm, sleeper, seconds>>

SleepNodes == {"ktm", "app"}
NoDatagram == [kind |-> "none"]
NotCounting == -1

\* What ktm may write: its action, whether the pass phrase and the name pattern are the application's.
Command == [kind : {"?", "K"}, phrase : BOOLEAN, matches : BOOLEAN]
Reply(k) == [kind |-> k]

SleepInit ==
    /\ inbox = [n \in SleepNodes |-> <<>>] /\ outbox = [n \in SleepNodes |-> <<>>]
    /\ trimming = {} /\ popping = {} /\ group = {}
    /\ rx = [n \in SleepNodes |-> <<>>] /\ taken = [n \in SleepNodes |-> {}]
    /\ ktm = NoDatagram /\ sleeper = "work" /\ seconds = NotCounting

Alive(n) == n = "app" => sleeper # "dead"

----------------------------------------------------------------------------
(* MulticastNode. *)

WriteLoop(n) ==
    /\ Alive(n) /\ outbox[n] # <<>>
    /\ outbox' = [outbox EXCEPT ![n] = Tail(@)]
    /\ group' = group \cup {Head(outbox[n])}
    /\ UNCHANGED <<inbox, trimming, popping, rx, taken, ktm, sleeper, seconds>>

\* Pushed[i] is a datagram with its place in rx, so that equal datagrams stay apart.
ReadLoop(n) ==
    /\ Alive(n) /\ n \notin trimming \cup popping /\ Len(rx[n]) < MaxDatagrams
    /\ \E d \in group :
          /\ rx' = [rx EXCEPT ![n] = Append(@, d)]
          /\ inbox' = [inbox EXCEPT ![n] = Append(@, [at |-> Len(rx[n]) + 1, data |-> d])]
    /\ trimming' = trimming \cup {n}
    /\ UNCHANGED <<outbox, popping, group, taken, ktm, sleeper, seconds>>

\* Mutant: the unread list is cut down to one less than its limit.
FullAtLimit(s) == Len(s) >= UnreadLimit

TooLong(s) == Len(s) > UnreadLimit

\* while(inbox_.Size() > unread_limit_): the list is locked for its size alone.
LookAtSize(n) ==
    /\ Alive(n) /\ n \in trimming
    /\ trimming' = trimming \ {n}
    /\ popping' = IF TooLong(inbox[n]) THEN popping \cup {n} ELSE popping
    /\ UNCHANGED <<inbox, outbox, group, rx, taken, ktm, sleeper, seconds>>

\* inbox_.Pop(): locked again; the owner may have read in between, even to the end.
Pop(n) ==
    /\ Alive(n) /\ n \in popping
    /\ \/ inbox[n] = <<>> /\ UNCHANGED inbox
       \/ inbox[n] # <<>> /\ inbox' = [inbox EXCEPT ![n] = Tail(@)]
    /\ popping' = popping \ {n} /\ trimming' = trimming \cup {n}
    /\ UNCHANGED <<outbox, group, rx, taken, ktm, sleeper, seconds>>

\* Read: the oldest unread datagram; a wait that times out leaves everything as it was.
Pull(n, d) ==
    /\ inbox[n] # <<>> /\ d = Head(inbox[n]).data
    /\ inbox' = [inbox EXCEPT ![n] = Tail(@)]
    /\ taken' = [taken EXCEPT ![n] = @ \cup {Head(inbox[n]).at}]

----------------------------------------------------------------------------
(* ktm writes one command and prints the replies until none comes for a second. *)
KtmWrite ==
    /\ ktm = NoDatagram
    /\ \E c \in Command : ktm' = c /\ outbox' = [outbox EXCEPT !["ktm"] = Append(@, c)]
    /\ UNCHANGED <<inbox, trimming, popping, group, rx, taken, sleeper, seconds>>

KtmRead ==
    /\ inbox["ktm"] # <<>> /\ Pull("ktm", Head(inbox["ktm"]).data)
    /\ UNCHANGED <<outbox, trimming, popping, group, rx, ktm, sleeper, seconds>>

----------------------------------------------------------------------------
(* SuicidalSleeper::Work. *)

\* Mutant: the pass phrase or the name is enough.
EitherWillDo(d) == d \in Command /\ (d.phrase \/ d.matches)

IsForMe(d) == d \in Command /\ d.phrase /\ d.matches

\* Mutant: the count down starts when the last rights callback has returned.
CountLater == NotCounting

StartCountDown == CountDown

Work ==
    /\ sleeper = "work" /\ inbox["app"] # <<>>
    /\ LET d == Head(inbox["app"]).data IN
       /\ Pull("app", d)
       /\ CASE ~IsForMe(d)   -> UNCHANGED <<outbox, sleeper, seconds>>
            [] d.kind = "?"  -> /\ outbox' = [outbox EXCEPT !["app"] = Append(@, Reply("would die"))]
                                /\ UNCHANGED <<sleeper, seconds>>
            [] OTHER         -> /\ outbox' = [outbox EXCEPT !["app"] = Append(@, Reply("is dying"))]
                                /\ sleeper' = "last rights" /\ seconds' = StartCountDown
    /\ UNCHANGED <<trimming, popping, group, rx, ktm>>

\* The callback of the application's author, which need not return; then Stop joins the count down.
LastRights ==
    /\ sleeper = "last rights"
    /\ \/ outbox' = [outbox EXCEPT !["app"] = Append(@, Reply("last words"))]
       \/ UNCHANGED outbox
    /\ sleeper' = "stopping"
    /\ UNCHANGED <<inbox, trimming, popping, group, rx, taken, ktm, seconds>>

\* DoCountDown does not look at its quit flag: it counts to the end and exits the process.
Count ==
    /\ seconds > 0 /\ seconds' = seconds - 1
    /\ UNCHANGED <<inbox, outbox, trimming, popping, group, rx, taken, ktm, sleeper>>

Exit ==
    /\ seconds = 0 /\ seconds' = NotCounting /\ sleeper' = "dead"
    /\ UNCHANGED <<inbox, outbox, trimming, popping, group, rx, taken, ktm>>

SleepNext ==
    \/ \E n \in SleepNodes : WriteLoop(n) \/ ReadLoop(n) \/ LookAtSize(n) \/ Pop(n)
    \/ KtmWrite \/ KtmRead \/ Work \/ LastRights \/ Count \/ Exit

\* The count down is a thread of its own; nothing is assumed of the callback or of the group.
SleepSpec == SleepInit /\ [][SleepNext]_ssleepVars /\ WF_ssleepVars(Count) /\ WF_ssleepVars(Exit)

----------------------------------------------------------------------------
(* Work, ktm: the application dies only of a kill that carries its pass phrase and a pattern its
   name matches, whatever is lost or repeated and whatever its own replies look like. *)
DeathWasOrdered ==
    sleeper # "work" => ktm \in Command /\ ktm.kind = "K" /\ ktm.phrase /\ ktm.matches

\* The datagrams received that were neither read nor kept.
Discarded(n) == ((1 .. Len(rx[n])) \ taken[n]) \ {inbox[n][j].at : j \in 1 .. Len(inbox[n])}

(* ReadLoop: no datagram is discarded before more than unread_limit_ have come, and none while an
   older one of the latest unread_limit_ + 1 is unread, although the owner reads between the look
   at the size of the list and the pop. *)
OldestGoFirst ==
    \A n \in SleepNodes : \A i \in Discarded(n) :
        /\ Len(rx[n]) > UnreadLimit
        /\ (Len(rx[n]) - UnreadLimit) .. (i - 1) \subseteq taken[n]

(* False: a datagram is discarded only when unread_limit_ newer ones have come.  The owner reads the
   oldest between Size and Pop, and Pop takes the next, which was within the limit. *)
LatestAreKept ==
    \A n \in SleepNodes : \A i \in Discarded(n) : i + UnreadLimit <= Len(rx[n])

(* Work: once a kill is accepted the process ends, even if the last rights callback does not. *)
OrderedDeathComes == (sleeper = "last rights") ~> (sleeper = "dead")

(* The safety of the sleeper: no death without an order, and an inbox cut from its oldest end. *)
DeathIsByOrder == DeathWasOrdered /\ OldestGoFirst
=============================================================================
