------------------------------- MODULE Pinger -------------------------------
(***************************************************************************)
(* The asynchronous ICMP pinger of deps/CoinCore/src/ping.h.  One         *)
(* io_service thread runs the completion handlers one at a time:          *)
(* start_send and handle_timeout (both on the single deadline_timer) and  *)
(* handle_receive (on the raw socket).  Time is counted in whole seconds  *)
(* since the last request was sent (now - time_sent_).  The network may   *)
(* lose echo replies, deliver them late, and, when Duplicates, deliver    *)
(* one twice.  A reply outlives at most REPLY_LIFETIME newer requests.    *)
(***************************************************************************)
EXTENDS Integers, FiniteSets

CONSTANTS
    PING_COUNT,      \* ping_count_: replies to collect before stopping
    SEQ_MOD,         \* 2^16: sequence_number_ is an unsigned short
    REPLY_LIFETIME,  \* how many newer requests an echo reply can outlive
    Duplicates       \* whether the network may deliver a reply twice

ASSUME /\ PING_COUNT \in Nat \ {0}
       /\ REPLY_LIFETIME \in 1..(SEQ_MOD - 1)
       /\ Duplicates \in BOOLEAN

\* Seconds; the timer waits at most this long for a reply.
REPLY_TIMEOUT == 5
SEND_INTERVAL == 1

VARIABLES
    seq,         \* sequence_number_
    numReplies,  \* num_replies_
    pingIntval,  \* ping_intval_, in seconds
    elapsed,     \* now - time_sent_
    timer,       \* the deadline_timer: its pending wait and its handler
    inflight,    \* sequence numbers of echo replies on their way to the socket
    stopped,     \* io_service_.stop() was called: detect() returns
    duplicated   \* history: the socket has delivered a duplicated reply

vars == <<seq, numReplies, pingIntval, elapsed, timer, inflight, stopped, duplicated>>

Handlers == {"handle_timeout", "start_send"}
Idle == [state |-> "idle", handler |-> "start_send", expiry |-> 0, aborted |-> FALSE]
Armed(h, expiry) == [state |-> "armed", handler |-> h, expiry |-> expiry, aborted |-> FALSE]

should_end == numReplies >= PING_COUNT

\* Replies still alive once request `s` is out.
Alive(s, set) == {r \in set : (s - r) % SEQ_MOD <= REPLY_LIFETIME}

\* timer_.cancel(): a pending wait completes at once with operation_aborted;
\* a wait that already completed is not affected.
Cancel(t) == IF t.state = "armed" THEN [t EXCEPT !.state = "ready", !.aborted = TRUE] ELSE t

\* The constructor: start_send() then start_receive().
Init ==
    /\ seq = 1 % SEQ_MOD
    /\ numReplies = 0
    /\ pingIntval = 0
    /\ elapsed = 0
    /\ timer = Armed("handle_timeout", REPLY_TIMEOUT)
    /\ inflight = {1 % SEQ_MOD}
    /\ stopped = FALSE
    /\ duplicated = FALSE

\* start_send(): send echo request ++sequence_number_, note time_sent_ and
\* wait up to five seconds for the reply.  It runs as the timer's handler,
\* whatever error it completed with.
start_send ==
    /\ ~stopped
    /\ timer.state = "ready" /\ timer.handler = "start_send"
    /\ seq' = (seq + 1) % SEQ_MOD
    /\ elapsed' = 0
    /\ inflight' = Alive(seq', inflight) \cup {seq'}
    /\ timer' = Armed("handle_timeout", REPLY_TIMEOUT)
    /\ UNCHANGED <<numReplies, pingIntval, stopped, duplicated>>

\* Mutant: the next request is timed from time_sent_ without the second.
handle_timeout_no_interval ==
    /\ ~stopped
    /\ timer.state = "ready" /\ timer.handler = "handle_timeout"
    /\ timer' = IF ~should_end THEN Armed("start_send", 0) ELSE Idle
    /\ UNCHANGED <<seq, numReplies, pingIntval, elapsed, inflight, stopped, duplicated>>

\* Mutant: handle_timeout returns at once when err is operation_aborted.
handle_timeout_checks_err ==
    /\ ~stopped
    /\ timer.state = "ready" /\ timer.handler = "handle_timeout"
    /\ timer' = IF ~should_end /\ ~timer.aborted THEN Armed("start_send", SEND_INTERVAL) ELSE Idle
    /\ UNCHANGED <<seq, numReplies, pingIntval, elapsed, inflight, stopped, duplicated>>

\* handle_timeout(err), err ignored: unless enough replies arrived, send
\* the next request one second after the last one was sent.
handle_timeout ==
    /\ ~stopped
    /\ timer.state = "ready" /\ timer.handler = "handle_timeout"
    /\ timer' = IF ~should_end THEN Armed("start_send", SEND_INTERVAL) ELSE Idle
    /\ UNCHANGED <<seq, numReplies, pingIntval, elapsed, inflight, stopped, duplicated>>

\* Mutant: handle_receive never stops the io_service.
HandleReceiveNoStop(matched) ==
    LET n == IF matched THEN numReplies + 1 ELSE numReplies
    IN /\ numReplies' = n
       /\ pingIntval' = IF matched THEN pingIntval + elapsed ELSE pingIntval
       /\ timer' = IF matched THEN Cancel(timer) ELSE timer
       /\ stopped' = FALSE
       /\ UNCHANGED <<seq, elapsed>>

\* handle_receive for a packet that decodes as an echo reply with our
\* identifier and sequence number `s` (matched when s is the current one),
\* or for any other ICMP packet the raw socket sees (matched = FALSE).
HandleReceive(matched) ==
    LET n == IF matched THEN numReplies + 1 ELSE numReplies
    IN /\ numReplies' = n
       /\ pingIntval' = IF matched THEN pingIntval + elapsed ELSE pingIntval
       /\ timer' = IF matched THEN Cancel(timer) ELSE timer
       /\ stopped' = (n >= PING_COUNT)
       /\ UNCHANGED <<seq, elapsed>>

\* The socket delivers echo reply s and the network forgets it.
handle_receive(s) ==
    /\ ~stopped /\ s \in inflight
    /\ inflight' = inflight \ {s}
    /\ UNCHANGED duplicated
    /\ HandleReceive(s = seq)

\* The socket delivers echo reply s and the network still holds a copy.
handle_receive_duplicate(s) ==
    /\ ~stopped /\ Duplicates /\ s \in inflight
    /\ UNCHANGED inflight
    /\ duplicated' = TRUE
    /\ HandleReceive(s = seq)

\* Another process's ICMP traffic reaches the raw socket.
handle_receive_foreign ==
    /\ ~stopped
    /\ UNCHANGED <<inflight, duplicated>>
    /\ HandleReceive(FALSE)

\* The network loses echo reply s.
Lose(s) ==
    /\ s \in inflight
    /\ inflight' = inflight \ {s}
    /\ UNCHANGED <<seq, numReplies, pingIntval, elapsed, timer, stopped, duplicated>>

\* The timer's expiry time is reached: its wait completes successfully.
TimerExpires ==
    /\ ~stopped
    /\ timer.state = "armed" /\ elapsed >= timer.expiry
    /\ timer' = [timer EXCEPT !.state = "ready"]
    /\ UNCHANGED <<seq, numReplies, pingIntval, elapsed, inflight, stopped, duplicated>>

\* A second passes while the io_service waits on an armed timer.
Tick ==
    /\ ~stopped
    /\ timer.state = "armed" /\ elapsed < timer.expiry
    /\ elapsed' = elapsed + 1
    /\ UNCHANGED <<seq, numReplies, pingIntval, timer, inflight, stopped, duplicated>>

\* detect() has returned.
Done == stopped /\ UNCHANGED vars

Next ==
    \/ start_send
    \/ handle_timeout
    \/ \E s \in inflight : handle_receive(s) \/ handle_receive_duplicate(s) \/ Lose(s)
    \/ handle_receive_foreign
    \/ TimerExpires
    \/ Tick
    \/ Done

\* The io_service runs every completed handler and the clock advances; the
\* network answers some request in time whenever asked often enough.
Fairness ==
    /\ WF_vars(start_send) /\ WF_vars(handle_timeout)
    /\ WF_vars(TimerExpires) /\ WF_vars(Tick)
    /\ SF_vars(handle_receive(seq))

Spec == Init /\ [][Next]_vars
FairSpec == Spec /\ Fairness

-----------------------------------------------------------------------------
(* Properties *)

\* Type: the counters stay within what detect() can observe before it
\* stops; the timer is a pending or completed wait for one of the handlers.
TypeOK ==
    /\ seq \in 0..(SEQ_MOD - 1)
    /\ numReplies \in 0..PING_COUNT
    /\ pingIntval \in 0..(REPLY_TIMEOUT * PING_COUNT)
    /\ elapsed \in 0..REPLY_TIMEOUT
    /\ timer \in [state : {"idle", "armed", "ready"}, handler : Handlers,
                  expiry : {SEND_INTERVAL, REPLY_TIMEOUT}, aborted : BOOLEAN] \cup {Idle}
    /\ inflight \subseteq 0..(SEQ_MOD - 1)
    /\ stopped \in BOOLEAN
    /\ duplicated \in BOOLEAN

\* "Requests must be sent no less than one second apart" (handle_timeout):
\* every start_send after the first comes at least a second after the
\* previous request, whichever of timeout, reply or cancellation woke it.
RequestsSpaced ==
    [][seq' # seq => elapsed >= SEND_INTERVAL]_vars

\* "Requests must be sent no less than one second apart" holds up to the
\* first duplicated reply: until the socket delivers one, every start_send
\* after the first follows the previous request by at least a second,
\* whether handle_timeout ran after the five-second timeout or after a
\* reply's timer_.cancel().
RequestsSpacedUntilDuplicate ==
    [][seq' # seq /\ ~duplicated => elapsed >= SEND_INTERVAL]_vars

\* detect() returns: as long as the network answers some request before
\* its five-second timeout now and then, the pinger collects PING_COUNT
\* replies and stops the io_service, however many replies are lost or late.
Termination == <>stopped

=============================================================================
