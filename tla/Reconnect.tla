----------------------------- MODULE Reconnect ------------------------------
(***************************************************************************)
(* The connection of the demo page (web/app.js): start, stop, connectWS    *)
(* and scheduleReconnect, over sockets that fail at any time, against what *)
(* the server promises a connection (Session): a START whose epoch is      *)
(* beyond the session's takes the session over and closes the connection   *)
(* before; any other is refused with an ERROR.                             *)
(*                                                                         *)
(* The browser runs one callback at a time, each an action here.  A socket *)
(* that is over for the page is used again for a new one.                  *)
(***************************************************************************)
EXTENDS Naturals, Sequences

CONSTANTS Sockets,      \* so many sockets at a time
          MaxReconnect, \* MAX_RECONNECT
          MaxConvs,     \* bound: sessions the server opens
          MaxClaim,     \* bound: the largest epoch claimed
          MaxFaults,    \* bound: connections that fail or cannot be opened
          MaxStarts     \* bound: clicks on the button that start

ASSUME ReconnectAssumption ==
  /\ Sockets \subseteq Nat \ {0} /\ MaxReconnect \in Nat \ {0}
  /\ MaxConvs \in Nat /\ MaxClaim \in Nat /\ MaxFaults \in Nat /\ MaxStarts \in Nat

VARIABLES page,   \* the page: running, ws (0: none yet), sessionId (0: empty), epoch,
                  \* reconnectTries, the timers pending, the calls of start() that have
                  \* not come to connectWS, and why it stopped last
                  \* (over: within a callback, that it has called stop)
          sock,   \* socket -> "free", "connecting", "aborted", "open" or "closing"
          retry,  \* the sockets opened by a timer, the others by start()
          upl,    \* socket -> frames on their way to the server
          dnl,    \* socket -> what is on its way to the page, a close last
          convs,  \* the server's sessions, with the socket attached (0: none)
          shaken, \* the sockets whose handshake is over
          faults, starts  \* history

reconnVars == <<page, sock, retry, upl, dnl, convs, shaken, faults, starts>>

Ids == 1 .. MaxConvs
NoConv == [live |-> FALSE, epoch |-> 0, att |-> 0]

ReconnectInit ==
  /\ page = [running |-> FALSE, ws |-> 0, id |-> 0, epoch |-> 0, tries |-> 0, timers |-> 0,
             calls |-> 0, why |-> "none", over |-> FALSE]
  /\ sock = [i \in Sockets |-> "free"] /\ retry = {}
  /\ upl = [i \in Sockets |-> << >>] /\ dnl = [i \in Sockets |-> << >>]
  /\ convs = [s \in Ids |-> NoConv] /\ shaken = {} /\ faults = 0 /\ starts = 0

StartOf(s, e) == [kind |-> "start", id |-> s, epoch |-> e]
AckOf(s, e) == [kind |-> "ack", id |-> s, epoch |-> e]
StopMsg == [kind |-> "stop", id |-> 0, epoch |-> 0]
ErrorMsg == [kind |-> "error", id |-> 0, epoch |-> 0]
CloseMsg == [kind |-> "close", id |-> 0, epoch |-> 0]

Closed(i) == \E k \in DOMAIN dnl[i] : dnl[i][k] = CloseMsg
-----------------------------------------------------------------------------
(* What the callbacks of the page call.                                    *)

(* stop: the session is forgotten; timers go on.                           *)
Ended(p, why) ==
  [p EXCEPT !.running = FALSE, !.id = 0, !.epoch = 0, !.tries = 0, !.why = why,
            !.over = TRUE]

(* scheduleReconnect: one more timer, or the end after so many tries.      *)
Schedule(p) ==
  IF p.tries >= MaxReconnect THEN Ended(p, "exhausted")
  ELSE [p EXCEPT !.tries = @ + 1, !.timers = @ + 1]

(* A mutant: connectWS leaves onclose unset.                               *)
OnCloseUnset(p) == p

(* onclose: it does not matter which socket it is of.                      *)
OnClose(p) == IF p.running THEN Schedule(p) ELSE p

(* stop hangs up ws, with a STOP where that is open: socks after it.       *)
HangUp(socks, w) ==
  IF w = 0 THEN socks
  ELSE [socks EXCEPT ![w] = CASE @ = "open" -> "closing" [] @ = "connecting" -> "aborted"
                              [] OTHER -> @]

(* A callback leaves the page as p and its sockets as socks, after stop if *)
(* that was called.                                                        *)
Become(p, socks) ==
  /\ page' = [p EXCEPT !.over = FALSE]
  /\ sock' = IF p.over THEN HangUp(socks, p.ws) ELSE socks
  /\ upl' = [i \in Sockets |->
               IF socks[i] = "free" THEN << >>
               ELSE IF p.over /\ i = p.ws /\ socks[i] = "open" THEN Append(upl[i], StopMsg)
               ELSE upl[i]]
-----------------------------------------------------------------------------
(* The page: the button, timers, and the events of its sockets.            *)

(* connectWS up to the await: a new socket, and it is ws from now on.      *)
Connect(i, p) ==
  /\ sock[i] = "free" /\ dnl[i] = << >>
  /\ page' = [p EXCEPT !.ws = i]
  /\ sock' = [sock EXCEPT ![i] = "connecting"]
  /\ shaken' = shaken \ {i}
  /\ UNCHANGED <<upl, dnl, convs, faults>>

(* The button is one for start and stop, and start() waits for the         *)
(* microphone and the capture module: running is looked at here and not    *)
(* again, so that a second call may connect beside the first, or within    *)
(* the conversation of the first.                                          *)
Click ==
  /\ ~page.running /\ starts < MaxStarts
  /\ starts' = starts + 1 /\ page' = [page EXCEPT !.calls = @ + 1]
  /\ UNCHANGED <<sock, retry, upl, dnl, convs, shaken, faults>>

MediaReady(i) ==
  /\ page.calls > 0
  /\ Connect(i, [page EXCEPT !.calls = @ - 1])
  /\ retry' = retry \ {i} /\ UNCHANGED starts

MediaRefused ==
  /\ page.calls > 0
  /\ page' = [page EXCEPT !.calls = @ - 1]
  /\ UNCHANGED <<sock, retry, upl, dnl, convs, shaken, faults, starts>>

ClickStop ==
  /\ page.running
  /\ Become(Ended(page, "clicked"), sock)
  /\ UNCHANGED <<retry, dnl, convs, shaken, faults, starts>>

TimerFires(i) ==
  /\ page.timers > 0 /\ page.running
  /\ Connect(i, [page EXCEPT !.timers = @ - 1])
  /\ retry' = retry \cup {i} /\ UNCHANGED starts

TimerLapses ==
  /\ page.timers > 0 /\ ~page.running
  /\ page' = [page EXCEPT !.timers = @ - 1]
  /\ UNCHANGED <<sock, retry, upl, dnl, convs, shaken, faults, starts>>

(* onopen: START goes out on ws, which another call of connectWS may have  *)
(* set to a socket that is not open: send then throws or does nothing.     *)
Opened(i) ==
  LET socks == [sock EXCEPT ![i] = "open"]
      started == IF i \in retry THEN page ELSE [page EXCEPT !.running = TRUE] IN
  /\ sock[i] = "connecting" /\ page.epoch < MaxClaim
  /\ \/ socks[page.ws] = "open" /\ page' = started /\ sock' = socks
        /\ upl' = [upl EXCEPT ![page.ws] = Append(@, StartOf(page.id, page.epoch + 1))]
     \/ socks[page.ws] = "connecting"
        /\ Become(IF i \in retry THEN Schedule(page) ELSE page, socks)
     \/ socks[page.ws] \in {"free", "aborted", "closing"} /\ Become(started, socks)
  /\ UNCHANGED <<retry, dnl, convs, shaken, faults, starts>>

Detached(i) == [s \in Ids |-> IF convs[s].att = i THEN [convs[s] EXCEPT !.att = 0] ELSE convs[s]]

(* A socket that cannot be opened: onerror, which connectWS's caller       *)
(* catches, and onclose.                                                   *)
OpenFails(i) ==
  /\ \/ sock[i] = "aborted" /\ UNCHANGED faults
     \/ sock[i] = "connecting" /\ faults < MaxFaults /\ faults' = faults + 1
  /\ Become(OnClose(IF i \in retry THEN Schedule(page) ELSE page),
            [sock EXCEPT ![i] = "free"])
  /\ UNCHANGED <<retry, dnl, convs, shaken, starts>>

(* The close that a server's or a lost connection ends with, or the end of *)
(* the page's own.                                                         *)
CloseArrives(i) ==
  /\ \/ sock[i] = "open" /\ dnl[i] # << >> /\ Head(dnl[i]) = CloseMsg
     \/ sock[i] = "closing" /\ (upl[i] = << >> \/ Closed(i))
  /\ dnl' = [dnl EXCEPT ![i] = << >>] /\ convs' = Detached(i)
  /\ Become(OnClose(page), [sock EXCEPT ![i] = "free"])
  /\ UNCHANGED <<retry, shaken, faults, starts>>

(* onFrame, of the control frames that matter here.                        *)
FrameArrives(i) ==
  /\ sock[i] = "open" /\ dnl[i] # << >>
  /\ LET m == Head(dnl[i]) IN
     \/ m.kind = "ack" /\ UNCHANGED <<sock, upl>>
        /\ page' = [page EXCEPT !.id = m.id, !.epoch = m.epoch, !.tries = 0]
     \/ m.kind = "error" /\ Become(Ended(page, "error"), sock)
  /\ dnl' = [dnl EXCEPT ![i] = Tail(@)]
  /\ UNCHANGED <<retry, convs, shaken, faults, starts>>

(* The network loses a connection and what is on its way.                  *)
Dropped(i) ==
  /\ sock[i] = "open" /\ ~Closed(i) /\ faults < MaxFaults
  /\ faults' = faults + 1
  /\ upl' = [upl EXCEPT ![i] = << >>] /\ dnl' = [dnl EXCEPT ![i] = <<CloseMsg>>]
  /\ convs' = Detached(i)
  /\ UNCHANGED <<page, sock, retry, shaken, starts>>
-----------------------------------------------------------------------------
(* The server: the handler of a connection, and its sessions.              *)
Hears(i) == sock[i] \in {"open", "closing"} /\ ~Closed(i)

(* Unless the claim is beyond the epoch of the session it names.           *)
Refused(m) == \/ m.kind # "start"
              \/ m.id # 0 /\ convs[m.id].live /\ m.epoch <= convs[m.id].epoch

Refuse(i) ==
  /\ Hears(i) /\ i \notin shaken /\ upl[i] # << >> /\ Refused(Head(upl[i]))
  /\ dnl' = [dnl EXCEPT ![i] = @ \o <<ErrorMsg, CloseMsg>>]
  /\ upl' = [upl EXCEPT ![i] = Tail(@)] /\ shaken' = shaken \cup {i}
  /\ UNCHANGED <<page, sock, retry, convs, faults, starts>>

(* The session a START gets: the one it names, or a new one, whose first   *)
(* epoch is 1 if the id has expired.                                       *)
ConvOf(m, s) ==
  IF m.id # 0 /\ convs[m.id].live THEN s = m.id
  ELSE convs[s] = NoConv /\ \A t \in 1 .. s - 1 : convs[t] # NoConv
EpochOf(m, s) == IF s # m.id /\ (m.id # 0 \/ m.epoch = 0) THEN 1 ELSE m.epoch

Attach(i, s) ==
  /\ Hears(i) /\ i \notin shaken /\ upl[i] # << >> /\ ~Refused(Head(upl[i]))
  /\ LET m == Head(upl[i])  old == convs[s].att IN
     /\ ConvOf(m, s)
     /\ convs' = [convs EXCEPT ![s] = [live |-> TRUE, epoch |-> EpochOf(m, s), att |-> i]]
     /\ dnl' = [j \in Sockets |-> IF j = i THEN Append(dnl[i], AckOf(s, EpochOf(m, s)))
                                  ELSE IF j = old THEN Append(dnl[j], CloseMsg) ELSE dnl[j]]
  /\ upl' = [upl EXCEPT ![i] = Tail(@)] /\ shaken' = shaken \cup {i}
  /\ UNCHANGED <<page, sock, retry, faults, starts>>

HandshakeTimesOut(i) ==
  /\ Hears(i) /\ i \notin shaken /\ upl[i] = << >>
  /\ dnl' = [dnl EXCEPT ![i] = Append(@, CloseMsg)] /\ shaken' = shaken \cup {i}
  /\ UNCHANGED <<page, sock, retry, upl, convs, faults, starts>>

(* A frame of an attached connection: STOP ends the session.               *)
Obey(i) ==
  /\ Hears(i) /\ i \in shaken /\ upl[i] # << >>
  /\ IF Head(upl[i]).kind = "stop"
     THEN /\ dnl' = [dnl EXCEPT ![i] = Append(@, CloseMsg)]
          /\ convs' = [s \in Ids |-> IF convs[s].att = i
                                    THEN [convs[s] EXCEPT !.live = FALSE, !.att = 0]
                                    ELSE convs[s]]
     ELSE UNCHANGED <<dnl, convs>>
  /\ upl' = [upl EXCEPT ![i] = Tail(@)]
  /\ UNCHANGED <<page, sock, retry, shaken, faults, starts>>

(* A session nobody is attached to is idle long enough.                    *)
IdleEnds(s) ==
  /\ convs[s].live /\ convs[s].att = 0
  /\ convs' = [convs EXCEPT ![s].live = FALSE]
  /\ UNCHANGED <<page, sock, retry, upl, dnl, shaken, faults, starts>>
-----------------------------------------------------------------------------
Page(i) == \/ MediaReady(i) \/ TimerFires(i) \/ Opened(i) \/ OpenFails(i)
           \/ CloseArrives(i) \/ FrameArrives(i)
Server(i) == \/ Refuse(i) \/ HandshakeTimesOut(i) \/ Obey(i) \/ \E s \in Ids : Attach(i, s)

ReconnectNext ==
  \/ \E i \in Sockets : Page(i) \/ Server(i) \/ Dropped(i)
  \/ Click \/ MediaRefused \/ ClickStop \/ TimerLapses
  \/ \E s \in Ids : IdleEnds(s)

ReconnectSpec == ReconnectInit /\ [][ReconnectNext]_reconnVars

(* A conversation that has begun and was not stopped always has something  *)
(* that takes it further: a socket that is not over, or a timer.  Whatever *)
(* fails, in whatever order, the page does not sit there without either.   *)
NeverStranded == page.running => page.timers > 0 \/ \E i \in Sockets : sock[i] # "free"

(* docs/M8-session-design.md:21 says that after a short outage the browser *)
(* reconnects and the same conversation goes on: the page gives up for an  *)
(* error of the server only if its session is gone.                        *)
SurvivesOutage ==
  [][page.running /\ ~page'.running /\ page'.why = "error" =>
       page.id = 0 \/ ~convs[page.id].live]_reconnVars
=============================================================================
