----------------------------- MODULE RmbClient -----------------------------
(***************************************************************************)
(* The RMB client (rmb_direct_client/lib/client.ts): requests and pings    *)
(* over one websocket to the relay.  Sending waits for an open connection  *)
(* and enters the request into the map "responses"; a message from the     *)
(* relay replaces its entry; reading polls the entry until it is an answer *)
(* or the request has expired.  connect, reconnect and disconnect work on  *)
(* the same socket field, the first two under a static lock.               *)
(*                                                                         *)
(* The relay and the socket are external.  Time is left out: whatever has  *)
(* a deadline may reach it at any moment.                                  *)
(***************************************************************************)
EXTENDS Naturals, FiniteSets

CONSTANTS
  Requests,     \* calls of send() followed by read()
  Pings,        \* the rounds of the ping loop: as many as are looked at
  NoPing,
  RetriesOf,    \* [Requests \cup Pings -> Nat \ {0}]
  MaxConnects,  \* how often connect() is called from outside
  NodeJs        \* whether the socket is that of node, not of a browser

Ids == Requests \cup Pings

ASSUME RmbAssumption ==
  /\ Requests \cap Pings = {}
  /\ NoPing \notin Pings
  /\ RetriesOf \in [Ids -> Nat \ {0}]
  /\ MaxConnects \in Nat
  /\ NodeJs \in BOOLEAN

\* disconnect() is called by the user and by a connect() that fails.
Closers == {"user", "cleanup"}

VARIABLES
  con,        \* readyState of this.con (closing counts as closed), or "none"
  alive,      \* whether the relay still answers on it
  deaf,       \* its listeners have been removed
  entry,      \* responses: the entry of each call, or "absent"
  pc,         \* where each call is
  tries,      \* retriesCount of each call
  asked,      \* calls the relay has an answer for, or will have
  overCon,    \* pings sent over this.con
  connector,  \* where the connect() that holds connectingLock is
  queued,     \* connect() calls that wait for it
  connects,   \* connect() calls made from outside
  timers,     \* rounds whose timer is set
  handle,     \* __pingPongTimeout: the round that set it last
  closer      \* where each disconnect() is

callVars == <<entry, pc, tries>>
connectVars == <<connector, queued, connects>>
pingVars == <<timers, handle>>
vars == <<con, alive, deaf, entry, pc, tries, asked, overCon, connector, queued,
          connects, timers, handle, closer>>

\* What a message turns an entry into: a result, an error, a signature that is
\* wrong, a payload that does not decode, no payload, no payload nor expiration.
Answers == {"result", "error", "forged", "garbled", "empty", "void"}
Over == {"resolved", "rejected", "expired"}

Init ==
  /\ con = "none" /\ alive = FALSE /\ deaf = FALSE
  /\ entry = [i \in Ids |-> "absent"]
  /\ pc = [i \in Ids |-> "idle"]
  /\ tries = [i \in Ids |-> 0]
  /\ asked = {} /\ overCon = {}
  /\ connector = "free" /\ queued = 0 /\ connects = 0
  /\ timers = {} /\ handle = NoPing
  /\ closer = [d \in Closers |-> "idle"]

-----------------------------------------------------------------------------
(* The socket.                                                               *)

\* createConnection closes the socket there is and opens another.
CreateConnection ==
  /\ con' = "connecting" /\ alive' = FALSE /\ deaf' = FALSE
  /\ overCon' = {}

\* A socket opens, or fails to; an open one is closed, or its peer vanishes.
Socket ==
  /\ \/ con = "connecting" /\ con' = "open" /\ alive' = TRUE
     \/ con \in {"connecting", "open"} /\ con' = "closed" /\ alive' = FALSE
     \/ alive /\ alive' = FALSE /\ UNCHANGED con
  /\ UNCHANGED <<deaf, asked, overCon, callVars, connectVars, pingVars, closer>>

\* Mutant: the map is not looked at.
StoreAny(i, a) ==
  entry' = [entry EXCEPT ![i] = a]

\* onmessage: only a call that has an entry gets its answer.
Store(i, a) ==
  entry' = [entry EXCEPT ![i] = IF @ = "absent" THEN @ ELSE a]

\* The relay's answer arrives, on time or late.
Receive(i) ==
  /\ i \in asked
  /\ con = "open" /\ alive /\ ~deaf
  /\ IF i \in Pings THEN Store(i, "pong") ELSE \E a \in Answers : Store(i, a)
  /\ asked' = asked \ {i}
  /\ UNCHANGED <<con, alive, deaf, overCon, pc, tries, connectVars, pingVars, closer>>

\* It never does, or comes to a socket that does not listen.
Lose(i) ==
  /\ i \in asked
  /\ asked' = asked \ {i}
  /\ UNCHANGED <<con, alive, deaf, overCon, callVars, connectVars, pingVars, closer>>

-----------------------------------------------------------------------------
(* send, ping and read.                                                      *)

\* send() looks up the twin and encrypts; either may throw.
Call(i) ==
  /\ i \in Requests
  /\ pc[i] = "idle"
  /\ \E next \in {"opening", "rejected"} : pc' = [pc EXCEPT ![i] = next]
  /\ UNCHANGED <<con, alive, deaf, entry, tries, asked, overCon, connectVars, pingVars,
                 closer>>

\* The socket is not open; before the first connect() there is none to ask.
AwaitOpen(i) ==
  /\ pc[i] = "opening"
  /\ con # "open"
  /\ pc' = [pc EXCEPT ![i] = IF con = "none" THEN "rejected" ELSE "waiting"]
  /\ UNCHANGED <<con, alive, deaf, entry, tries, asked, overCon, connectVars, pingVars,
                 closer>>

Transmit(i) ==
  /\ pc[i] \in {"opening", "waiting"}
  /\ con = "open"
  /\ entry' = [entry EXCEPT ![i] = IF i \in Pings THEN "ping" ELSE "request"]
  /\ asked' = IF alive THEN asked \cup {i} ELSE asked
  /\ overCon' = IF i \in Pings THEN overCon \cup {i} ELSE overCon
  /\ pc' = [pc EXCEPT ![i] = "reading"]
  /\ UNCHANGED <<con, alive, deaf, tries, connectVars, pingVars, closer>>

\* Mutant: the retries are never used up.
WaitFailedAgain(i) ==
  /\ pc[i] = "waiting"
  /\ CreateConnection
  /\ UNCHANGED <<tries, pc, entry, asked, connectVars, pingVars, closer>>

\* Mutant: one try too many.
WaitFailedOnceMore(i) ==
  /\ pc[i] = "waiting"
  /\ tries' = [tries EXCEPT ![i] = @ + 1]
  /\ \/ /\ tries[i] = RetriesOf[i]
        /\ pc' = [pc EXCEPT ![i] = "rejected"]
        /\ UNCHANGED <<con, alive, deaf, overCon>>
     \/ /\ tries[i] < RetriesOf[i]
        /\ CreateConnection
        /\ UNCHANGED pc
  /\ UNCHANGED <<entry, asked, connectVars, pingVars, closer>>

\* waitForOpenConnection rejects, at its last tick without a look at the
\* socket: the call gives up or opens another one.
WaitFailed(i) ==
  /\ pc[i] = "waiting"
  /\ tries' = [tries EXCEPT ![i] = @ + 1]
  /\ \/ /\ tries[i] + 1 = RetriesOf[i]
        /\ pc' = [pc EXCEPT ![i] = "rejected"]
        /\ UNCHANGED <<con, alive, deaf, overCon>>
     \/ /\ tries[i] + 1 < RetriesOf[i]
        /\ CreateConnection
        /\ UNCHANGED pc
  /\ UNCHANGED <<entry, asked, connectVars, pingVars, closer>>

\* The entry goes and the call ends; a round of the ping loop sets its timer,
\* and one that got no pong calls reconnect().
Settle(i, end) ==
  /\ entry' = [entry EXCEPT ![i] = "absent"]
  /\ pc' = [pc EXCEPT ![i] = end]
  /\ timers' = IF i \in Pings THEN timers \cup {i} ELSE timers
  /\ handle' = IF i \in Pings THEN i ELSE handle
  /\ queued' = IF i \in Pings /\ end # "resolved" THEN queued + 1 ELSE queued
  /\ UNCHANGED <<con, alive, deaf, tries, asked, overCon, connector, connects, closer>>

\* A look at the entry.
Poll(i) ==
  /\ pc[i] = "reading"
  /\ \/ entry[i] \in {"result", "pong"} /\ Settle(i, "resolved")
     \/ entry[i] \in {"error", "forged"} /\ Settle(i, "rejected")

\* The reader throws inside its promise, or finds its entry gone: the promise
\* is never settled.
Hang(i) ==
  /\ pc[i] = "reading"
  /\ \/ entry[i] = "garbled" /\ pc' = [pc EXCEPT ![i] = "hung"]
     \/ entry[i] = "void"    /\ pc' = [pc EXCEPT ![i] = "hung"]
     \/ entry[i] = "absent"  /\ pc' = [pc EXCEPT ![i] = "dropped"]
  /\ UNCHANGED <<con, alive, deaf, entry, tries, asked, overCon, connectVars, pingVars,
                 closer>>

\* The deadline, which is looked at before the entry is.
Expire(i) ==
  /\ pc[i] = "reading"
  /\ entry[i] \notin {"absent", "void"}
  /\ Settle(i, "expired")

-----------------------------------------------------------------------------
(* connect, reconnect and the ping loop.                                     *)

Unused == {p \in Pings : pc[p] = "idle"}

\* __pingPong: another round begins, and the timer set last is cleared.
Launch(pending) ==
  /\ timers' = pending \ {handle}
  /\ pc' = IF Unused = {} THEN pc
           ELSE [pc EXCEPT ![CHOOSE p \in Unused : TRUE] = "opening"]

Connect ==
  /\ connects < MaxConnects
  /\ connects' = connects + 1
  /\ queued' = queued + 1
  /\ UNCHANGED <<con, alive, deaf, callVars, asked, overCon, connector, pingVars, closer>>

\* The lock is granted: an open connection is left alone.
Admit ==
  /\ connector = "free"
  /\ queued > 0
  /\ queued' = queued - 1
  /\ connector' = IF con = "open" THEN "free" ELSE "fetching"
  /\ UNCHANGED <<con, alive, deaf, callVars, asked, overCon, connects, pingVars, closer>>

\* The twin is fetched, or the chain cannot be asked.
Fetched ==
  /\ connector = "fetching"
  /\ \/ connector' = "opening" /\ CreateConnection
     \/ connector' = "free" /\ UNCHANGED <<con, alive, deaf, overCon>>
  /\ UNCHANGED <<callVars, asked, queued, connects, pingVars, closer>>

Opened ==
  /\ connector = "opening"
  /\ con = "open"
  /\ connector' = "updating"
  /\ Launch(timers)
  /\ UNCHANGED <<con, alive, deaf, entry, tries, asked, overCon, queued, connects, handle,
                 closer>>

\* The twin on the chain has the right key and relay.
Connected ==
  /\ connector = "updating"
  /\ connector' = "free"
  /\ UNCHANGED <<con, alive, deaf, callVars, asked, overCon, queued, connects, pingVars,
                 closer>>

\* The timer of a round fires.
Rested(p) ==
  /\ p \in timers
  /\ IF con = "open"
     THEN Launch(timers \ {p})
     ELSE timers' = timers \ {p} /\ UNCHANGED pc
  /\ UNCHANGED <<con, alive, deaf, entry, tries, asked, overCon, connectVars, handle,
                 closer>>

-----------------------------------------------------------------------------
(* disconnect.                                                               *)

Idle(d) == closer[d] \in {"idle", "finished"}

\* No more pings, and in node the socket loses its listeners.
Quiet(d) ==
  /\ timers' = timers \ {handle}
  /\ deaf' = (deaf \/ NodeJs)
  /\ closer' = [closer EXCEPT ![d] = "draining"]

\* disconnect is called: a socket that is connecting is awaited first.
Begin(d) ==
  IF con = "connecting"
  THEN closer' = [closer EXCEPT ![d] = "awaiting"] /\ UNCHANGED <<timers, deaf>>
  ELSE Quiet(d)

Disconnect ==
  /\ closer["user"] = "idle"
  /\ Begin("user")
  /\ UNCHANGED <<con, alive, callVars, asked, overCon, connectVars, handle>>

\* connect() throws after it has made a socket: it disconnects, unawaited.
ConnectFailed ==
  /\ connector \in {"opening", "updating"}
  /\ Idle("cleanup")
  /\ connector' = "free"
  /\ Begin("cleanup")
  /\ UNCHANGED <<con, alive, callVars, asked, overCon, queued, connects, handle>>

\* The socket opens, whichever it is by now, or the wait for it rejects.
Awaited(d) ==
  /\ closer[d] = "awaiting"
  /\ \/ con = "open" /\ Quiet(d)
     \/ closer' = [closer EXCEPT ![d] = "finished"] /\ UNCHANGED <<timers, deaf>>
  /\ UNCHANGED <<con, alive, callVars, asked, overCon, connectVars, handle>>

\* One round of waitForResponses drops the pings; it ends when nothing else is
\* left, or after two minutes, which clear the map.
Drain(d) ==
  LET left == [i \in Ids |-> IF entry[i] = "ping" THEN "absent" ELSE entry[i]] IN
    /\ closer[d] = "draining"
    /\ \/ entry' = left /\ UNCHANGED closer
       \/ /\ \A i \in Ids : left[i] = "absent"
          /\ entry' = left
          /\ closer' = [closer EXCEPT ![d] = "closing"]
       \/ /\ entry' = [i \in Ids |-> "absent"]
          /\ closer' = [closer EXCEPT ![d] = "closing"]
    /\ UNCHANGED <<con, alive, deaf, pc, tries, asked, overCon, connectVars, pingVars>>

Close(d) ==
  /\ closer[d] = "closing"
  /\ con' = (IF con = "none" THEN "none" ELSE "closed") /\ alive' = FALSE
  /\ closer' = [closer EXCEPT ![d] = "finished"]
  /\ UNCHANGED <<deaf, callVars, asked, overCon, connectVars, pingVars>>

-----------------------------------------------------------------------------
CallStep(i) ==
  AwaitOpen(i) \/ Transmit(i) \/ WaitFailed(i) \/ Poll(i) \/ Hang(i) \/ Expire(i)

Next ==
  \/ Socket
  \/ \E i \in Ids : Receive(i) \/ Lose(i) \/ Call(i) \/ CallStep(i)
  \/ Connect \/ Admit \/ Fetched \/ Opened \/ Connected \/ ConnectFailed \/ Disconnect
  \/ \E p \in Pings : Rested(p)
  \/ \E d \in Closers : Awaited(d) \/ Drain(d) \/ Close(d)

Spec == Init /\ [][Next]_vars

\* The timers of a call fire: its wait for a socket has an end, and its read
\* polls until it expires.
FairSpec == Spec /\ \A i \in Ids : WF_vars(CallStep(i))

-----------------------------------------------------------------------------
\* Every variable has the values client.ts gives it.
TypeOK ==
  /\ con \in {"none", "connecting", "open", "closed"}
  /\ alive \in BOOLEAN /\ deaf \in BOOLEAN
  /\ \A i \in Requests : entry[i] \in {"absent", "request"} \cup Answers
  /\ \A p \in Pings : entry[p] \in {"absent", "ping", "pong"}
  /\ pc \in [Ids -> {"idle", "opening", "waiting", "reading", "hung", "dropped"} \cup Over]
  /\ \A i \in Ids : tries[i] \in 0..RetriesOf[i]
  /\ asked \subseteq Ids /\ overCon \subseteq Pings /\ timers \subseteq Pings
  /\ connector \in {"free", "fetching", "opening", "updating"}
  /\ queued \in Nat /\ connects \in 0..MaxConnects
  /\ handle \in Pings \cup {NoPing}
  /\ closer \in [Closers -> {"idle", "awaiting", "draining", "closing", "finished"}]

\* The map holds no entry that nobody will remove: only of calls that are being
\* read, and of those an answer that does not decode has hung.  A late answer
\* or one the disconnect has given up does not come back into it
\* (client.ts:108-111, 366-401), so disconnect need not wait for it.
NoOrphans ==
  \A i \in Ids : entry[i] # "absent" =>
    \/ pc[i] = "reading"
    \/ pc[i] = "hung" /\ entry[i] \in {"garbled", "void"}

\* A call that starts to send gets an outcome, whatever the relay and the socket
\* do (client.ts:264-273, 328-337, 351-404).  It is left without one by an
\* answer that does not decode, or when a disconnect removes its entry.
CallSettles ==
  \A i \in Ids : pc[i] = "opening" ~>
    \/ pc[i] \in Over
    \/ pc[i] = "hung" /\ entry[i] \in {"garbled", "void"}
    \/ pc[i] = "dropped" /\ \E d \in Closers : closer[d] # "idle"

\* "if no pong receieved after 40 s, reconnect" (client.ts:350): once the
\* reconnect() of a round that got no pong is over, the socket it was sent
\* over has been replaced.  Stated while nobody disconnects.
MissedPongReconnects ==
  connector = "free" /\ queued = 0 /\ (\A d \in Closers : closer[d] = "idle") =>
    \A p \in Pings : pc[p] = "expired" => p \notin overCon

\* "Waiting for the rmb responses to be received before closing the connection"
\* (client.ts:180): while disconnect waits for the answer to a request, it
\* listens to the open socket the answer comes over.
DrainListens ==
  /\ \E d \in Closers : closer[d] = "draining"
  /\ \E i \in Requests : entry[i] = "request"
  /\ con = "open"
  => ~deaf
=============================================================================
