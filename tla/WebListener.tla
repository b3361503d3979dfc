----------------------------- MODULE WebListener -----------------------------
(***************************************************************************)
(* start_server() and handle_client() of the web server                    *)
(* (has4-web/challenge/src/main.c): one process accepts, forks a process   *)
(* for every connection, and then waits so that it does not accept too     *)
(* often.  Every fork duplicates the listening socket and the connection,  *)
(* and a socket is closed when the last process that has it closes it.     *)
(*                                                                         *)
(* Module HttpRequest is what a forked process does in "handling".  Time   *)
(* passes in ticks, at any moment and any number of them.                  *)
(***************************************************************************)
EXTENDS Integers, Sequences, FiniteSets

CONSTANTS
  Connections,   (* identities of connections, used again and again        *)
  Interval,      (* ticks of min_request_interval, 0 without a limit       *)
  PerWindow      (* the window the rate is measured in, in intervals       *)

ASSUME ListenerAssumption ==
  Interval \in Nat /\ PerWindow \in Nat \ {0} /\ "listener" \notin Connections

VARIABLES
  listener,      (* where start_server() is                                *)
  current,       (* ls: the connection it accepted last                    *)
  child,         (* where the process of a connection is                   *)
  ears,          (* the processes that have the listening socket           *)
  owners,        (* the processes that have a connection's socket          *)
  client,        (* what the other end of a connection has done            *)
  backlog,       (* connections the kernel holds for accept()              *)
  since,         (* ticks since previous_request_time, up to Interval      *)
  delay,         (* ticks nanosleep() still takes                          *)
  recent         (* ages of the accepts in the window, youngest first      *)

sockets == <<ears, owners>>
clock   == <<since, delay, recent>>
vars    == <<listener, current, child, sockets, client, backlog, clock>>

Window == PerWindow * Interval

Waiting(c) == \E i \in 1..Len(backlog) : backlog[i] = c

-----------------------------------------------------------------------------
Init ==
  /\ listener = "accept" /\ current \in Connections
  /\ child = [c \in Connections |-> "none"]
  /\ ears = {"listener"} /\ owners = [c \in Connections |-> {}]
  /\ client = [c \in Connections |-> "idle"]
  /\ backlog = <<>>
  /\ since = Interval /\ delay = 0 /\ recent = <<>>

Connect(c) ==
  /\ client[c] = "idle" /\ ears # {}
  /\ client' = [client EXCEPT ![c] = "open"]
  /\ backlog' = Append(backlog, c)
  /\ UNCHANGED <<listener, current, child, sockets, clock>>

ClientCloses(c) ==
  /\ client[c] = "open"
  /\ client' = [client EXCEPT ![c] = "closed"]
  /\ UNCHANGED <<listener, current, child, sockets, backlog, clock>>

(* Both ends are closed, and the identity can be used again.               *)
Gone(c) ==
  /\ client[c] = "closed" /\ owners[c] = {} /\ child[c] = "none"
  /\ ~Waiting(c)
  /\ listener \in {"fork", "parent"} => c # current
  /\ client' = [client EXCEPT ![c] = "idle"]
  /\ UNCHANGED <<listener, current, child, sockets, backlog, clock>>

(* A process closes the listening socket.  With the last one the kernel    *)
(* resets the connections that nobody accepted.                            *)
CloseEar(process) ==
  /\ ears' = ears \ {process}
  /\ IF ears' = {}
     THEN /\ backlog' = <<>>
          /\ client' = [c \in Connections |->
                          IF Waiting(c) THEN "closed" ELSE client[c]]
     ELSE UNCHANGED <<backlog, client>>

Accept ==
  /\ listener = "accept" /\ backlog # <<>>
  /\ listener' = "fork" /\ current' = Head(backlog)
  /\ backlog' = Tail(backlog)
  /\ owners' = [owners EXCEPT ![current'] = {"listener"}]
  /\ recent' = IF Window = 0 THEN <<>> ELSE <<0>> \o recent
  /\ UNCHANGED <<child, ears, client, since, delay>>

(* accept() fails: the server ends.                                        *)
AcceptFails ==
  /\ listener = "accept"
  /\ listener' = "exited"
  /\ CloseEar("listener")
  /\ UNCHANGED <<current, child, owners, clock>>

Fork ==
  /\ listener = "fork"
  /\ listener' = "parent"
  /\ child' = [child EXCEPT ![current] = "forked"]
  /\ ears' = ears \cup {current}
  /\ owners' = [owners EXCEPT ![current] = @ \cup {current}]
  /\ UNCHANGED <<current, client, backlog, clock>>

(* fork() fails: the server closes its socket and ends.                    *)
ForkFails ==
  /\ listener = "fork"
  /\ listener' = "exited"
  /\ CloseEar("listener")
  /\ owners' = [owners EXCEPT ![current] = @ \ {"listener"}]
  /\ UNCHANGED <<current, child, clock>>

(* The parent keeps the connection open, or waits for its process.         *)
ParentKeeps ==
  /\ listener = "parent"
  /\ listener' = IF Interval > 0 THEN "limit" ELSE "accept"
  /\ UNCHANGED <<current, child, sockets, client, backlog, clock>>

ParentWaits ==
  /\ listener = "parent" /\ child[current] = "none"
  /\ listener' = IF Interval > 0 THEN "limit" ELSE "accept"
  /\ owners' = [owners EXCEPT ![current] = @ \ {"listener"}]
  /\ UNCHANGED <<current, child, ears, client, backlog, clock>>

ParentCloses ==
  /\ listener = "parent"
  /\ listener' = IF Interval > 0 THEN "limit" ELSE "accept"
  /\ owners' = [owners EXCEPT ![current] = @ \ {"listener"}]
  /\ UNCHANGED <<current, child, ears, client, backlog, clock>>

LimitAdds ==
  /\ listener = "limit"
  /\ IF since < Interval
     THEN /\ listener' = "sleep" /\ delay' = Interval + since
          /\ UNCHANGED since
     ELSE /\ listener' = "accept" /\ since' = 0
          /\ UNCHANGED delay
  /\ UNCHANGED <<current, child, sockets, client, backlog, recent>>

(* The rate limiter: the rest of the interval since the last time it was   *)
(* here is slept away.                                                     *)
Limit ==
  /\ listener = "limit"
  /\ IF since < Interval
     THEN /\ listener' = "sleep" /\ delay' = Interval - since
          /\ UNCHANGED since
     ELSE /\ listener' = "accept" /\ since' = 0
          /\ UNCHANGED delay
  /\ UNCHANGED <<current, child, sockets, client, backlog, recent>>

(* After a sleep the time is not taken again.                              *)
WakeUnmarked ==
  /\ listener = "sleep" /\ delay = 0
  /\ listener' = "accept"
  /\ UNCHANGED <<current, child, sockets, client, backlog, since, delay, recent>>

Wake ==
  /\ listener = "sleep" /\ delay = 0
  /\ listener' = "accept" /\ since' = 0
  /\ UNCHANGED <<current, child, sockets, client, backlog, delay, recent>>

(* The child keeps the listening socket.                                   *)
ChildListens(c) ==
  /\ child[c] = "forked"
  /\ child' = [child EXCEPT ![c] = "handling"]
  /\ UNCHANGED <<listener, current, sockets, client, backlog, clock>>

ChildCloses(c) ==
  /\ child[c] = "forked"
  /\ child' = [child EXCEPT ![c] = "handling"]
  /\ CloseEar(c)
  /\ UNCHANGED <<listener, current, owners, clock>>

(* handleRequest() returned and the sending side is shut down.             *)
Handled(c) ==
  /\ child[c] = "handling"
  /\ child' = [child EXCEPT ![c] = "draining"]
  /\ UNCHANGED <<listener, current, sockets, client, backlog, clock>>

(* close(), and the process ends, which closes all else it has open.       *)
ChildExits(c) ==
  /\ child[c] = "draining"
  /\ child' = [child EXCEPT ![c] = "none"]
  /\ owners' = [owners EXCEPT ![c] = @ \ {c}]
  /\ CloseEar(c)
  /\ UNCHANGED <<listener, current, clock>>

(* Everything gets older by a tick, and the oldest accepts leave the       *)
(* window.                                                                 *)
Tick ==
  /\ since' = IF since < Interval THEN since + 1 ELSE since
  /\ delay' = IF delay > 0 THEN delay - 1 ELSE 0
  /\ \E n \in 0..Len(recent) :
       /\ \A i \in 1..Len(recent) : i <= n <=> recent[i] + 1 < Window
       /\ recent' = [i \in 1..n |-> recent[i] + 1]
  /\ UNCHANGED <<listener, current, child, sockets, client, backlog>>

Listen == Accept \/ Fork \/ ParentCloses \/ Limit \/ Wake

Next ==
  \/ Listen \/ AcceptFails \/ ForkFails \/ Tick
  \/ \E c \in Connections :
       Connect(c) \/ ClientCloses(c) \/ Gone(c) \/ ChildCloses(c) \/ Handled(c) \/ ChildExits(c)

(* The processes are scheduled and time passes.  handleRequest() is only   *)
(* sure to return once the client has closed (HttpRequest, ClosedEnds),    *)
(* and nobody has to connect or to close.                                  *)
Fairness ==
  /\ WF_vars(Listen) /\ WF_vars(Tick)
  /\ \A c \in Connections : /\ WF_vars(ChildCloses(c)) /\ WF_vars(ChildExits(c))
                            /\ WF_vars(client[c] = "closed" /\ Handled(c))

Spec == Init /\ [][Next]_vars /\ Fairness

-----------------------------------------------------------------------------
(* Types; a connection belongs to its process and the listener, is in the  *)
(* backlog once, and the listener never sleeps longer than an interval.    *)
TypeOK ==
  /\ listener \in {"accept", "fork", "parent", "limit", "sleep", "exited"}
  /\ current \in Connections
  /\ child \in [Connections -> {"none", "forked", "handling", "draining"}]
  /\ ears \subseteq {"listener"} \cup Connections
  /\ owners \in [Connections -> SUBSET ({"listener"} \cup Connections)]
  /\ client \in [Connections -> {"idle", "open", "closed"}]
  /\ backlog \in Seq(Connections)
  /\ \A i, j \in 1..Len(backlog) : backlog[i] = backlog[j] => i = j
  /\ since \in 0..Interval /\ delay \in 0..Interval
  /\ recent \in Seq(0..(Window - 1))

(* In a window of N intervals the server accepts at most N + 1 times: a    *)
(* quiet time earns one connection at once, never a burst.                 *)
RateLimited == Len(recent) <= PerWindow + 1

(* Every descriptor is somebody's: the connection is open in its own       *)
(* process and, until it has forked, in the listener; the listening socket *)
(* in the listener and in a process that has just been forked.             *)
SocketsAccounted ==
  /\ TypeOK
  /\ \A c \in Connections :
       owners[c] = {p \in {"listener"} : listener \in {"fork", "parent"} /\ current = c}
                   \cup {p \in {c} : child[c] # "none"}
  /\ ears = {p \in {"listener"} : listener # "exited"}
            \cup {c \in Connections : child[c] = "forked"}

(* A connection is taken from the backlog, or refused, however long other  *)
(* clients keep their own connections.                                     *)
NobodyStallsTheListener ==
  \A c \in Connections :
    Waiting(c) ~> ~Waiting(c)

(* When the listener is gone nobody is left waiting for it: the port is    *)
(* closed although processes of old connections live on.                   *)
DeadListenerIsNoticed == listener = "exited" ~> ears = {} /\ backlog = <<>>

(* Both: whatever becomes of the listener or of other clients, no client   *)
(* waits for ever in the backlog.                                          *)
NobodyIsLeftWaiting == NobodyStallsTheListener /\ DeadListenerIsNoticed
=============================================================================
