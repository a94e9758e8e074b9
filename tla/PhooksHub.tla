------------------------------ MODULE PhooksHub ------------------------------
(* The event bus of the scripts: PhooksHub (phooks.py) keeps who is          *)
(* registered, at which address and for which events; PhooksClient           *)
(* (phooks_client.py) tells it over UDP and is never answered. Datagrams are *)
(* lost or overtake each other, clients are killed and started again, replace*)
(* their socket when it fails, and the hub is restarted by the engine.       *)
(*                                                                           *)
(* The hub handles one datagram at a time in one thread. A client has two    *)
(* threads: its script's, which registers and emits, and the receive loop.   *)
(* Time passes in ticks of ten seconds, the interval between clean-ups.      *)
EXTENDS Naturals

CONSTANTS
  Client,       \* script ids
  Event,
  StaleTicks,   \* STALE_CLIENT_TIMEOUT, in ticks
  MaxLetters,   \* bound: REGISTERs and UNREGISTERs each client sends
  MaxPort,      \* bound: sockets opened; no port is used twice
  MaxEmits,     \* bound: EMITs on their way at the same time
  None

ASSUME StaleAssumption == StaleTicks \in Nat \ {0}
ASSUME BoundsAssumption == MaxLetters \in [Client -> Nat] /\ MaxPort \in Nat /\ MaxEmits \in Nat

Port == 1 .. MaxPort
ASSUME NoneAssumption == None \notin Port

VARIABLES
  \* the hub
  registry,       \* script_registry: the address of each client
  age,            \* ticks since last_seen of a registered client
  subscriptions,  \* per event: the clients it goes to
  cleaned,        \* _last_cleanup is less than ten seconds ago
  listening,      \* the thread of _main_loop is alive
  \* the network
  letters,        \* REGISTER and UNREGISTER on their way to the hub
  emits,          \* how many EMITs are on their way to the hub
  \* the clients
  port,           \* the address of a client's socket
  state,          \* PhooksClient.state; "disconnected" and "error", which nothing
                  \* treats differently, are "unregistered" here
  register,       \* inside register(), between sendto and the assignment of state
  asked,          \* the last letter the client has sent
  sockets,        \* sockets opened so far
  \* history
  handled,        \* number of the last letter of each client the hub has handled
  dropped         \* the hub has evicted the client, or was restarted, since then

hub     == <<registry, age, subscriptions, cleaned, listening>>
network == <<letters, emits>>
clients == <<port, state, register, asked, sockets>>
history == <<handled, dropped>>
vars    == <<hub, network, clients, history>>

Letter == [client : Client, n : Nat, cmd : {"REGISTER", "UNREGISTER"},
           port : Port \cup {None}, events : SUBSET Event]

TypeOK ==
  /\ registry \in [Client -> Port \cup {None}]
  /\ age \in [Client -> 0 .. StaleTicks + 1]
  /\ subscriptions \in [Event -> SUBSET Client]
  /\ cleaned \in BOOLEAN /\ listening \in BOOLEAN
  /\ letters \subseteq Letter /\ \A m \in letters : m.port # None
  /\ emits \in 0 .. MaxEmits
  /\ port \in [Client -> Port \cup {None}]
  /\ state \in [Client -> {"unregistered", "registered"}]
  /\ register \in [Client -> BOOLEAN]
  /\ asked \in [Client -> Letter]
  /\ sockets \in 0 .. MaxPort
  /\ handled \in [Client -> Nat]
  /\ dropped \in [Client -> BOOLEAN]

Init ==
  /\ registry = [c \in Client |-> None]
  /\ age = [c \in Client |-> 0]
  /\ subscriptions = [e \in Event |-> {}]
  /\ cleaned = FALSE /\ listening = TRUE
  /\ letters = {} /\ emits = 0
  /\ port = [c \in Client |-> None]
  /\ state = [c \in Client |-> "unregistered"]
  /\ register = [c \in Client |-> FALSE]
  /\ asked = [c \in Client |-> [client |-> c, n |-> 0, cmd |-> "UNREGISTER",
                                port |-> None, events |-> {}]]
  /\ sockets = 0
  /\ handled = [c \in Client |-> 0]
  /\ dropped = [c \in Client |-> FALSE]

----------------------------------------------------------------------------
\* Clients.

\* socket, bind(("", 0)): a port of its own.
CreateSocket(c) ==
  /\ sockets < MaxPort
  /\ sockets' = sockets + 1
  /\ port' = [port EXCEPT ![c] = sockets + 1]

SendLetter(c, cmd, from, events) ==
  LET letter == [client |-> c, n |-> asked[c].n + 1, cmd |-> cmd,
                 port |-> from, events |-> events]
  IN /\ asked[c].n < MaxLetters[c]
     /\ asked' = [asked EXCEPT ![c] = letter]
     /\ letters' = letters \cup {letter}

\* Mutant: register() does not look whether there is a socket.
RegisterSendBlindly(c) ==
  /\ ~register[c]
  /\ UNCHANGED <<port, sockets>>
  /\ \E events \in SUBSET Event : SendLetter(c, "REGISTER", port[c], events)
  /\ register' = [register EXCEPT ![c] = TRUE]
  /\ UNCHANGED <<hub, emits, state, history>>

\* register(): the socket is closed or gives an error at most once. Which events
\* it asks for is a choice, since the script may have made a new client object.
RegisterSend(c) ==
  /\ ~register[c]
  /\ \/ port[c] # None /\ UNCHANGED <<port, sockets>>
     \/ CreateSocket(c)
  /\ \E events \in SUBSET Event : SendLetter(c, "REGISTER", port'[c], events)
  /\ register' = [register EXCEPT ![c] = TRUE]
  /\ UNCHANGED <<hub, emits, state, history>>

\* Neither the socket nor a new one could send, or there was no new one.
RegisterFails(c) ==
  /\ ~register[c]
  /\ CreateSocket(c) \/ UNCHANGED <<port, sockets>>
  /\ state' = [state EXCEPT ![c] = "unregistered"]
  /\ UNCHANGED <<hub, network, register, asked, history>>

RegisterReturn(c) ==
  /\ register[c]
  /\ register' = [register EXCEPT ![c] = FALSE]
  /\ state' = [state EXCEPT ![c] = "registered"]
  /\ UNCHANGED <<hub, network, port, asked, sockets, history>>

\* unregister() gives the socket up as well.
Unregister(c) ==
  /\ port[c] # None /\ ~register[c]
  /\ SendLetter(c, "UNREGISTER", port[c], {})
  /\ port' = [port EXCEPT ![c] = None]
  /\ state' = [state EXCEPT ![c] = "unregistered"]
  /\ UNCHANGED <<hub, emits, register, sockets, history>>

\* The process is killed. Another one with its script id may be started.
Killed(c) ==
  /\ port[c] # None
  /\ port' = [port EXCEPT ![c] = None]
  /\ state' = [state EXCEPT ![c] = "unregistered"]
  /\ register' = [register EXCEPT ![c] = FALSE]
  /\ UNCHANGED <<hub, network, asked, sockets, history>>

\* The receive loop, or emit, meets an OSError, or the loop a datagram that is
\* no JSON: a new socket, and no word of it to the hub. The loop keeps the socket
\* when the connection was reset, and both do when they cannot open another one.
SocketFails(c) ==
  /\ port[c] # None
  /\ CreateSocket(c) \/ UNCHANGED <<port, sockets>>
  /\ state' = [state EXCEPT ![c] = "unregistered"]
  /\ UNCHANGED <<hub, network, register, asked, history>>

\* Which event it is makes no difference here.
Emit(c) ==
  /\ port[c] # None /\ emits < MaxEmits
  /\ emits' = emits + 1
  /\ UNCHANGED <<hub, letters, clients, history>>

----------------------------------------------------------------------------
\* The hub.

\* Mutant: the entry goes, the subscriptions stay.
ForgetEntryOnly(gone) ==
  /\ registry' = [c \in Client |-> IF c \in gone THEN None ELSE registry[c]]
  /\ age' = [c \in Client |-> IF c \in gone THEN 0 ELSE age[c]]
  /\ UNCHANGED subscriptions

Forget(gone) ==
  /\ registry' = [c \in Client |-> IF c \in gone THEN None ELSE registry[c]]
  /\ age' = [c \in Client |-> IF c \in gone THEN 0 ELSE age[c]]
  /\ subscriptions' = [e \in Event |-> subscriptions[e] \ gone]

\* Mutant: a client that is known already keeps its entry.
HandleRegisterOnce(m) ==
  /\ m.cmd = "REGISTER"
  /\ registry' = [registry EXCEPT ![m.client] = IF @ = None THEN m.port ELSE @]
  /\ age' = [age EXCEPT ![m.client] = 0]
  /\ subscriptions' = [e \in Event |-> IF e \in m.events THEN subscriptions[e] \cup {m.client}
                                                        ELSE subscriptions[e]]

\* _register: subscriptions are added, those of an earlier REGISTER remain.
HandleRegister(m) ==
  /\ m.cmd = "REGISTER"
  /\ registry' = [registry EXCEPT ![m.client] = m.port]
  /\ age' = [age EXCEPT ![m.client] = 0]
  /\ subscriptions' = [e \in Event |-> IF e \in m.events THEN subscriptions[e] \cup {m.client}
                                                        ELSE subscriptions[e]]

\* Mutant: the client is unsubscribed and stays registered.
HandleUnregisterHalf(m) ==
  /\ m.cmd = "UNREGISTER"
  /\ subscriptions' = [e \in Event |-> subscriptions[e] \ {m.client}]
  /\ UNCHANGED <<registry, age>>

HandleUnregister(m) ==
  /\ m.cmd = "UNREGISTER"
  /\ Forget({m.client})

HandleLetter(m) ==
  /\ listening
  /\ HandleRegister(m) \/ HandleUnregister(m)
  /\ letters' = letters \ {m}
  /\ handled' = [handled EXCEPT ![m.client] = m.n]
  /\ dropped' = [dropped EXCEPT ![m.client] = FALSE]
  /\ UNCHANGED <<cleaned, listening, emits, clients>>

\* _emit forwards the event to whom the tables name, and changes neither of them:
\* last_seen stays as it is, although the client has been heard from.
HandleEmit ==
  /\ listening /\ emits > 0
  /\ emits' = emits - 1
  /\ UNCHANGED <<hub, letters, clients, history>>

Quiet == letters = {} /\ emits = 0

\* Mutant: one clean-up, and never another.
CleanupOnce ==
  /\ listening /\ Quiet /\ ~cleaned /\ \A c \in Client : registry[c] = None
  /\ cleaned' = TRUE
  /\ UNCHANGED <<registry, subscriptions, age, listening, network, clients, history>>

\* recvfrom has timed out, ten seconds after the last clean-up or later.
Cleanup ==
  LET stale == {c \in Client : registry[c] # None /\ age[c] > StaleTicks} IN
  /\ listening /\ Quiet /\ ~cleaned
  /\ cleaned' = TRUE
  /\ Forget(stale)
  /\ dropped' = [c \in Client |-> dropped[c] \/ c \in stale]
  /\ UNCHANGED <<listening, network, clients, handled>>

\* recvfrom raises another OSError: the loop ends, and the process with its
\* tables stays, since nothing sets hub.running to False.
LoopEnds ==
  /\ listening
  /\ listening' = FALSE
  /\ UNCHANGED <<registry, age, subscriptions, cleaned, network, clients, history>>

\* The engine stops the hub and starts another one, which knows nobody (without
\* anybody registered, and with a loop that runs, it would be the same again).
HubRestarts ==
  /\ ~listening \/ \E c \in Client : registry[c] # None
  /\ Forget(Client)
  /\ cleaned' = FALSE /\ listening' = TRUE
  /\ dropped' = [c \in Client |-> TRUE]
  /\ UNCHANGED <<network, clients, handled>>

----------------------------------------------------------------------------
\* The network, and time.

Lose ==
  /\ \/ \E m \in letters : letters' = letters \ {m} /\ UNCHANGED emits
     \/ emits > 0 /\ emits' = emits - 1 /\ UNCHANGED letters
  /\ UNCHANGED <<hub, clients, history>>

\* Ages count up to the one at which a client is stale: older is no different.
Tick ==
  /\ LET ages(c) == registry[c] # None /\ age[c] <= StaleTicks
     IN /\ cleaned \/ \E c \in Client : ages(c)
        /\ age' = [c \in Client |-> IF ages(c) THEN age[c] + 1 ELSE age[c]]
  /\ cleaned' = FALSE
  /\ UNCHANGED <<registry, subscriptions, listening, network, clients, history>>

Receive == (\E m \in letters : HandleLetter(m)) \/ HandleEmit

ClientStep(c) ==
  \/ RegisterSend(c) \/ RegisterFails(c) \/ RegisterReturn(c)
  \/ Unregister(c) \/ Killed(c) \/ SocketFails(c)
  \/ Emit(c)

Next ==
  \/ \E c \in Client : ClientStep(c)
  \/ Receive \/ Cleanup \/ LoopEnds \/ HubRestarts
  \/ Lose \/ Tick

Spec == Init /\ [][Next]_vars

\* As long as it runs, the hub's loop takes what arrives and cleans up when nothing
\* does, and time passes. Scripts, sockets, the network and whoever restarts the
\* hub may do as they like, and its loop may end.
FairSpec == Spec /\ WF_vars(Receive) /\ WF_vars(Cleanup) /\ WF_vars(Tick)

----------------------------------------------------------------------------
\* The hub's two tables agree: only registered clients are subscribed, so that
\* an evicted or unregistered one gets nothing when its id comes back.
SubscribersAreRegistered ==
  \A e \in Event : \A c \in subscriptions[e] : registry[c] # None

\* Once the hub has handled a client's last letter after all others, it has the
\* address of that letter, or has forgotten the client if the letter said so, and
\* sends it at least the events it asks for: whatever was lost or overtook another
\* before, and wherever the client's sockets have been. It may send more: _register
\* only adds, so the events of an earlier REGISTER remain (phooks.py:172-174).
LastLetterWins ==
  \A c \in Client : handled[c] = asked[c].n /\ ~dropped[c] =>
    /\ registry[c] = (IF asked[c].cmd = "REGISTER" THEN asked[c].port ELSE None)
    /\ \A e \in asked[c].events : c \in subscriptions[e]

\* A client that believes it is registered, and is not at the address the hub
\* has, is in one of the states the protocol cannot leave by itself: its letter
\* is lost, late or was overtaken; the hub evicted it or was restarted; or its
\* receive loop replaced the socket while register() was on its way.
DeafHasACause ==
  \A c \in Client : state[c] = "registered" /\ registry[c] # port[c] =>
    \/ handled[c] # asked[c].n
    \/ dropped[c]
    \/ asked[c].port # port[c]

\* Provided that datagrams stop arriving and that the loop runs on from then, a
\* client that is gone and was not heard of again is forgotten in the end. Without
\* either it need not be: recvfrom times out only in silence (phooks.py:120), and
\* an OSError ends the loop and leaves the tables (phooks.py:127-130).
GoneAreForgotten ==
  <>[](Quiet /\ listening) =>
    \A c \in Client : port[c] = None ~> port[c] # None \/ registry[c] = None
=============================================================================
