--------------------------- MODULE PhooksHubProofs ---------------------------
(* What holds of the hub for any clients, events, ports and datagrams.       *)
EXTENDS PhooksHub, TLAPS

\* Letters are numbered; the last one a client has sent is the only one with its
\* number, and whatever the hub has handled had been sent.
LettersOK ==
  /\ \A m \in letters :
       /\ m.cmd = "REGISTER" => m.port # None
       /\ m.cmd = "UNREGISTER" => m.events = {}
       /\ m.n <= asked[m.client].n
       /\ m.n = asked[m.client].n => m = asked[m.client]
  /\ \A c \in Client :
       /\ asked[c].cmd = "REGISTER" => asked[c].port # None
       /\ handled[c] <= asked[c].n

\* A client that claims to be registered, or is about to, has said so last.
ClaimsOK ==
  \A c \in Client : register[c] \/ state[c] = "registered" => asked[c].cmd = "REGISTER"

IInv == TypeOK /\ LettersOK /\ ClaimsOK /\ SubscribersAreRegistered /\ LastLetterWins

----------------------------------------------------------------------------
\* Initially nobody is registered and nothing is on its way.
LEMMA Initially == Init => IInv
<1>. SUFFICES ASSUME Init PROVE IInv
  OBVIOUS
<1>1. TypeOK
  <2>1. 0 \in 0 .. StaleTicks + 1 /\ 0 \in 0 .. MaxPort /\ 0 \in 0 .. MaxEmits /\ 0 \in 0 .. 0
    BY StaleAssumption, BoundsAssumption
  <2>2. asked \in [Client -> Letter]
    BY DEF Init, Letter
  <2>3. subscriptions \in [Event -> SUBSET Client]
    BY DEF Init
  <2>. QED  BY <2>1, <2>2, <2>3 DEF Init, TypeOK
<1>2. LettersOK
  BY DEF Init, LettersOK
<1>3. ClaimsOK
  BY DEF Init, ClaimsOK
<1>4. SubscribersAreRegistered
  BY DEF Init, SubscribersAreRegistered
<1>5. LastLetterWins
  BY DEF Init, LastLetterWins
<1>. QED  BY <1>1, <1>2, <1>3, <1>4, <1>5 DEF IInv

\* A new socket is one of the ports.
LEMMA SocketTypes ==
  ASSUME TypeOK, NEW c \in Client, CreateSocket(c)
  PROVE  /\ sockets' \in 0 .. MaxPort
         /\ port' \in [Client -> Port \cup {None}]
         /\ port'[c] \in Port
<1>1. sockets + 1 \in 1 .. MaxPort
  BY BoundsAssumption DEF TypeOK, CreateSocket
<1>. QED  BY <1>1, BoundsAssumption DEF TypeOK, CreateSocket, Port

\* Sending a letter makes it the client's last; the other clients' stay theirs.
LEMMA SendLetterOK ==
  ASSUME TypeOK, LettersOK, NEW c \in Client,
         NEW cmd \in {"REGISTER", "UNREGISTER"}, NEW from \in Port, NEW events \in SUBSET Event,
         cmd = "UNREGISTER" => events = {},
         SendLetter(c, cmd, from, events), UNCHANGED handled
  PROVE  /\ letters' \subseteq Letter /\ \A m \in letters' : m.port # None
         /\ asked' \in [Client -> Letter]
         /\ LettersOK'
         /\ asked'[c].cmd = cmd
         /\ handled[c] # asked'[c].n
         /\ \A d \in Client \ {c} : asked'[d] = asked[d]
<1>. DEFINE letter == [client |-> c, n |-> asked[c].n + 1, cmd |-> cmd,
                       port |-> from, events |-> events]
<1>1. asked[c] \in Letter /\ asked[c].n \in Nat
  BY DEF TypeOK, Letter
<1>2. letter \in Letter
  BY <1>1 DEF Letter
<1>3. /\ letter.client = c /\ letter.n = asked[c].n + 1
      /\ letter.cmd = cmd /\ letter.port = from /\ letter.events = events
  OBVIOUS
<1>4. letters' = letters \cup {letter} /\ asked' = [asked EXCEPT ![c] = letter]
  BY DEF SendLetter
<1>. HIDE DEF letter
<1>5. letters' \subseteq Letter /\ asked' \in [Client -> Letter]
  BY <1>2, <1>4 DEF TypeOK
<1>6. asked'[c] = letter /\ \A d \in Client \ {c} : asked'[d] = asked[d]
  BY <1>4 DEF TypeOK
<1>7. from # None
  BY NoneAssumption
<1>8. \A d \in Client : handled[d] \in Nat /\ asked[d].n \in Nat
  BY DEF TypeOK, Letter
<1>9. LettersOK'
  <2>1. ASSUME NEW m \in letters'
        PROVE  /\ m.cmd = "REGISTER" => m.port # None
               /\ m.cmd = "UNREGISTER" => m.events = {}
               /\ m.n <= asked'[m.client].n
               /\ m.n = asked'[m.client].n => m = asked'[m.client]
    <3>1. CASE m = letter
      BY <1>1, <1>3, <1>6, <1>7, <3>1
    <3>2. CASE m \in letters /\ m.client = c
      <4>1. m.n \in Nat /\ m.n <= asked[c].n /\ (m.cmd = "REGISTER" => m.port # None)
           /\ (m.cmd = "UNREGISTER" => m.events = {})
        BY <3>2 DEF LettersOK, TypeOK, Letter
      <4>. QED  BY <1>1, <1>3, <1>6, <3>2, <4>1
    <3>3. CASE m \in letters /\ m.client # c
      <4>1. m.client \in Client
        BY <3>3 DEF TypeOK, Letter
      <4>2. asked'[m.client] = asked[m.client]
        BY <1>6, <3>3, <4>1
      <4>. QED  BY <3>3, <4>2 DEF LettersOK
    <3>. QED  BY <1>4, <3>1, <3>2, <3>3
  <2>2. ASSUME NEW d \in Client
        PROVE  /\ asked'[d].cmd = "REGISTER" => asked'[d].port # None
               /\ handled[d] <= asked'[d].n
    <3>1. handled[d] <= asked[d].n /\ (asked[d].cmd = "REGISTER" => asked[d].port # None)
      BY DEF LettersOK
    <3>. QED  BY <1>3, <1>6, <1>7, <1>8, <3>1
  <2>. QED  BY <2>1, <2>2 DEF LettersOK
<1>10. \A m \in letters' : m.port # None
  BY <1>3, <1>4, <1>7 DEF TypeOK
<1>11. asked'[c].cmd = cmd /\ handled[c] # asked'[c].n
  <2>1. handled[c] <= asked[c].n
    BY DEF LettersOK
  <2>. QED  BY <1>3, <1>6, <1>8, <2>1
<1>. QED  BY <1>5, <1>6, <1>9, <1>10, <1>11

\* A step of the clients leaves the tables alone. They agree with each client's
\* last letter as before, unless the hub has yet to handle a new one.
LEMMA TablesKept ==
  ASSUME SubscribersAreRegistered, LastLetterWins, UNCHANGED <<hub, history>>,
         \A d \in Client : asked'[d] = asked[d] \/ handled[d] # asked'[d].n
  PROVE  SubscribersAreRegistered' /\ LastLetterWins'
<1>1. SubscribersAreRegistered'
  BY DEF SubscribersAreRegistered, hub
<1>2. LastLetterWins'
  <2>. SUFFICES ASSUME NEW d \in Client, handled[d] = asked'[d].n, ~dropped[d]
                PROVE  /\ registry[d] = (IF asked'[d].cmd = "REGISTER"
                                          THEN asked'[d].port ELSE None)
                       /\ \A e \in asked'[d].events : d \in subscriptions[e]
    BY DEF LastLetterWins, hub, history
  <2>1. asked'[d] = asked[d]
    OBVIOUS
  <2>. QED  BY <2>1 DEF LastLetterWins
<1>. QED  BY <1>1, <1>2

\* register() and unregister(), once their letter is sent.
LEMMA LetterSentOK ==
  ASSUME IInv, NEW c \in Client,
         NEW cmd \in {"REGISTER", "UNREGISTER"}, NEW from \in Port, NEW events \in SUBSET Event,
         cmd = "UNREGISTER" => events = {},
         SendLetter(c, cmd, from, events), UNCHANGED <<hub, emits, history>>,
         port' \in [Client -> Port \cup {None}], sockets' \in 0 .. MaxPort,
         register' \in [Client -> BOOLEAN],
         state' \in [Client -> {"unregistered", "registered"}],
         \A d \in Client \ {c} : register'[d] = register[d] /\ state'[d] = state[d],
         cmd = "REGISTER" \/ (~register'[c] /\ state'[c] # "registered")
  PROVE  IInv'
<1>. USE DEF IInv
<1>1. UNCHANGED handled
  BY DEF history
<1>2. /\ letters' \subseteq Letter /\ \A m \in letters' : m.port # None
      /\ asked' \in [Client -> Letter] /\ LettersOK'
      /\ asked'[c].cmd = cmd /\ handled[c] # asked'[c].n
      /\ \A d \in Client \ {c} : asked'[d] = asked[d]
  BY <1>1, SendLetterOK
<1>3. TypeOK'
  BY <1>2 DEF TypeOK, hub, history
<1>4. ClaimsOK'
  BY <1>2 DEF ClaimsOK
<1>5. SubscribersAreRegistered' /\ LastLetterWins'
  BY <1>2, TablesKept
<1>. QED  BY <1>2, <1>3, <1>4, <1>5

\* Every step of a client: calls of its script, failures and its end.
LEMMA ClientStepOK ==
  ASSUME IInv, NEW c \in Client, ClientStep(c)
  PROVE  IInv'
<1>. USE DEF IInv
<1>1. CASE RegisterSend(c)
  <2>1. PICK events \in SUBSET Event : SendLetter(c, "REGISTER", port'[c], events)
    BY <1>1 DEF RegisterSend
  <2>2. /\ port' \in [Client -> Port \cup {None}] /\ sockets' \in 0 .. MaxPort
        /\ port'[c] \in Port
    <3>1. CASE port[c] # None /\ UNCHANGED <<port, sockets>>
      BY <3>1 DEF TypeOK
    <3>2. CASE CreateSocket(c)
      BY <3>2, SocketTypes
    <3>. QED  BY <1>1, <3>1, <3>2 DEF RegisterSend
  <2>3. /\ UNCHANGED <<hub, emits, state, history>>
        /\ register' = [register EXCEPT ![c] = TRUE]
    BY <1>1 DEF RegisterSend
  <2>4. /\ register' \in [Client -> BOOLEAN]
        /\ \A d \in Client \ {c} : register'[d] = register[d]
    BY <2>3 DEF TypeOK
  <2>5. state' \in [Client -> {"unregistered", "registered"}]
    BY <2>3 DEF TypeOK
  <2>. QED  BY <2>1, <2>2, <2>3, <2>4, <2>5, LetterSentOK
<1>2. CASE Unregister(c)
  <2>1. SendLetter(c, "UNREGISTER", port[c], {}) /\ port[c] \in Port
    BY <1>2 DEF Unregister, TypeOK
  <2>2. /\ UNCHANGED <<hub, emits, register, sockets, history>>
        /\ ~register[c]
        /\ port' = [port EXCEPT ![c] = None]
        /\ state' = [state EXCEPT ![c] = "unregistered"]
    BY <1>2 DEF Unregister
  <2>3. port' \in [Client -> Port \cup {None}] /\ sockets' \in 0 .. MaxPort
    BY <2>2 DEF TypeOK
  <2>4. /\ state' \in [Client -> {"unregistered", "registered"}]
        /\ state'[c] # "registered"
        /\ \A d \in Client \ {c} : state'[d] = state[d]
    BY <2>2 DEF TypeOK
  <2>5. register' \in [Client -> BOOLEAN] /\ {} \in SUBSET Event
    BY <2>2 DEF TypeOK
  <2>. QED  BY <2>1, <2>2, <2>3, <2>4, <2>5, LetterSentOK
<1>3. CASE RegisterReturn(c) \/ RegisterFails(c) \/ Killed(c) \/ SocketFails(c)
           \/ Emit(c)
  <2>1. UNCHANGED <<hub, letters, asked, history>>
    BY <1>3 DEF RegisterReturn, RegisterFails, Killed, SocketFails, Emit, network, clients
  <2>2. SubscribersAreRegistered' /\ LastLetterWins'
    BY <2>1, TablesKept
  <2>3. LettersOK'
    BY <2>1 DEF LettersOK, history
  <2>4. port' \in [Client -> Port \cup {None}] /\ sockets' \in 0 .. MaxPort
    <3>1. CASE UNCHANGED <<port, sockets>>
      BY <3>1 DEF TypeOK
    <3>2. CASE CreateSocket(c)
      BY <3>2, SocketTypes
    <3>3. CASE port' = [port EXCEPT ![c] = None] /\ UNCHANGED sockets
      BY <3>3 DEF TypeOK
    <3>. QED
      BY <1>3, <3>1, <3>2, <3>3 DEF RegisterReturn, RegisterFails, Killed, SocketFails, Emit, clients
  <2>5. emits' \in 0 .. MaxEmits
    <3>1. CASE Emit(c)
      BY <3>1, BoundsAssumption DEF TypeOK, Emit
    <3>2. CASE UNCHANGED emits
      BY <3>2 DEF TypeOK
    <3>. QED
      BY <1>3, <3>1, <3>2 DEF RegisterReturn, RegisterFails, Killed, SocketFails, network
  <2>6. /\ register' \in [Client -> BOOLEAN]
        /\ state' \in [Client -> {"unregistered", "registered"}]
    BY <1>3 DEF TypeOK, RegisterReturn, RegisterFails, Killed, SocketFails, Emit, clients
  <2>7. ClaimsOK'
    BY <1>3, <2>1 DEF ClaimsOK, TypeOK, RegisterReturn, RegisterFails, Killed, SocketFails, Emit, clients
  <2>8. TypeOK'
    BY <2>1, <2>4, <2>5, <2>6 DEF TypeOK, hub, history
  <2>. QED  BY <2>2, <2>3, <2>7, <2>8
<1>. QED  BY <1>1, <1>2, <1>3 DEF ClientStep

----------------------------------------------------------------------------
\* What is forgotten is gone from both tables, and nothing else is.
LEMMA ForgetOK ==
  ASSUME TypeOK, SubscribersAreRegistered, NEW gone \in SUBSET Client, Forget(gone)
  PROVE  /\ registry' \in [Client -> Port \cup {None}]
         /\ age' \in [Client -> 0 .. StaleTicks + 1]
         /\ subscriptions' \in [Event -> SUBSET Client]
         /\ SubscribersAreRegistered'
         /\ \A c \in gone : registry'[c] = None
         /\ \A c \in Client \ gone :
              /\ registry'[c] = registry[c]
              /\ \A e \in Event : c \in subscriptions[e] => c \in subscriptions'[e]
<1>1. 0 \in 0 .. StaleTicks + 1
  BY StaleAssumption
<1>2. /\ registry' \in [Client -> Port \cup {None}]
      /\ age' \in [Client -> 0 .. StaleTicks + 1]
      /\ subscriptions' \in [Event -> SUBSET Client]
  BY <1>1 DEF TypeOK, Forget
<1>3. SubscribersAreRegistered'
  <2>. SUFFICES ASSUME NEW e \in Event, NEW c \in subscriptions'[e]
                PROVE  registry'[c] # None
    BY DEF SubscribersAreRegistered
  <2>1. c \in subscriptions[e] /\ c \notin gone /\ c \in Client
    BY DEF Forget, TypeOK
  <2>. QED  BY <2>1 DEF Forget, SubscribersAreRegistered
<1>. QED  BY <1>2, <1>3 DEF Forget

\* The hub handles a REGISTER or an UNREGISTER.
LEMMA HandleLetterOK ==
  ASSUME IInv, NEW m \in letters, HandleLetter(m)
  PROVE  IInv'
<1>. USE DEF IInv
<1>. DEFINE c == m.client
<1>1. /\ m \in Letter /\ c \in Client /\ m.n \in Nat /\ m.port \in Port \cup {None}
      /\ m.events \subseteq Event /\ m.cmd \in {"REGISTER", "UNREGISTER"}
  BY DEF TypeOK, Letter
<1>2. /\ m.cmd = "REGISTER" => m.port # None
      /\ m.cmd = "UNREGISTER" => m.events = {}
      /\ m.n <= asked[c].n
      /\ m.n = asked[c].n => m = asked[c]
  BY DEF LettersOK
<1>3. /\ letters' = letters \ {m}
      /\ handled' = [handled EXCEPT ![c] = m.n]
      /\ dropped' = [dropped EXCEPT ![c] = FALSE]
      /\ UNCHANGED <<cleaned, listening, emits, clients>>
  BY DEF HandleLetter
<1>4. LettersOK' /\ ClaimsOK'
  BY <1>1, <1>2, <1>3 DEF LettersOK, ClaimsOK, TypeOK, clients
<1>5. /\ registry' \in [Client -> Port \cup {None}]
      /\ age' \in [Client -> 0 .. StaleTicks + 1]
      /\ subscriptions' \in [Event -> SUBSET Client]
      /\ SubscribersAreRegistered'
      /\ registry'[c] = (IF m.cmd = "REGISTER" THEN m.port ELSE None)
      /\ m.cmd = "REGISTER" => \A e \in m.events : c \in subscriptions'[e]
      /\ \A d \in Client \ {c} :
           /\ registry'[d] = registry[d]
           /\ \A e \in Event : d \in subscriptions[e] => d \in subscriptions'[e]
  <2>1. CASE HandleUnregister(m)
    <3>1. Forget({c}) /\ m.cmd = "UNREGISTER" /\ {c} \in SUBSET Client
      BY <1>1, <2>1 DEF HandleUnregister
    <3>. QED  BY <3>1, ForgetOK
  <2>2. CASE HandleRegister(m)
    <3>1. /\ m.cmd = "REGISTER" /\ 0 \in 0 .. StaleTicks + 1
          /\ registry' = [registry EXCEPT ![c] = m.port]
          /\ age' = [age EXCEPT ![c] = 0]
          /\ subscriptions' = [e \in Event |-> IF e \in m.events THEN subscriptions[e] \cup {c}
                                                               ELSE subscriptions[e]]
      BY <2>2, StaleAssumption DEF HandleRegister
    <3>2. subscriptions' \in [Event -> SUBSET Client]
      BY <1>1, <3>1 DEF TypeOK
    <3>3. SubscribersAreRegistered'
      BY <1>1, <1>2, <3>1 DEF SubscribersAreRegistered, TypeOK
    <3>. QED  BY <1>1, <3>1, <3>2, <3>3 DEF TypeOK
  <2>. QED  BY <2>1, <2>2 DEF HandleLetter
<1>6. TypeOK'
  BY <1>1, <1>3, <1>5 DEF TypeOK, clients
<1>7. LastLetterWins'
  <2>. SUFFICES ASSUME NEW d \in Client, handled'[d] = asked[d].n, ~dropped'[d]
                PROVE  /\ registry'[d] = (IF asked[d].cmd = "REGISTER"
                                          THEN asked[d].port ELSE None)
                       /\ \A e \in asked[d].events : d \in subscriptions'[e]
    BY <1>3 DEF LastLetterWins, clients
  <2>1. CASE d = c
    <3>1. m = asked[d]
      BY <1>2, <1>3, <2>1 DEF TypeOK
    <3>2. asked[d].cmd = "UNREGISTER" => asked[d].events = {}
      BY <1>2, <3>1
    <3>. QED  BY <1>1, <1>5, <2>1, <3>1, <3>2
  <2>2. CASE d # c
    <3>1. handled[d] = asked[d].n /\ ~dropped[d]
      BY <1>3, <2>2 DEF TypeOK
    <3>2. asked[d].events \subseteq Event
      BY DEF TypeOK, Letter
    <3>. QED  BY <1>5, <2>2, <3>1, <3>2 DEF LastLetterWins
  <2>. QED  BY <2>1, <2>2
<1>. QED  BY <1>4, <1>5, <1>6, <1>7

\* Clean-ups and restarts: what is forgotten counts as dropped.
LEMMA DropOK ==
  ASSUME IInv, NEW gone \in SUBSET Client, Forget(gone),
         cleaned' \in BOOLEAN, listening' \in BOOLEAN,
         dropped' = [c \in Client |-> dropped[c] \/ c \in gone],
         UNCHANGED <<network, clients, handled>>
  PROVE  IInv'
<1>. USE DEF IInv
<1>1. /\ registry' \in [Client -> Port \cup {None}]
      /\ age' \in [Client -> 0 .. StaleTicks + 1]
      /\ subscriptions' \in [Event -> SUBSET Client]
      /\ SubscribersAreRegistered'
      /\ \A c \in Client \ gone :
           /\ registry'[c] = registry[c]
           /\ \A e \in Event : c \in subscriptions[e] => c \in subscriptions'[e]
  BY ForgetOK
<1>2. LettersOK' /\ ClaimsOK'
  BY DEF LettersOK, ClaimsOK, network, clients
<1>3. TypeOK'
  <2>1. dropped' \in [Client -> BOOLEAN]
    BY DEF TypeOK
  <2>. QED  BY <1>1, <2>1 DEF TypeOK, network, clients
<1>4. LastLetterWins'
  <2>. SUFFICES ASSUME NEW d \in Client, handled[d] = asked[d].n, ~dropped'[d]
                PROVE  /\ registry'[d] = (IF asked[d].cmd = "REGISTER"
                                          THEN asked[d].port ELSE None)
                       /\ \A e \in asked[d].events : d \in subscriptions'[e]
    BY DEF LastLetterWins, clients
  <2>1. d \notin gone /\ ~dropped[d]
    OBVIOUS
  <2>2. asked[d].events \subseteq Event
    BY DEF TypeOK, Letter
  <2>. QED  BY <1>1, <2>1, <2>2 DEF LastLetterWins
<1>. QED  BY <1>1, <1>2, <1>3, <1>4

\* Emissions, losses and the passing of time leave the tables as they are.
LEMMA QuietStepOK ==
  ASSUME IInv, UNCHANGED <<registry, subscriptions, clients, history>>,
         letters' \subseteq letters, emits' \in 0 .. MaxEmits,
         cleaned' \in BOOLEAN, listening' \in BOOLEAN,
         age' \in [Client -> 0 .. StaleTicks + 1]
  PROVE  IInv'
<1>. USE DEF IInv
<1>1. TypeOK'
  BY DEF TypeOK, clients, history
<1>2. LettersOK' /\ ClaimsOK'
  BY DEF LettersOK, ClaimsOK, clients, history
<1>3. SubscribersAreRegistered' /\ LastLetterWins'
  BY DEF SubscribersAreRegistered, LastLetterWins, clients, history
<1>. QED  BY <1>1, <1>2, <1>3

\* Every step keeps the invariant.
LEMMA StepOK ==
  ASSUME IInv, [Next]_vars
  PROVE  IInv'
<1>1. ASSUME NEW c \in Client, ClientStep(c) PROVE IInv'
  BY <1>1, ClientStepOK
<1>2. ASSUME NEW m \in letters, HandleLetter(m) PROVE IInv'
  BY <1>2, HandleLetterOK
<1>3. CASE Cleanup
  <2>. DEFINE stale == {c \in Client : registry[c] # None /\ age[c] > StaleTicks}
  <2>1. /\ stale \in SUBSET Client /\ Forget(stale)
        /\ cleaned' \in BOOLEAN /\ listening' \in BOOLEAN
        /\ dropped' = [c \in Client |-> dropped[c] \/ c \in stale]
        /\ UNCHANGED <<network, clients, handled>>
    BY <1>3 DEF Cleanup
  <2>. HIDE DEF stale
  <2>. QED  BY <2>1, DropOK
<1>4. CASE HubRestarts
  <2>1. /\ Forget(Client) /\ cleaned' \in BOOLEAN /\ listening' \in BOOLEAN
        /\ UNCHANGED <<network, clients, handled>>
    BY <1>4 DEF HubRestarts
  <2>2. dropped' = [c \in Client |-> dropped[c] \/ c \in Client]
    BY <1>4 DEF HubRestarts
  <2>. QED  BY <2>1, <2>2, DropOK
<1>5. CASE Tick
  <2>. DEFINE ages(c) == registry[c] # None /\ age[c] <= StaleTicks
  <2>1. age' = [c \in Client |-> IF ages(c) THEN age[c] + 1 ELSE age[c]]
    BY <1>5 DEF Tick
  <2>2. ASSUME NEW c \in Client
        PROVE  (IF ages(c) THEN age[c] + 1 ELSE age[c]) \in 0 .. StaleTicks + 1
    <3>1. age[c] \in 0 .. StaleTicks + 1
      BY DEF IInv, TypeOK
    <3>. QED  BY <3>1, StaleAssumption
  <2>. HIDE DEF ages
  <2>3. age' \in [Client -> 0 .. StaleTicks + 1]
    BY <2>1, <2>2
  <2>4. /\ UNCHANGED <<registry, subscriptions, clients, history>>
        /\ letters' \subseteq letters /\ emits' \in 0 .. MaxEmits
        /\ cleaned' \in BOOLEAN /\ listening' \in BOOLEAN
    BY <1>5 DEF Tick, network, IInv, TypeOK
  <2>. QED  BY <2>3, <2>4, QuietStepOK
<1>6. CASE Lose \/ HandleEmit \/ LoopEnds \/ UNCHANGED vars
  <2>1. /\ UNCHANGED <<registry, subscriptions, age, clients, history>>
        /\ letters' \subseteq letters /\ emits' \in 0 .. MaxEmits
    <3>1. emits \in 0 .. MaxEmits /\ MaxEmits \in Nat
      BY BoundsAssumption DEF IInv, TypeOK
    <3>2. emits' = emits \/ (emits > 0 /\ emits' = emits - 1)
      BY <1>6 DEF Lose, HandleEmit, LoopEnds, network, vars
    <3>3. emits' \in 0 .. MaxEmits
      BY <3>1, <3>2
    <3>4. letters' \subseteq letters
      BY <1>6 DEF Lose, HandleEmit, LoopEnds, network, vars
    <3>. QED  BY <1>6, <3>3, <3>4 DEF Lose, HandleEmit, LoopEnds, hub, vars
  <2>2. UNCHANGED cleaned /\ (UNCHANGED listening \/ listening' = FALSE)
    BY <1>6 DEF Lose, HandleEmit, LoopEnds, hub, vars
  <2>3. cleaned' \in BOOLEAN /\ listening' \in BOOLEAN
    BY <2>2 DEF IInv, TypeOK
  <2>4. age' \in [Client -> 0 .. StaleTicks + 1]
    BY <2>1 DEF IInv, TypeOK
  <2>. QED  BY <2>1, <2>3, <2>4, QuietStepOK
<1>. QED  BY <1>1, <1>2, <1>3, <1>4, <1>5, <1>6 DEF Next, Receive

----------------------------------------------------------------------------
\* The invariant holds of every state: whatever the clients, their sockets, the
\* network and the clock do to the hub.
THEOREM Invariance == Spec => []IInv
<1>1. Init => IInv
  BY Initially
<1>2. IInv /\ [Next]_vars => IInv'
  BY StepOK
<1>. QED  BY <1>1, <1>2, PTL DEF Spec

\* Every variable keeps its type, whatever is lost or overtakes what.
THEOREM TypeCorrect == Spec => []TypeOK
<1>1. IInv => TypeOK
  BY DEF IInv
<1>. QED  BY <1>1, Invariance, PTL

\* The two tables of the hub agree (phooks.py:134-142, 168-184).
THEOREM TablesAgree == Spec => []SubscribersAreRegistered
<1>1. IInv => SubscribersAreRegistered
  BY DEF IInv
<1>. QED  BY <1>1, Invariance, PTL

\* Once the hub has handled a client's last letter, and until it drops the client,
\* it has the address of that letter and at least the events (phooks.py:168-184).
THEOREM LastWordCounts == Spec => []LastLetterWins
<1>1. IInv => LastLetterWins
  BY DEF IInv
<1>. QED  BY <1>1, Invariance, PTL

\* A client that claims to be registered and gets nothing has one of three causes
\* (phooks_client.py:121-123, 174-184).
THEOREM DeafnessExplained == Spec => []DeafHasACause
<1>1. IInv => DeafHasACause
  BY DEF IInv, ClaimsOK, LastLetterWins, DeafHasACause
<1>. QED  BY <1>1, Invariance, PTL
=============================================================================
