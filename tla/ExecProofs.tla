----------------------------- MODULE ExecProofs -----------------------------
(***************************************************************************)
(* Proofs about module ExecSession, for any number of clients, every size  *)
(* of every buffer and every configuration: the agent's two counters are   *)
(* exact.                                                                  *)
(***************************************************************************)
EXTENDS ExecSession, FiniteSetTheorems, TLAPS

(* A leaf goes to Zenon unless it names another prover.                    *)
USE Zenon

-----------------------------------------------------------------------------
(* The agent's counters.                                                   *)

Places == Connected \cup InSession \cup {"none", "pending", "closed"}
At(T) == {c \in Clients : apc[c] \in T}

ClientPlaces == {"new", "nonce", "hello", "pong", "poll", "frame", "src", "srchup", "done", "gone"}

(* Where the clients and the agent's threads are, that there is no thread  *)
(* before there is a connection, and that a thread which has a unit in its *)
(* hand is draining the stream the unit is from.                           *)
PlaceOK ==
    /\ apc \in [Clients -> Places]
    /\ cpc \in [Clients -> ClientPlaces]
    /\ \A c \in Clients : cpc[c] = "new" => apc[c] = "none"
    /\ hand \in [Clients -> Streams \cup {"none"}]
    /\ \A c \in Clients : hand[c] # "none" => apc[c] = hand[c]

Counted ==
    /\ conns = Cardinality(At(Connected \cup InSession))
    /\ sessions = Cardinality(At(InSession))
    /\ conns <= MaxConns

(* A thread goes from one place to another: what that does to a count.     *)
LEMMA MoveCount ==
    ASSUME apc \in [Clients -> Places], NEW c \in Clients, NEW b, apc' = Set(apc, c, b), NEW T
    PROVE  /\ Cardinality(At(T)) \in Nat
           /\ (apc[c] \in T <=> b \in T) => At(T)' = At(T)
           /\ apc[c] \notin T /\ b \in T => Cardinality(At(T)') = Cardinality(At(T)) + 1
           /\ apc[c] \in T /\ b \notin T => Cardinality(At(T)') = Cardinality(At(T)) - 1
<1>1. IsFiniteSet(At(T))
    BY ExecSizes, FS_Subset DEF At
<1>2. Cardinality(At(T)) \in Nat
    BY <1>1, FS_CardinalityType
<1>3. ASSUME b \in T PROVE At(T)' = At(T) \cup {c}
    BY <1>3 DEF At, Set
<1>4. ASSUME b \notin T PROVE At(T)' = At(T) \ {c}
    BY <1>4 DEF At, Set
<1>5. c \in At(T) <=> apc[c] \in T
    BY DEF At
<1>6. CASE apc[c] \in T <=> b \in T
    <2>1. At(T)' = At(T)
        BY <1>3, <1>4, <1>5, <1>6
    <2>. QED  BY <1>2, <1>6, <2>1
<1>7. CASE apc[c] \notin T /\ b \in T
    BY <1>1, <1>2, <1>3, <1>5, <1>7, FS_AddElement
<1>8. CASE apc[c] \in T /\ b \notin T
    BY <1>1, <1>2, <1>4, <1>5, <1>8, FS_RemoveElement
<1>. QED  BY <1>6, <1>7, <1>8

(* A thread may start a session: the clients in one are connected, and     *)
(* this one is connected without being in one.                             *)
LEMMA RoomLeft ==
    ASSUME PlaceOK, Counted, NEW c \in Clients, apc[c] = "control"
    PROVE  sessions < MaxSessions
<1>1. IsFiniteSet(At(Connected \cup InSession))
    BY ExecSizes, FS_Subset DEF At
<1>2. At(InSession) \subseteq At(Connected \cup InSession)
    BY DEF At
<1>3. At(InSession) # At(Connected \cup InSession)
    <2>1. c \in At(Connected \cup InSession) /\ c \notin At(InSession)
        BY DEF At, Connected, InSession
    <2>. QED  BY <2>1
<1>4. Cardinality(At(InSession)) < Cardinality(At(Connected \cup InSession))
    <2>1. /\ Cardinality(At(InSession)) <= Cardinality(At(Connected \cup InSession))
          /\ Cardinality(At(InSession)) # Cardinality(At(Connected \cup InSession))
        BY <1>1, <1>2, <1>3, FS_Subset
    <2>2. Cardinality(At(InSession)) \in Nat /\ Cardinality(At(Connected \cup InSession)) \in Nat
        BY <1>1, <1>2, FS_Subset, FS_CardinalityType
    <2>. QED  BY SMT, <2>1, <2>2
<1>5. Cardinality(At(InSession)) \in Nat /\ Cardinality(At(Connected \cup InSession)) \in Nat
    BY <1>1, <1>2, FS_Subset, FS_CardinalityType
<1>. QED  BY SMT, <1>4, <1>5, ExecSizes DEF Counted

LEMMA InitSlots == Init => PlaceOK /\ Counted
<1>. SUFFICES ASSUME Init PROVE PlaceOK /\ Counted
    OBVIOUS
<1>1. PlaceOK
    BY DEF Init, All, PlaceOK, Places, ClientPlaces
<1>2. At(Connected \cup InSession) = {} /\ At(InSession) = {}
    BY DEF Init, All, At, Connected, InSession
<1>3. Cardinality({}) = 0 /\ 0 <= MaxConns
    BY SMT, FS_EmptySet, ExecSizes
<1>. QED  BY <1>1, <1>2, <1>3 DEF Counted, Init

(* Between two steps of the agent's threads, and for a step of a thread    *)
(* that stays connected, or not, and in a session, or not.                 *)
LEMMA SameCount ==
    ASSUME PlaceOK, Counted, UNCHANGED countVars,
           \/ UNCHANGED apc
           \/ \E c \in Clients, b \in Places :
                  /\ apc' = Set(apc, c, b)
                  /\ apc[c] \in Connected \cup InSession <=> b \in Connected \cup InSession
                  /\ apc[c] \in InSession <=> b \in InSession
    PROVE  Counted'
<1>1. CASE UNCHANGED apc
    BY <1>1 DEF Counted, countVars, At
<1>2. CASE \E c \in Clients, b \in Places :
                  /\ apc' = Set(apc, c, b)
                  /\ apc[c] \in Connected \cup InSession <=> b \in Connected \cup InSession
                  /\ apc[c] \in InSession <=> b \in InSession
    <2>1. PICK c \in Clients, b \in Places :
                  /\ apc' = Set(apc, c, b)
                  /\ apc[c] \in Connected \cup InSession <=> b \in Connected \cup InSession
                  /\ apc[c] \in InSession <=> b \in InSession
        BY <1>2
    <2>2. At(Connected \cup InSession)' = At(Connected \cup InSession)
        BY <2>1, MoveCount DEF PlaceOK
    <2>3. At(InSession)' = At(InSession)
        BY <2>1, MoveCount DEF PlaceOK
    <2>. QED  BY <2>2, <2>3 DEF Counted, countVars
<1>. QED  BY <1>1, <1>2

LEMMA StepPlace == PlaceOK /\ [Next]_vars => PlaceOK'
<1>. SUFFICES ASSUME PlaceOK, [Next]_vars PROVE PlaceOK'
    OBVIOUS
<1>. USE DEF PlaceOK, Places, ClientPlaces, Connected, InSession, Streams, Set
<1>a. UNCHANGED <<apc, cpc, hand>> => PlaceOK'
    OBVIOUS
<1>1. ASSUME NEW c \in Clients, Client(c) PROVE PlaceOK'
    <2>1. CASE ClientConnect(c)
        BY <2>1 DEF ClientConnect, loopVars
    <2>2. ASSUME UNCHANGED <<apc, hand>>, \E b \in ClientPlaces \ {"new"} : cpc' = Set(cpc, c, b)
          PROVE  PlaceOK'
        BY SMT, <2>2
    <2>3. CASE ClientNonce(c) \/ ClientHello(c) \/ ClientPong(c) \/ ClientPoll(c)
        BY <2>2, <2>3 DEF ClientNonce, ClientHello, ClientPong, ClientPoll, Returns, agentVars, loopVars
    <2>4. CASE ClientFrame(c) \/ ClientStdin(c) \/ ClientStdinHup(c)
        BY <2>2, <2>4 DEF ClientFrame, ClientStdin, ClientStdinHup, ClientSends, Returns,
                    agentVars, loopVars
    <2>. QED  BY <1>1, <2>1, <2>3, <2>4 DEF Client
<1>2. ASSUME NEW c \in Clients, \/ Accept(c) \/ AgentNonce(c) \/ AgentExec(c) \/ AgentExecTty(c)
                                \/ AgentPing(c) \/ AgentOther(c) \/ AgentClose(c) \/ AgentCount(c)
      PROVE  PlaceOK'
    BY SMT, <1>2 DEF Accept, AgentNonce, AgentExec, AgentExecTty, Starts, AgentPing, AgentOther,
                AgentClose, AgentCount, loopVars, clientVars
<1>3. ASSUME NEW c \in Clients, AgentPoll(c) \/ AgentConn(c) \/ AgentStdin(c) \/ AgentWait(c)
                                \/ AgentFinal(c) \/ AgentStatus(c)
      PROVE  PlaceOK'
    BY SMT, <1>3 DEF AgentPoll, AgentConn, AgentStdin, HupOrWait, AgentWait, AgentFinal, EndSession,
                AgentStatus, loopVars, clientVars
<1>4. ASSUME NEW c \in Clients, (\E s \in Streams : AgentDrain(c, s)) \/ AgentSend(c)
      PROVE  PlaceOK'
    BY SMT, <1>4 DEF AgentDrain, AgentSend, After, clientVars
<1>5. ASSUME NEW c \in Clients, \/ Command(c) \/ CmdQuits(c) \/ JobEnds(c)
                                \/ (\E s \in StreamsOf : JobWrites(c, s)) \/ User(c)
      PROVE  UNCHANGED <<apc, cpc, hand>>
    BY <1>5 DEF Command, CmdReads, CmdWrites, CmdEof, CmdQuits, JobEnds, JobWrites,
                User, UserGives, UserCloses, clientVars, agentVars, loopVars
<1>7. ASSUME NEW c \in Clients, ClientKilled(c) PROVE PlaceOK'
    BY <1>7 DEF ClientKilled, agentVars, loopVars
<1>6. CASE Over \/ UNCHANGED vars
    BY <1>6 DEF Over, vars, clientVars, agentVars, loopVars
<1>. QED  BY <1>a, <1>1, <1>2, <1>3, <1>4, <1>5, <1>6, <1>7 DEF Next, Agent

LEMMA StepCount == PlaceOK /\ Counted /\ [Next]_vars => Counted'
<1>. SUFFICES ASSUME PlaceOK, Counted, [Next]_vars PROVE Counted'
    OBVIOUS
<1>. DEFINE Conn == Connected \cup InSession
<1>n. /\ Cardinality(At(Conn)) \in Nat /\ Cardinality(At(InSession)) \in Nat
      /\ conns = Cardinality(At(Conn)) /\ sessions = Cardinality(At(InSession))
      /\ MaxConns \in Nat /\ conns <= MaxConns
    <2>1. IsFiniteSet(At(Conn)) /\ IsFiniteSet(At(InSession))
        BY ExecSizes, FS_Subset DEF At
    <2>. QED  BY <2>1, FS_CardinalityType, ExecSizes DEF Counted
<1>1. ASSUME NEW c \in Clients, Accept(c) PROVE Counted'
    <2>1. apc[c] = "pending"
        BY <1>1 DEF Accept
    <2>2. CASE conns >= MaxConns
        <3>1. apc' = Set(apc, c, "closed") /\ UNCHANGED countVars
            BY <1>1, <2>2 DEF Accept, countVars
        <3>. QED  BY SMT, <2>1, <3>1, SameCount DEF Places, Connected, InSession
    <2>3. CASE ~(conns >= MaxConns)
        <3>1. apc' = Set(apc, c, "nonce") /\ conns' = conns + 1 /\ sessions' = sessions
            BY <1>1, <2>3 DEF Accept
        <3>2. apc[c] \notin Conn /\ "nonce" \in Conn
              /\ apc[c] \notin InSession /\ "nonce" \notin InSession
            BY <2>1 DEF Connected, InSession
        <3>3. Cardinality(At(Conn)') = Cardinality(At(Conn)) + 1
            BY <3>1, <3>2, MoveCount DEF PlaceOK
        <3>4. At(InSession)' = At(InSession)
            BY <3>1, <3>2, MoveCount DEF PlaceOK
        <3>. QED  BY SMT, <1>n, <2>3, <3>1, <3>3, <3>4 DEF Counted
    <2>. QED  BY <2>2, <2>3
<1>2. ASSUME NEW c \in Clients, AgentCount(c) PROVE Counted'
    <2>1. apc[c] = "count" /\ apc' = Set(apc, c, "closed") /\ conns' = conns - 1
          /\ sessions' = sessions
        BY <1>2 DEF AgentCount
    <2>2. apc[c] \in Conn /\ "closed" \notin Conn
          /\ apc[c] \notin InSession /\ "closed" \notin InSession
        BY <2>1 DEF Connected, InSession
    <2>3. Cardinality(At(Conn)') = Cardinality(At(Conn)) - 1
        BY <2>1, <2>2, MoveCount DEF PlaceOK
    <2>4. At(InSession)' = At(InSession)
        BY <2>1, <2>2, MoveCount DEF PlaceOK
    <2>. QED  BY SMT, <1>n, <2>1, <2>3, <2>4 DEF Counted
<1>3. ASSUME NEW c \in Clients, Starts(c) PROVE Counted'
    <2>1. apc[c] = "control"
        BY <1>3 DEF Starts
    <2>2. CASE apc' = Set(apc, c, "status") /\ UNCHANGED <<conns, sessions>>
        BY SMT, <2>1, <2>2, SameCount DEF Places, Connected, InSession, countVars
    <2>3. CASE apc' = Set(apc, c, "poll") /\ conns' = conns /\ sessions' = sessions + 1
        <3>1. apc[c] \in Conn /\ "poll" \in Conn
              /\ apc[c] \notin InSession /\ "poll" \in InSession
            BY <2>1 DEF Connected, InSession
        <3>2. Cardinality(At(InSession)') = Cardinality(At(InSession)) + 1
            BY <2>3, <3>1, MoveCount DEF PlaceOK
        <3>3. At(Conn)' = At(Conn)
            BY <2>3, <3>1, MoveCount DEF PlaceOK
        <3>. QED  BY <1>n, <2>3, <3>2, <3>3 DEF Counted
    <2>. QED  BY <1>3, <2>2, <2>3 DEF Starts
<1>4. ASSUME NEW c \in Clients, EndSession(c), conns' = conns, apc[c] \in {"wait", "final"}
      PROVE  Counted'
    <2>1. apc' = Set(apc, c, "status") /\ sessions' = sessions - 1
        BY <1>4 DEF EndSession
    <2>2. apc[c] \in Conn /\ "status" \in Conn
          /\ apc[c] \in InSession /\ "status" \notin InSession
        BY <1>4 DEF Connected, InSession
    <2>3. Cardinality(At(InSession)') = Cardinality(At(InSession)) - 1
        BY <2>1, <2>2, MoveCount DEF PlaceOK
    <2>4. At(Conn)' = At(Conn)
        BY <2>1, <2>2, MoveCount DEF PlaceOK
    <2>. QED  BY <1>n, <1>4, <2>1, <2>3, <2>4 DEF Counted
<1>5. ASSUME NEW c \in Clients, AgentWait(c) \/ AgentFinal(c) PROVE Counted'
    <2>1. CASE EndSession(c)
        BY <1>4, <1>5, <2>1 DEF AgentWait, AgentFinal
    <2>2. CASE ~EndSession(c)
        BY <1>5, <2>2, SameCount DEF AgentWait, AgentFinal, Places, Connected, InSession, countVars
    <2>. QED  BY <2>1, <2>2
<1>6. ASSUME NEW c \in Clients, \/ AgentNonce(c) \/ AgentPing(c) \/ AgentOther(c) \/ AgentClose(c)
                                \/ AgentPoll(c) \/ AgentConn(c) \/ AgentStdin(c) \/ AgentStatus(c)
      PROVE  Counted'
    <2>1. ASSUME UNCHANGED countVars, apc[c] \in Connected,
                 \E b \in {"control", "closing"} : apc' = Set(apc, c, b)
          PROVE  Counted'
        BY <2>1, SameCount DEF Places, Connected, InSession
    <2>2. CASE AgentNonce(c) \/ AgentPing(c) \/ AgentOther(c) \/ AgentStatus(c)
        BY <2>1, <2>2, SameCount DEF AgentNonce, AgentPing, AgentOther, AgentStatus, Connected
    <2>3. CASE AgentClose(c)
        BY SMT, <2>3, SameCount DEF AgentClose, Places, Connected, InSession
    <2>4. ASSUME UNCHANGED countVars, apc[c] \in InSession,
                 \E b \in {"out", "stdin", "wait", "final"} : apc' = Set(apc, c, b)
          PROVE  Counted'
        BY <2>4, SameCount DEF Places, Connected, InSession
    <2>5. CASE AgentPoll(c) \/ AgentConn(c) \/ AgentStdin(c)
        BY <2>4, <2>5 DEF AgentPoll, AgentConn, AgentStdin, HupOrWait, InSession
    <2>. QED  BY <1>6, <2>2, <2>3, <2>5
<1>7. ASSUME NEW c \in Clients, (\E s \in Streams : AgentDrain(c, s)) \/ AgentSend(c)
      PROVE  Counted'
    <2>1. ASSUME UNCHANGED countVars, apc[c] \in InSession,
                 \E b \in {"err", "conn"} : apc' = Set(apc, c, b)
          PROVE  Counted'
        BY <2>1, SameCount DEF Places, Connected, InSession
    <2>2. UNCHANGED countVars /\ apc[c] \in InSession
          /\ (UNCHANGED apc \/ \E b \in {"err", "conn"} : apc' = Set(apc, c, b))
        BY <1>7 DEF AgentDrain, AgentSend, After, PlaceOK, Streams, InSession
    <2>. QED  BY <2>1, <2>2, SameCount
<1>8. ASSUME NEW c \in Clients, Client(c) PROVE Counted'
    <2>1. CASE ClientConnect(c)
        BY SMT, <2>1, SameCount DEF ClientConnect, PlaceOK, Places, Connected, InSession
    <2>2. CASE ~ClientConnect(c)
        BY <1>8, <2>2, SameCount DEF Client, ClientNonce, ClientHello, ClientPong, ClientPoll,
                    ClientFrame, ClientStdin, ClientStdinHup, agentVars
    <2>. QED  BY <2>1, <2>2
<1>9. ASSUME NEW c \in Clients, \/ Command(c) \/ ClientKilled(c) \/ CmdQuits(c) \/ JobEnds(c)
                                \/ (\E s \in StreamsOf : JobWrites(c, s)) \/ User(c)
      PROVE  Counted'
    BY <1>9, SameCount DEF Command, CmdReads, CmdWrites, CmdEof, ClientKilled, CmdQuits, JobEnds,
                JobWrites, User, UserGives, UserCloses, agentVars
<1>10. CASE Over \/ UNCHANGED vars
    BY <1>10, SameCount DEF Over, vars, agentVars
<1>. QED
    BY <1>1, <1>2, <1>3, <1>5, <1>6, <1>7, <1>8, <1>9, <1>10
    DEF Next, Agent, AgentExec, AgentExecTty

(* The agent's CONNECTION_COUNT and SESSION_COUNT are what they count, for *)
(* any number of clients, and MAX_SESSIONS is never what stops a session.  *)
THEOREM SlotsHold == Spec => []SlotsExact
<1>1. PlaceOK /\ Counted => SlotsExact
    BY RoomLeft DEF SlotsExact, Counted, At
<1>2. PlaceOK /\ Counted /\ [Next]_vars => (PlaceOK /\ Counted)'
    BY StepPlace, StepCount
<1>. QED  BY <1>1, <1>2, InitSlots, PTL DEF Spec
=============================================================================
