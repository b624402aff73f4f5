---------------------------- MODULE RelayProofs -----------------------------
(***************************************************************************)
(* Proofs about module Relay, for any number of connections, every         *)
(* allowlist, every answer of a resolver and every configuration: the data *)
(* of the peers, whom the proxy dials, the helper's own filters, and the   *)
(* slots.                                                                  *)
(***************************************************************************)
EXTENDS Relay, SeccompProofs

(* A leaf goes to Zenon unless it names another prover.                    *)
USE Zenon

-----------------------------------------------------------------------------
(* The types of the relay's state.                                         *)

ConnShapes ==
    [st : Steps \cup {"none"}, client : {"none", "open", "gone"},
     target : {"none", "open", "gone"}, req : Requests \cup {"none"},
     addr : Addresses \cup {"none"}, reply : {"none", "200", "403", "502"}]
PipeShapes == [sent : Int, got : Int, fin : BOOLEAN, dead : BOOLEAN]
CopyPlaces == {"none", "read", "write", "over"}

Typed ==
    /\ slots \in Int
    /\ conn \in [Conns -> ConnShapes]
    /\ pipe \in [Conns -> [Streams -> PipeShapes]]
    /\ copy \in [Conns -> [Dirs -> CopyPlaces]]
    /\ cut \in [Conns -> [Dirs -> BOOLEAN]]

LEMMA Names ==
    /\ Streams = {"fromClient", "toTarget", "fromTarget", "toClient"} /\ Dirs = {"up", "down"}
    /\ \A d \in Dirs : From(d) \in Streams /\ To(d) \in Streams
    /\ \A d \in Dirs, e \in Dirs : From(d) # To(e) /\ (d # e => From(d) # From(e) /\ To(d) # To(e))
BY DEF Streams, Dirs, From, To

LEMMA TypedInit == Init => Typed
BY SMT DEF Init, Typed, ConnShapes, PipeShapes, CopyPlaces, Empty, Steps

(* A stream is changed in one field.                                       *)
Sent(q) == [q EXCEPT !.sent = @ + 1]
Got(q) == [q EXCEPT !.got = @ + 1]
Fin(q) == [q EXCEPT !.fin = TRUE]
Dead(q) == [q EXCEPT !.dead = TRUE]

LEMMA StreamValues ==
    ASSUME NEW q \in PipeShapes
    PROVE  /\ q.sent \in Int /\ q.got \in Int /\ q.fin \in BOOLEAN /\ q.dead \in BOOLEAN
           /\ {Sent(q), Got(q), Fin(q), Dead(q)} \subseteq PipeShapes
           /\ Sent(q).sent = q.sent + 1 /\ Sent(q).got = q.got /\ Sent(q).fin = q.fin
           /\ Got(q).sent = q.sent /\ Got(q).got = q.got + 1 /\ Got(q).fin = q.fin
           /\ Fin(q).sent = q.sent /\ Fin(q).got = q.got /\ Fin(q).fin
           /\ Dead(q).sent = q.sent /\ Dead(q).got = q.got /\ Dead(q).fin = q.fin
<1>1. q.sent \in Int /\ q.got \in Int /\ q.fin \in BOOLEAN /\ q.dead \in BOOLEAN
    BY DEF PipeShapes
<1>2. q.sent + 1 \in Int /\ q.got + 1 \in Int
    BY SMT, <1>1
<1>3. Sent(q) \in PipeShapes /\ Got(q) \in PipeShapes
    BY <1>2 DEF PipeShapes, Sent, Got
<1>4. Fin(q) \in PipeShapes /\ Dead(q) \in PipeShapes
    BY DEF PipeShapes, Fin, Dead
<1>5. /\ Sent(q).sent = q.sent + 1 /\ Sent(q).got = q.got /\ Sent(q).fin = q.fin
      /\ Got(q).sent = q.sent /\ Got(q).got = q.got + 1 /\ Got(q).fin = q.fin
    BY DEF PipeShapes, Sent, Got
<1>6. /\ Fin(q).sent = q.sent /\ Fin(q).got = q.got /\ Fin(q).fin
      /\ Dead(q).sent = q.sent /\ Dead(q).got = q.got /\ Dead(q).fin = q.fin
    BY DEF PipeShapes, Fin, Dead
<1> QED BY <1>1, <1>3, <1>4, <1>5, <1>6

LEMMA ConnFields ==
    ASSUME NEW q \in ConnShapes
    PROVE  /\ \A st \in Steps : [q EXCEPT !.st = st] \in ConnShapes
           /\ [q EXCEPT !.client = "gone"] \in ConnShapes
           /\ [q EXCEPT !.target = "gone"] \in ConnShapes
           /\ [q EXCEPT !.target = "open"] \in ConnShapes
           /\ \A a \in Addresses : [q EXCEPT !.addr = a] \in ConnShapes
           /\ \A r \in {"none", "200", "403", "502"} : [q EXCEPT !.reply = r] \in ConnShapes
           /\ \A r \in Requests \cup {"none"} :
                 [q EXCEPT !.st = "queued", !.client = "open", !.req = r] \in ConnShapes
<1>1. \A st \in Steps : [q EXCEPT !.st = st] \in ConnShapes
    BY DEF ConnShapes
<1>2. /\ [q EXCEPT !.client = "gone"] \in ConnShapes
      /\ [q EXCEPT !.target = "gone"] \in ConnShapes
      /\ [q EXCEPT !.target = "open"] \in ConnShapes
    BY DEF ConnShapes
<1>3. /\ \A a \in Addresses : [q EXCEPT !.addr = a] \in ConnShapes
      /\ \A r \in {"none", "200", "403", "502"} : [q EXCEPT !.reply = r] \in ConnShapes
    BY DEF ConnShapes
<1>4. \A r \in Requests \cup {"none"} :
         [q EXCEPT !.st = "queued", !.client = "open", !.req = r] \in ConnShapes
    BY DEF ConnShapes, Steps
<1> QED BY <1>1, <1>2, <1>3, <1>4

LEMMA GotoTyped ==
    ASSUME Typed, NEW c \in Conns, NEW st \in Steps, Goto(c, st)
    PROVE  conn' \in [Conns -> ConnShapes]
<1>1. conn[c] \in ConnShapes
    BY DEF Typed
<1>2. [conn[c] EXCEPT !.st = st] \in ConnShapes
    BY <1>1, ConnFields
<1> QED BY <1>2 DEF Typed, Goto

LEMMA Fields ==
    ASSUME Typed, NEW c \in Conns
    PROVE  conn[c] \in ConnShapes /\ \A s \in Streams : pipe[c][s] \in PipeShapes
BY DEF Typed

(* What Closed does.                                                       *)
LEMMA ClosedPipe ==
    ASSUME Typed, NEW c \in Conns
    PROVE  /\ Closed(c) \in [Conns -> [Streams -> PipeShapes]]
           /\ \A e \in Conns : e # c => Closed(c)[e] = pipe[e]
           /\ \A d \in Dirs : /\ Closed(c)[c][To(d)] = Fin(pipe[c][To(d)])
                              /\ Closed(c)[c][From(d)] = Dead(pipe[c][From(d)])
<1>1. \A s \in Streams : Fin(pipe[c][s]) \in PipeShapes /\ Dead(pipe[c][s]) \in PipeShapes
    BY Fields, StreamValues
<1>2. Closed(c) = [pipe EXCEPT ![c] = [s \in Streams |->
          IF s \in {"fromClient", "fromTarget"} THEN Dead(pipe[c][s]) ELSE Fin(pipe[c][s])]]
    BY DEF Closed, Fin, Dead
<1>3. Closed(c) \in [Conns -> [Streams -> PipeShapes]]
    BY SMT, <1>1, <1>2 DEF Typed
<1>4. \A e \in Conns : e # c => Closed(c)[e] = pipe[e]
    BY <1>2 DEF Typed
<1>5. \A d \in Dirs : /\ Closed(c)[c][To(d)] = Fin(pipe[c][To(d)])
                      /\ Closed(c)[c][From(d)] = Dead(pipe[c][From(d)])
    BY SMT, <1>2 DEF Typed, Streams, Dirs, To, From
<1> QED BY <1>3, <1>4, <1>5

LEMMA EndsTyped ==
    ASSUME Typed, NEW c \in Conns, NEW r \in {"none", "200", "403", "502"}, Ends(c, r)
    PROVE  Typed'
<1>1. conn' \in [Conns -> ConnShapes]
    <2>1. conn[c] \in ConnShapes
        BY DEF Typed
    <2> QED BY <2>1, ConnFields DEF Typed, Ends, Steps
<1> QED BY SMT, <1>1, ClosedPipe DEF Typed, Ends

LEMMA FinishTyped ==
    ASSUME Typed, NEW c \in Conns, NEW d \in Dirs, NEW b \in BOOLEAN, Finish(c, d, b)
    PROVE  Typed'
<1>1. [pipe EXCEPT ![c][To(d)].fin = TRUE] \in [Conns -> [Streams -> PipeShapes]]
    <2>1. To(d) \in Streams /\ Fin(pipe[c][To(d)]) \in PipeShapes
        BY Names, Fields, StreamValues
    <2>2. [pipe EXCEPT ![c][To(d)] = Fin(pipe[c][To(d)])] \in [Conns -> [Streams -> PipeShapes]]
        BY <2>1 DEF Typed
    <2> QED BY <2>2 DEF Fin
<1>2. pipe' \in [Conns -> [Streams -> PipeShapes]]
    BY <1>1, ClosedPipe DEF Finish
<1>3. copy' \in [Conns -> [Dirs -> CopyPlaces]]
    BY DEF Finish, Typed, CopyPlaces
<1>4. cut' \in [Conns -> [Dirs -> BOOLEAN]]
    <2>1. (cut[c][d] \/ b) \in BOOLEAN
        OBVIOUS
    <2>2. cut' = [cut EXCEPT ![c][d] = (cut[c][d] \/ b)]
        BY DEF Finish
    <2> HIDE DEF Typed
    <2> QED BY <2>1, <2>2 DEF Typed
<1> QED BY <1>2, <1>3, <1>4 DEF Finish, Typed

(* The peers' steps.                                                       *)
Peers(c) == ClientActs(c) \/ ClientCloses(c) \/ TargetActs(c) \/ TargetCloses(c)

(* What the peers do to the streams: to one that they read, nothing that   *)
(* matters, to one that they write, and that has not ended, more data or   *)
(* the end.                                                                *)
LEMMA PeersStreams ==
    ASSUME Typed, NEW c \in Conns, Peers(c)
    PROVE  /\ pipe' \in [Conns -> [Streams -> PipeShapes]]
           /\ \A e \in Conns : e # c => pipe'[e] = pipe[e]
           /\ \A d \in Dirs :
                 /\ pipe'[c][To(d)].fin = pipe[c][To(d)].fin
                 /\ pipe'[c][To(d)].sent = pipe[c][To(d)].sent
                 /\ pipe'[c][From(d)].got = pipe[c][From(d)].got
                 /\ pipe[c][From(d)].fin => /\ pipe'[c][From(d)].fin
                                            /\ pipe'[c][From(d)].sent = pipe[c][From(d)].sent
<1>0. \A s \in Streams : pipe[c][s] \in PipeShapes
    BY Fields
<1>1. CASE ClientActs(c) \/ TargetActs(c)
    <2>1. PICK d \in Dirs :
             \/ pipe' = [pipe EXCEPT ![c][From(d)] = Sent(pipe[c][From(d)])] /\ ~pipe[c][From(d)].fin
             \/ pipe' = [pipe EXCEPT ![c][From(d)] = Fin(pipe[c][From(d)])]
             \/ pipe' = [pipe EXCEPT ![c][To(d)] = Got(pipe[c][To(d)])]
        <3>1. CASE ClientActs(c)
            <4>1. From("up") = "fromClient" /\ To("down") = "toClient"
                BY DEF From, To
            <4> QED BY <1>1, <3>1, <4>1 DEF ClientActs, Send, Shut, Receive, Sent, Fin, Got, Dirs
        <3>2. CASE TargetActs(c)
            <4>1. From("down") = "fromTarget" /\ To("up") = "toTarget"
                BY DEF From, To
            <4> QED BY <1>1, <3>2, <4>1 DEF TargetActs, Send, Shut, Receive, Sent, Fin, Got, Dirs
        <3> QED BY <1>1, <3>1, <3>2
    <2>2. From(d) \in Streams /\ To(d) \in Streams /\ \A e \in Dirs : From(e) # To(d) /\ To(e) # From(d)
        BY SMT, <2>1, Names
    <2>3. CASE pipe' = [pipe EXCEPT ![c][From(d)] = Sent(pipe[c][From(d)])] /\ ~pipe[c][From(d)].fin
        <3>1. Sent(pipe[c][From(d)]) \in PipeShapes
            BY <1>0, <2>2, StreamValues
        <3>2. /\ pipe' \in [Conns -> [Streams -> PipeShapes]]
              /\ pipe'[c][From(d)] = Sent(pipe[c][From(d)])
              /\ \A r \in Streams : r # From(d) => pipe'[c][r] = pipe[c][r]
              /\ \A e \in Conns : e # c => pipe'[e] = pipe[e]
            BY <2>2, <2>3, <3>1 DEF Typed
        <3>3. LET q == pipe[c][From(d)] IN
              /\ Sent(q).sent = q.sent + 1 /\ Sent(q).got = q.got
              /\ Sent(q).fin = q.fin
            BY <1>0, <2>2, StreamValues
        <3> QED BY SMT, <2>2, <2>3, <3>2, <3>3, Names
    <2>4. CASE pipe' = [pipe EXCEPT ![c][From(d)] = Fin(pipe[c][From(d)])]
        <3>1. Fin(pipe[c][From(d)]) \in PipeShapes
            BY <1>0, <2>2, StreamValues
        <3>2. /\ pipe' \in [Conns -> [Streams -> PipeShapes]]
              /\ pipe'[c][From(d)] = Fin(pipe[c][From(d)])
              /\ \A r \in Streams : r # From(d) => pipe'[c][r] = pipe[c][r]
              /\ \A e \in Conns : e # c => pipe'[e] = pipe[e]
            BY <2>2, <2>4, <3>1 DEF Typed
        <3>3. LET q == pipe[c][From(d)] IN
              /\ Fin(q).sent = q.sent /\ Fin(q).got = q.got
              /\ Fin(q).fin
            BY <1>0, <2>2, StreamValues
        <3> QED BY SMT, <2>2, <2>4, <3>2, <3>3, Names
    <2>5. CASE pipe' = [pipe EXCEPT ![c][To(d)] = Got(pipe[c][To(d)])]
        <3>1. Got(pipe[c][To(d)]) \in PipeShapes
            BY <1>0, <2>2, StreamValues
        <3>2. /\ pipe' \in [Conns -> [Streams -> PipeShapes]]
              /\ pipe'[c][To(d)] = Got(pipe[c][To(d)])
              /\ \A r \in Streams : r # To(d) => pipe'[c][r] = pipe[c][r]
              /\ \A e \in Conns : e # c => pipe'[e] = pipe[e]
            BY <2>2, <2>5, <3>1 DEF Typed
        <3>3. LET q == pipe[c][To(d)] IN
              /\ Got(q).sent = q.sent /\ Got(q).got = q.got + 1
              /\ Got(q).fin = q.fin
            BY <1>0, <2>2, StreamValues
        <3> QED BY SMT, <2>2, <2>5, <3>2, <3>3, Names
    <2> QED BY <2>1, <2>3, <2>4, <2>5
<1>2. CASE ClientCloses(c) \/ TargetCloses(c)
    <2>1. PICK d \in Dirs, b \in Dirs :
             pipe' = [pipe EXCEPT ![c][From(d)] = Fin(pipe[c][From(d)]), ![c][To(b)] = Dead(pipe[c][To(b)])]
        <3>1. CASE ClientCloses(c)
            <4>1. pipe' = [pipe EXCEPT ![c][From("up")].fin = TRUE, ![c][To("down")].dead = TRUE]
                BY <3>1 DEF ClientCloses, Close, From, To
            <4>2. [pipe EXCEPT ![c][From("up")].fin = TRUE][c][To("down")] = pipe[c][To("down")]
                BY Names DEF Typed, Dirs
            <4> QED BY <4>1, <4>2 DEF Dirs, Fin, Dead
        <3>2. CASE TargetCloses(c)
            <4>1. pipe' = [pipe EXCEPT ![c][From("down")].fin = TRUE, ![c][To("up")].dead = TRUE]
                BY <3>2 DEF TargetCloses, Close, From, To
            <4>2. [pipe EXCEPT ![c][From("down")].fin = TRUE][c][To("up")] = pipe[c][To("up")]
                BY Names DEF Typed, Dirs
            <4> QED BY <4>1, <4>2 DEF Dirs, Fin, Dead
        <3> QED BY <1>2, <3>1, <3>2
    <2>2. /\ pipe' \in [Conns -> [Streams -> PipeShapes]]
          /\ \A e \in Conns : e # c => pipe'[e] = pipe[e]
          /\ pipe'[c][From(d)] = Fin(pipe[c][From(d)]) /\ pipe'[c][To(b)] = Dead(pipe[c][To(b)])
          /\ \A s \in Streams : s \notin {From(d), To(b)} => pipe'[c][s] = pipe[c][s]
        <3>1. From(d) # To(b) /\ From(d) \in Streams /\ To(b) \in Streams
            BY Names
        <3>2. Fin(pipe[c][From(d)]) \in PipeShapes /\ Dead(pipe[c][To(b)]) \in PipeShapes
            BY <1>0, <3>1, StreamValues
        <3> QED BY <2>1, <3>1, <3>2 DEF Typed
    <2>3. \A e \in Dirs : /\ pipe'[c][To(e)] \in {pipe[c][To(e)], Dead(pipe[c][To(e)])}
                          /\ pipe'[c][From(e)] \in {pipe[c][From(e)], Fin(pipe[c][From(e)])}
        BY SMT, <2>2, Names
    <2>4. \A s \in Streams : LET q == pipe[c][s] IN
             /\ Fin(q).sent = q.sent /\ Fin(q).got = q.got /\ Fin(q).fin
             /\ Dead(q).sent = q.sent /\ Dead(q).fin = q.fin
        BY <1>0, StreamValues
    <2> QED BY SMT, <2>2, <2>3, <2>4, Names
<1> QED BY <1>1, <1>2 DEF Peers

LEMMA PeersTyped ==
    ASSUME Typed, NEW c \in Conns, Peers(c)
    PROVE  Typed'
<1>1. conn[c] \in ConnShapes
    BY Fields
<1>2. conn' \in [Conns -> ConnShapes]
    BY <1>1, ConnFields DEF Peers, ClientActs, TargetActs, ClientCloses, TargetCloses, Typed
<1> QED BY <1>2, PeersStreams DEF Peers, ClientActs, TargetActs, ClientCloses, TargetCloses, Typed

LEMMA TypedNext == Typed /\ [Next]_vars => Typed'
<1> SUFFICES ASSUME Typed, [Next]_vars PROVE Typed'
    OBVIOUS
<1>1. CASE SeccompNext /\ UNCHANGED relayVars
    BY <1>1 DEF relayVars, Typed
<1>2. CASE UNCHANGED vars
    BY <1>2 DEF vars, relayVars, Typed
<1>3. ASSUME NEW c \in Conns, Connect(c) PROVE Typed'
    <2>1. conn[c] \in ConnShapes
        BY DEF Typed
    <2>2. PICK r \in Requests \cup {"none"} :
             conn' = [conn EXCEPT ![c].st = "queued", ![c].client = "open", ![c].req = r]
        BY <1>3 DEF Connect
    <2>3. conn' \in [Conns -> ConnShapes]
        BY <2>1, <2>2, ConnFields DEF Typed
    <2> QED BY <1>3, <2>3 DEF Connect, Typed
<1>4. ASSUME NEW c \in Conns, Peers(c) PROVE Typed'
    BY <1>4, PeersTyped
<1>5. ASSUME NEW c \in Conns, Accept(c) PROVE Typed'
    <2>1. conn' \in [Conns -> ConnShapes]
        BY <1>5, GotoTyped DEF Accept, Steps
    <2>2. pipe' \in [Conns -> [Streams -> PipeShapes]]
        <3>1. /\ Closed(c) \in [Conns -> [Streams -> PipeShapes]]
              /\ pipe \in [Conns -> [Streams -> PipeShapes]]
            BY ClosedPipe DEF Typed
        <3>2. pipe' = pipe \/ pipe' = Closed(c)
            BY <1>5 DEF Accept
        <3> QED BY <3>1, <3>2
    <2>3. cut' \in [Conns -> [Dirs -> BOOLEAN]]
        <3>1. cut' = cut \/ cut' = [cut EXCEPT ![c] = [d \in Dirs |-> TRUE]]
            BY <1>5 DEF Accept
        <3> QED BY <3>1 DEF Typed
    <2>4. slots' \in Int /\ copy' = copy
        BY SMT, <1>5 DEF Accept, Typed
    <2> QED BY <2>1, <2>2, <2>3, <2>4 DEF Typed
<1>6. ASSUME NEW c \in Conns, ConnectUds(c) PROVE Typed'
    <2>1. CASE conn' = [conn EXCEPT ![c].st = "start", ![c].target = "open"]
        <3>0. conn[c] \in ConnShapes
            BY DEF Typed
        <3>1. conn' \in [Conns -> ConnShapes]
            BY <2>1, <3>0, ConnFields DEF Typed, Steps
        <3> QED BY <1>6, <3>1, EndsTyped DEF ConnectUds, Typed
    <2> QED BY <1>6, <2>1, EndsTyped DEF ConnectUds
<1>7. ASSUME NEW c \in Conns, ReadRequest(c) PROVE Typed'
    <2>1. CASE Goto(c, "resolve") /\ UNCHANGED <<slots, pipe, copy, cut>>
        BY <2>1, GotoTyped DEF Typed, Steps
    <2> QED BY <1>7, <2>1, EndsTyped DEF ReadRequest
<1>8. ASSUME NEW c \in Conns, Resolve(c) PROVE Typed'
    <2>1. ASSUME NEW a \in Addresses, conn' = [conn EXCEPT ![c].st = "dial", ![c].addr = a],
                 UNCHANGED <<slots, pipe, copy, cut>>
          PROVE  Typed'
        <3>1. conn[c] \in ConnShapes
            BY DEF Typed
        <3> QED BY <2>1, <3>1, ConnFields DEF Typed, Steps
    <2>2. \/ \E a \in Addresses : conn' = [conn EXCEPT ![c].st = "dial", ![c].addr = a]
                                 /\ UNCHANGED <<slots, pipe, copy, cut>>
          \/ Ends(c, "403") \/ Ends(c, "502")
        BY <1>8 DEF Resolve
    <2> QED BY <2>1, <2>2, EndsTyped
<1>9. ASSUME NEW c \in Conns, Dial(c) PROVE Typed'
    <2>1. CASE /\ conn' = [conn EXCEPT ![c].st = "start", ![c].target = "open", ![c].reply = "200"]
               /\ UNCHANGED <<slots, pipe, copy, cut>>
        <3>1. conn[c] \in ConnShapes
            BY DEF Typed
        <3> QED BY <2>1, <3>1, ConnFields DEF Typed, Steps
    <2> QED BY <1>9, <2>1, EndsTyped DEF Dial
<1>10. ASSUME NEW c \in Conns, StartRelay(c) PROVE Typed'
    <2>1. CASE Ends(c, conn[c].reply)
        <3>1. conn[c].reply \in {"none", "200", "403", "502"}
            BY DEF Typed, ConnShapes
        <3> QED BY <2>1, <3>1, EndsTyped
    <2>2. CASE Goto(c, "relay") \/ Goto(c, "over")
        <3>1. conn' \in [Conns -> ConnShapes]
            BY <2>2, GotoTyped DEF Steps
        <3>2. pipe' = pipe \/ Ends(c, conn[c].reply)
            BY <1>10 DEF StartRelay
        <3>3. copy' \in [Conns -> [Dirs -> CopyPlaces]] \/ Ends(c, conn[c].reply)
            <4>1. \/ Ends(c, conn[c].reply) \/ copy' = [copy EXCEPT ![c] = [d \in Dirs |-> "read"]]
                  \/ copy' = [copy EXCEPT ![c]["up"] = "read"]
                BY <1>10 DEF StartRelay
            <4>2. "up" \in Dirs /\ "read" \in CopyPlaces
                BY DEF Dirs, CopyPlaces
            <4>3. copy \in [Conns -> [Dirs -> CopyPlaces]]
                BY DEF Typed
            <4>4. [copy EXCEPT ![c]["up"] = "read"] \in [Conns -> [Dirs -> CopyPlaces]]
                BY <4>2, <4>3
            <4>5. [copy EXCEPT ![c] = [d \in Dirs |-> "read"]] \in [Conns -> [Dirs -> CopyPlaces]]
                BY <4>2, <4>3
            <4> QED BY <4>1, <4>4, <4>5
        <3>4. cut' \in [Conns -> [Dirs -> BOOLEAN]] \/ Ends(c, conn[c].reply)
            <4>1. \/ Ends(c, conn[c].reply) \/ cut' = cut \/ cut' = [cut EXCEPT ![c]["down"] = TRUE]
                BY <1>10 DEF StartRelay
            <4>2. "down" \in Dirs
                BY DEF Dirs
            <4>3. cut \in [Conns -> [Dirs -> BOOLEAN]]
                BY DEF Typed
            <4>4. [cut EXCEPT ![c]["down"] = TRUE] \in [Conns -> [Dirs -> BOOLEAN]]
                BY <4>2, <4>3
            <4> QED BY <4>1, <4>3, <4>4
        <3>5. slots' \in Int \/ Ends(c, conn[c].reply)
            BY SMT, <1>10 DEF StartRelay, Typed
        <3> QED BY <2>1, <3>1, <3>2, <3>3, <3>4, <3>5 DEF Typed
    <2> QED BY <1>10, <2>1, <2>2 DEF StartRelay
<1>11. ASSUME NEW c \in Conns, Join(c) PROVE Typed'
    BY SMT, <1>11, GotoTyped DEF Join, Typed, Steps
<1>12. ASSUME NEW c \in Conns, NEW d \in Dirs, Copy(c, d) PROVE Typed'
    <2>1. ASSUME NEW b \in BOOLEAN, Finish(c, d, b) PROVE Typed'
        BY <2>1, FinishTyped
    <2>2. CASE /\ pipe' = [pipe EXCEPT ![c][From(d)].got = @ + 1]
               /\ copy' = [copy EXCEPT ![c][d] = "write"]
               /\ UNCHANGED <<slots, conn, cut>>
        <3>1. pipe' \in [Conns -> [Streams -> PipeShapes]]
            <4>1. From(d) \in Streams /\ Got(pipe[c][From(d)]) \in PipeShapes
                BY Names, Fields, StreamValues
            <4>2. pipe' = [pipe EXCEPT ![c][From(d)] = Got(pipe[c][From(d)])]
                BY <2>2 DEF Got
            <4> QED BY <4>1, <4>2 DEF Typed
        <3> QED BY <2>2, <3>1 DEF Typed, CopyPlaces
    <2>3. CASE /\ pipe' = [pipe EXCEPT ![c][To(d)].sent = @ + 1]
               /\ copy' = [copy EXCEPT ![c][d] = "read"]
               /\ UNCHANGED <<slots, conn, cut>>
        <3>1. pipe' \in [Conns -> [Streams -> PipeShapes]]
            <4>1. To(d) \in Streams /\ Sent(pipe[c][To(d)]) \in PipeShapes
                BY Names, Fields, StreamValues
            <4>2. pipe' = [pipe EXCEPT ![c][To(d)] = Sent(pipe[c][To(d)])]
                BY <2>3 DEF Sent
            <4> QED BY <4>1, <4>2 DEF Typed
        <3> QED BY <2>3, <3>1 DEF Typed, CopyPlaces
    <2> QED BY <1>12, <2>1, <2>2, <2>3 DEF Copy, CopyRead, CopyWrite
<1> QED BY <1>1, <1>2, <1>3, <1>4, <1>5, <1>6, <1>7, <1>8, <1>9, <1>10, <1>11, <1>12
        DEF Next, Handle, Peers

-----------------------------------------------------------------------------
(* What the end of a stream means.                                         *)

Before == {"none", "queued", "accepted", "resolve", "dial", "start"}

(* EndMeansAll speaks of a stream that has ended.  The invariant says what *)
(* a direction has passed on at every moment: before the relay starts      *)
(* nothing is copied and nothing is shut, and a direction that does not    *)
(* start then is cut; one that copies has written what it has read, but    *)
(* for the buffer in its hand, to a stream that is open; and one that is   *)
(* over, and was not cut, has seen the end.                                *)
DirInv(c, d) ==
    LET from == pipe[c][From(d)]
        to == pipe[c][To(d)]
        st == copy[c][d]
    IN  /\ conn[c].st \in Before => st = "none" /\ ~cut[c][d] /\ ~to.fin
        /\ st \in {"read", "write"} => ~to.fin
        /\ st = "none" /\ conn[c].st \notin Before => cut[c][d]
        /\ st # "over" \/ ~cut[c][d] =>
              from.got = to.sent + (IF st = "write" THEN 1 ELSE 0)
        /\ st = "over" /\ ~cut[c][d] => from.fin /\ from.sent = from.got
EndInv == \A c \in Conns, d \in Dirs : DirInv(c, d)

LEMMA EndInit == Init => EndInv
BY SMT, Names DEF Init, EndInv, DirInv, Empty, Before

LEMMA EndImplies == Typed /\ EndInv => EndMeansAll
<1> SUFFICES ASSUME Typed, EndInv, NEW c \in Conns, NEW d \in Dirs,
                    pipe[c][To(d)].fin, ~cut[c][d]
             PROVE  pipe[c][From(d)].fin /\ pipe[c][To(d)].sent = pipe[c][From(d)].sent
    BY DEF EndMeansAll
<1>1. copy[c][d] \in CopyPlaces
    BY DEF Typed
<1>2. pipe[c][To(d)].sent \in Int
    BY Names, Fields, StreamValues
<1>3. DirInv(c, d)
    BY DEF EndInv
<1> QED BY SMT, <1>1, <1>2, <1>3 DEF DirInv, CopyPlaces

(* Nothing changes that the direction looks at.                            *)
LEMMA DirSame ==
    ASSUME NEW c \in Conns, NEW d \in Dirs, DirInv(c, d), copy'[c][d] = copy[c][d],
           cut'[c][d] = cut[c][d], pipe'[c][To(d)].fin = pipe[c][To(d)].fin,
           pipe'[c][To(d)].sent = pipe[c][To(d)].sent, pipe'[c][From(d)].got = pipe[c][From(d)].got,
           pipe[c][From(d)].fin => /\ pipe'[c][From(d)].fin
                                   /\ pipe'[c][From(d)].sent = pipe[c][From(d)].sent,
           conn'[c].st \in Before <=> conn[c].st \in Before
    PROVE  DirInv(c, d)'
BY DEF DirInv

LEMMA EndEnds ==
    ASSUME Typed, EndInv, NEW c \in Conns, conn[c].st \in Before, conn'[c].st = "over",
           pipe' = Closed(c), cut' = [cut EXCEPT ![c] = [d \in Dirs |-> TRUE]], copy' = copy,
           \A e \in Conns : e # c => conn'[e] = conn[e]
    PROVE  EndInv'
<1> SUFFICES ASSUME NEW e \in Conns, NEW d \in Dirs PROVE DirInv(e, d)'
    BY DEF EndInv
<1>1. DirInv(e, d) /\ DirInv(c, d)
    BY DEF EndInv
<1>2. CASE e # c
    <2>1. pipe'[e] = pipe[e] /\ cut'[e] = cut[e] /\ conn'[e] = conn[e]
        BY <1>2, ClosedPipe DEF Typed
    <2> QED BY <1>1, <2>1, DirSame
<1>3. CASE e = c
    <2>1. /\ pipe'[c][To(d)] = Fin(pipe[c][To(d)]) /\ pipe'[c][From(d)] = Dead(pipe[c][From(d)])
          /\ cut'[c][d]
        BY ClosedPipe DEF Typed
    <2>2. Fin(pipe[c][To(d)]).sent = pipe[c][To(d)].sent /\ Dead(pipe[c][From(d)]).got = pipe[c][From(d)].got
        BY Names, Fields, StreamValues
    <2> QED BY SMT, <1>1, <1>3, <2>1, <2>2 DEF DirInv, Before
<1> QED BY <1>2, <1>3

(* A direction of c ends.                                                  *)
LEMMA EndFinish ==
    ASSUME Typed, EndInv, NEW c \in Conns, NEW d \in Dirs, NEW b \in BOOLEAN, Finish(c, d, b),
           copy[c][d] \in {"read", "write"},
           ~b => /\ copy[c][d] = "read" /\ pipe[c][From(d)].fin
                 /\ pipe[c][From(d)].sent = pipe[c][From(d)].got
    PROVE  EndInv'
<1> SUFFICES ASSUME NEW e \in Conns, NEW f \in Dirs PROVE DirInv(e, f)'
    BY DEF EndInv
<1>0. DirInv(e, f) /\ DirInv(c, d)
    BY DEF EndInv
<1>1. /\ \A s \in Streams : pipe[c][s] \in PipeShapes
      /\ From(d) \in Streams /\ To(d) \in Streams /\ From(f) \in Streams /\ To(f) \in Streams
    BY Names, Fields
<1>2. /\ copy'[c][d] = "over" /\ \A g \in Dirs : g # d => copy'[c][g] = copy[c][g]
      /\ \A g \in Conns : g # c => copy'[g] = copy[g]
      /\ conn' = conn
    BY DEF Finish, Typed
<1>3. /\ cut'[c][d] = (cut[c][d] \/ b) /\ \A g \in Dirs : g # d => cut'[c][g] = cut[c][g]
      /\ \A g \in Conns : g # c => cut'[g] = cut[g]
    BY DEF Finish, Typed
<1>4. /\ \A g \in Conns : g # c => pipe'[g] = pipe[g]
      /\ pipe'[c][To(d)] = Fin(pipe[c][To(d)])
      /\ pipe'[c][From(f)] \in {pipe[c][From(f)], Dead(pipe[c][From(f)])}
      /\ f # d => \/ pipe'[c][To(f)] = pipe[c][To(f)]
                  \/ copy[c][f] \in {"none", "over"} /\ pipe'[c][To(f)] = Fin(pipe[c][To(f)])
    <2> DEFINE other == CHOOSE g \in Dirs : g # d
               shut == [pipe EXCEPT ![c][To(d)] = Fin(pipe[c][To(d)])]
    <2>1. f # d => f = other
        BY DEF Dirs
    <2>2. CASE copy[c][other] \in {"none", "over"}
        <3>1. pipe' = Closed(c)
            BY <2>2 DEF Finish
        <3> QED BY <2>1, <2>2, <3>1, ClosedPipe
    <2>3. CASE copy[c][other] \notin {"none", "over"}
        <3>1. pipe' = shut
            BY <2>3 DEF Finish, Fin
        <3>2. /\ \A g \in Conns : g # c => shut[g] = pipe[g]
              /\ shut[c][To(d)] = Fin(pipe[c][To(d)])
              /\ \A s \in Streams : s # To(d) => shut[c][s] = pipe[c][s]
            BY <1>1 DEF Typed
        <3> QED BY SMT, <1>1, <3>1, <3>2, Names
    <2> QED BY <2>2, <2>3
<1>5. /\ Fin(pipe[c][To(d)]).sent = pipe[c][To(d)].sent
      /\ Fin(pipe[c][To(f)]).sent = pipe[c][To(f)].sent
      /\ LET q == pipe[c][From(f)] IN
         Dead(q).got = q.got /\ Dead(q).sent = q.sent /\ Dead(q).fin = q.fin
    BY <1>1, StreamValues
<1>6. /\ pipe'[c][From(f)].got = pipe[c][From(f)].got /\ pipe'[c][From(f)].sent = pipe[c][From(f)].sent
      /\ pipe'[c][From(f)].fin = pipe[c][From(f)].fin
    BY <1>4, <1>5
<1>7. conn[c].st \notin Before
    BY <1>0 DEF DirInv
<1>8. CASE e # c
    BY <1>0, <1>2, <1>3, <1>4, <1>8, DirSame
<1>9. CASE e = c /\ f # d
    <2>1. CASE pipe'[c][To(f)] = pipe[c][To(f)]
        BY SMT, <1>0, <1>2, <1>3, <1>4, <1>5, <1>9, <2>1, DirSame
    <2>2. CASE copy[c][f] \in {"none", "over"} /\ pipe'[c][To(f)] = Fin(pipe[c][To(f)])
        <3>1. /\ pipe'[c][To(f)].sent = pipe[c][To(f)].sent
              /\ copy'[c][f] = copy[c][f] /\ cut'[c][f] = cut[c][f] /\ conn' = conn
            BY <1>2, <1>3, <1>5, <1>9, <2>2
        <3> QED BY <1>0, <1>9, <1>6, <1>7, <2>2, <3>1 DEF DirInv
    <2> QED BY <1>4, <1>9, <2>1, <2>2
<1>10. CASE e = c /\ f = d
    <2>2. pipe[c][To(d)].sent \in Int
        BY <1>1, StreamValues
    <2>3. CASE b
        BY <1>2, <1>3, <1>10, <1>7, <2>3 DEF DirInv
    <2>4. CASE ~b
        <3>1. pipe'[c][To(d)].sent = pipe[c][To(d)].sent
            BY <1>4, <1>5
        <3>2. copy[c][d] = "read"
            BY <2>4
        <3>3. pipe[c][From(d)].got = pipe[c][To(d)].sent
            BY SMT, <1>0, <2>2, <3>2 DEF DirInv
        <3> QED BY SMT, <1>2, <1>10, <1>6, <1>7, <2>2, <2>4, <3>1, <3>3 DEF DirInv
    <2> QED BY <2>3, <2>4
<1> QED BY <1>8, <1>9, <1>10

(* A step of one thread of c that leaves the other connections alone and   *)
(* does nothing to the streams and the copying.                            *)
LEMMA EndMove ==
    ASSUME Typed, EndInv, NEW c \in Conns, UNCHANGED <<pipe, copy, cut>>,
           \A e \in Conns : e # c => conn'[e] = conn[e],
           conn'[c].st \in Before <=> conn[c].st \in Before
    PROVE  EndInv'
<1> SUFFICES ASSUME NEW e \in Conns, NEW d \in Dirs PROVE DirInv(e, d)'
    BY DEF EndInv
<1>1. DirInv(e, d) /\ (conn'[e].st \in Before <=> conn[e].st \in Before)
    BY DEF EndInv
<1> QED BY <1>1 DEF DirInv
LEMMA EndsOf ==
    ASSUME Typed, NEW c \in Conns, NEW r, Ends(c, r)
    PROVE  /\ conn'[c].st = "over" /\ conn'[c].target = conn[c].target
           /\ conn'[c].req = conn[c].req /\ conn'[c].addr = conn[c].addr
           /\ \A e \in Conns : e # c => conn'[e] = conn[e]
           /\ slots' = slots - 1 /\ pipe' = Closed(c) /\ copy' = copy
           /\ cut' = [cut EXCEPT ![c] = [d \in Dirs |-> TRUE]]
           /\ UNCHANGED seccompVars
<1>1. conn[c] \in ConnShapes
    BY Fields
<1> QED BY <1>1 DEF Ends, Typed, ConnShapes, seccompVars

LEMMA GotoOf ==
    ASSUME Typed, NEW c \in Conns, NEW st, Goto(c, st)
    PROVE  /\ conn'[c].st = st /\ conn'[c].target = conn[c].target
           /\ conn'[c].req = conn[c].req /\ conn'[c].addr = conn[c].addr
           /\ \A e \in Conns : e # c => conn'[e] = conn[e]
<1>1. conn[c] \in ConnShapes
    BY Fields
<1> QED BY <1>1 DEF Goto, Typed, ConnShapes

(* The ways a connection's thread, or the accept loop, takes c a step      *)
(* further: on its way to the relay, into it, out of it, or to its end.    *)
Onward(c) ==
    /\ UNCHANGED <<seccompVars, pipe, copy, cut>>
    /\ \A e \in Conns : e # c => conn'[e] = conn[e]
    /\ conn'[c].req = conn[c].req
    /\ \/ /\ conn[c].st = "queued" /\ conn'[c].st = "accepted" /\ slots < MaxConns
          /\ slots' = slots + 1 /\ conn'[c].target = conn[c].target /\ conn'[c].addr = conn[c].addr
       \/ /\ conn[c].st = "accepted" /\ conn'[c].st = "start" /\ Is("bridge") /\ slots' = slots
       \/ /\ conn[c].st = "accepted" /\ conn'[c].st = "resolve" /\ slots' = slots /\ Is("proxy")
          /\ conn'[c].target = conn[c].target /\ conn'[c].addr = conn[c].addr
          /\ \E rule \in Allowlist : Matches(rule, conn[c].req)
       \/ /\ conn[c].st = "resolve" /\ conn'[c].st = "dial" /\ slots' = slots
          /\ conn'[c].target = conn[c].target /\ IsSafe(conn'[c].addr)
       \/ /\ conn[c].st = "dial" /\ conn'[c].st = "start" /\ slots' = slots
          /\ conn'[c].addr = conn[c].addr

Dropped(c) ==
    /\ conn[c].st \in {"queued", "accepted", "resolve", "dial", "start"} /\ conn'[c].st = "over"
    /\ conn'[c].target = conn[c].target /\ conn'[c].addr = conn[c].addr /\ conn'[c].req = conn[c].req
    /\ \A e \in Conns : e # c => conn'[e] = conn[e]
    /\ slots' = slots - (IF conn[c].st = "queued" THEN 0 ELSE 1)
    /\ UNCHANGED seccompVars

Relayed(c) ==
    /\ conn[c].st \in {"start", "relay"} /\ conn'[c].st \in {"relay", "over"}
    /\ conn[c].st = "relay" => conn'[c].st = "over"
    /\ conn'[c].target = conn[c].target /\ conn'[c].addr = conn[c].addr /\ conn'[c].req = conn[c].req
    /\ \A e \in Conns : e # c => conn'[e] = conn[e]
    /\ slots' = slots - (IF conn'[c].st = "over" THEN 1 ELSE 0)
    /\ UNCHANGED <<seccompVars, pipe>>
    /\ \/ conn[c].st = "relay" /\ UNCHANGED <<copy, cut>>
       \/ /\ conn[c].st = "start" /\ cut' = cut
          /\ copy' = [copy EXCEPT ![c] = [d \in Dirs |-> "read"]]
       \/ /\ conn[c].st = "start" /\ cut' = [cut EXCEPT ![c]["down"] = TRUE]
          /\ copy' = [copy EXCEPT ![c]["up"] = "read"]

LEMMA HandleSteps ==
    ASSUME Typed, NEW c \in Conns, Accept(c) \/ Handle(c)
    PROVE  \/ Onward(c) \/ Relayed(c)
           \/ /\ Dropped(c) /\ pipe' = Closed(c) /\ copy' = copy
              /\ cut' = [cut EXCEPT ![c] = [d \in Dirs |-> TRUE]]
<1>0. conn[c] \in ConnShapes
    BY Fields
<1> DEFINE D == /\ Dropped(c) /\ pipe' = Closed(c) /\ copy' = copy
                /\ cut' = [cut EXCEPT ![c] = [d \in Dirs |-> TRUE]]
<1>a. ASSUME NEW r, Ends(c, r), conn[c].st \in {"accepted", "resolve", "dial", "start"} PROVE D
    BY <1>a, EndsOf DEF Dropped
<1>1. CASE Accept(c)
    <2>1. CASE slots < MaxConns /\ slots' = slots + 1 /\ Goto(c, "accepted") /\ UNCHANGED <<pipe, cut>>
        BY <1>1, <2>1, GotoOf DEF Accept, At, Onward
    <2>2. CASE /\ Goto(c, "over") /\ pipe' = Closed(c)
               /\ cut' = [cut EXCEPT ![c] = [d \in Dirs |-> TRUE]] /\ UNCHANGED slots
        <3>1. slots' = slots - 0
            BY SMT, <2>2 DEF Typed
        <3> QED BY <1>1, <2>2, <3>1, GotoOf DEF Accept, At, Dropped
    <2> QED BY <1>1, <2>1, <2>2 DEF Accept
<1>2. CASE ConnectUds(c)
    <2>1. CASE /\ conn' = [conn EXCEPT ![c].st = "start", ![c].target = "open"]
               /\ UNCHANGED <<seccompVars, slots, pipe, copy, cut>>
        <3>1. /\ conn'[c].st = "start" /\ conn'[c].req = conn[c].req
              /\ \A e \in Conns : e # c => conn'[e] = conn[e]
            BY <1>0, <2>1 DEF Typed, ConnShapes
        <3> QED BY <1>2, <2>1, <3>1 DEF ConnectUds, At, Onward
    <2> QED BY <1>2, <2>1, <1>a DEF ConnectUds, At
<1>3. CASE ReadRequest(c)
    <2>1. CASE /\ Goto(c, "resolve") /\ \E rule \in Allowlist : Matches(rule, conn[c].req)
               /\ UNCHANGED <<seccompVars, slots, pipe, copy, cut>>
        BY <1>3, <2>1, GotoOf DEF ReadRequest, At, Onward
    <2> QED BY <1>3, <2>1, <1>a DEF ReadRequest, At
<1>4. CASE Resolve(c)
    <2>1. ASSUME NEW a, IsSafe(a), conn' = [conn EXCEPT ![c].st = "dial", ![c].addr = a],
                 UNCHANGED <<seccompVars, slots, pipe, copy, cut>>
          PROVE  Onward(c)
        <3>1. /\ conn'[c].st = "dial" /\ conn'[c].req = conn[c].req /\ conn'[c].addr = a
              /\ conn'[c].target = conn[c].target
              /\ \A e \in Conns : e # c => conn'[e] = conn[e]
            BY <1>0, <2>1 DEF Typed, ConnShapes
        <3> QED BY <1>4, <2>1, <3>1 DEF Resolve, At, Onward
    <2>2. At(c, "resolve")
        BY <1>4 DEF Resolve
    <2>3. (\E a : /\ IsSafe(a) /\ conn' = [conn EXCEPT ![c].st = "dial", ![c].addr = a]
                  /\ UNCHANGED <<seccompVars, slots, pipe, copy, cut>>) \/ \E r : Ends(c, r)
        BY <1>4 DEF Resolve
    <2> QED BY <1>a, <2>1, <2>2, <2>3 DEF At
<1>5. CASE Dial(c)
    <2>1. CASE /\ conn' = [conn EXCEPT ![c].st = "start", ![c].target = "open", ![c].reply = "200"]
               /\ UNCHANGED <<seccompVars, slots, pipe, copy, cut>>
        <3>1. /\ conn'[c].st = "start" /\ conn'[c].req = conn[c].req /\ conn'[c].addr = conn[c].addr
              /\ \A e \in Conns : e # c => conn'[e] = conn[e]
            BY <1>0, <2>1 DEF Typed, ConnShapes
        <3> QED BY <1>5, <2>1, <3>1 DEF Dial, At, Onward
    <2> QED BY <1>5, <2>1, <1>a DEF Dial, At
<1>6. CASE StartRelay(c)
    <2>1. CASE Goto(c, "relay") /\ copy' = [copy EXCEPT ![c] = [d \in Dirs |-> "read"]]
               /\ UNCHANGED <<seccompVars, slots, pipe, cut>>
        <3>1. slots' = slots - 0
            BY SMT, <2>1 DEF Typed
        <3> QED BY SMT, <1>6, <2>1, <3>1, GotoOf DEF StartRelay, At, Relayed
    <2>2. CASE /\ slots' = slots - 1 /\ Goto(c, "over") /\ copy' = [copy EXCEPT ![c]["up"] = "read"]
               /\ cut' = [cut EXCEPT ![c]["down"] = TRUE] /\ UNCHANGED <<seccompVars, pipe>>
        BY <1>6, <2>2, GotoOf DEF StartRelay, At, Relayed
    <2> QED BY <1>6, <2>1, <2>2, <1>a DEF StartRelay, At
<1>7. CASE Join(c)
    BY <1>7, GotoOf DEF Join, At, Relayed
<1> QED BY <1>1, <1>2, <1>3, <1>4, <1>5, <1>6, <1>7 DEF Handle

LEMMA ConnectOf ==
    ASSUME Typed, NEW c \in Conns, Connect(c)
    PROVE  /\ conn'[c].st = "queued" /\ conn'[c].target = conn[c].target
           /\ conn'[c].req \in IF Is("proxy") THEN Requests ELSE {"none"}
           /\ \A e \in Conns : e # c => conn'[e] = conn[e]
<1>1. conn[c] \in ConnShapes
    BY Fields
<1>2. PICK r \in IF Is("proxy") THEN Requests ELSE {"none"} :
         conn' = [conn EXCEPT ![c].st = "queued", ![c].client = "open", ![c].req = r]
    BY DEF Connect
<1> DEFINE q == [conn[c] EXCEPT !.st = "queued", !.client = "open", !.req = r]
<1>3. conn' = [conn EXCEPT ![c] = q]
    BY <1>2
<1>4. q.st = "queued" /\ q.req = r /\ q.target = conn[c].target
    BY <1>1 DEF ConnShapes
<1> HIDE DEF q
<1> QED BY <1>2, <1>3, <1>4 DEF Typed

LEMMA PeersOf ==
    ASSUME Typed, NEW c \in Conns, Peers(c)
    PROVE  /\ UNCHANGED <<seccompVars, slots, copy, cut>>
           /\ \A e \in Conns : /\ conn'[e].st = conn[e].st /\ conn'[e].req = conn[e].req
                               /\ conn'[e].addr = conn[e].addr
                               /\ conn'[e].target = "none" <=> conn[e].target = "none"
<1>1. UNCHANGED <<seccompVars, slots, copy, cut>>
    BY DEF Peers, ClientActs, ClientCloses, TargetActs, TargetCloses
<1>2. \/ conn' = conn \/ conn' = [conn EXCEPT ![c].client = "gone"]
      \/ conn[c].target = "open" /\ conn' = [conn EXCEPT ![c].target = "gone"]
    BY DEF Peers, ClientActs, ClientCloses, TargetActs, TargetCloses
<1>3. \A e \in Conns : e # c => conn'[e] = conn[e]
    BY <1>2 DEF Typed
<1>4. conn[c] \in ConnShapes
    BY Fields
<1>5. CASE conn' = [conn EXCEPT ![c].client = "gone"]
    BY <1>1, <1>3, <1>4, <1>5 DEF Typed, ConnShapes
<1>6. CASE conn[c].target = "open" /\ conn' = [conn EXCEPT ![c].target = "gone"]
    BY <1>1, <1>3, <1>4, <1>6 DEF Typed, ConnShapes
<1> QED BY <1>1, <1>2, <1>5, <1>6

LEMMA EndRelayed ==
    ASSUME Typed, EndInv, NEW c \in Conns, Relayed(c)
    PROVE  EndInv'
<1>1. CASE conn[c].st = "relay" /\ UNCHANGED <<copy, cut>>
    <2>1. conn'[c].st \in Before <=> conn[c].st \in Before
        BY <1>1 DEF Relayed, Before
    <2> QED BY <1>1, <2>1, EndMove DEF Relayed
<1>2. CASE conn[c].st = "start"
    <2> SUFFICES ASSUME NEW e \in Conns, NEW d \in Dirs PROVE DirInv(e, d)'
        BY DEF EndInv
    <2>1. DirInv(e, d) /\ pipe' = pipe
        BY DEF EndInv, Relayed
    <2>2. CASE e # c
        <3>1. copy'[e] = copy[e] /\ cut'[e] = cut[e] /\ conn'[e] = conn[e]
            BY <1>2, <2>2 DEF Relayed, Typed
        <3> QED BY <2>1, <3>1 DEF DirInv
    <2>3. CASE e = c
        <3>1. conn[c].st \in Before /\ conn'[c].st \notin Before
            BY <1>2 DEF Relayed, Before
        <3>2. copy'[c][d] \in {"read", copy[c][d]} /\ (copy'[c][d] # "read" => cut'[c][d])
            BY SMT, <1>2 DEF Relayed, Typed, Dirs
        <3> QED BY <2>1, <2>3, <3>1, <3>2 DEF DirInv
    <2> QED BY <2>2, <2>3
<1> QED BY <1>1, <1>2 DEF Relayed

LEMMA EndCopy ==
    ASSUME Typed, EndInv, NEW c \in Conns, NEW d \in Dirs, Copy(c, d)
    PROVE  EndInv'
<1>0. /\ From(d) \in Streams /\ To(d) \in Streams /\ From(d) # To(d)
      /\ pipe[c][From(d)] \in PipeShapes /\ pipe[c][To(d)] \in PipeShapes
    BY Names, Fields
<1>1. /\ pipe[c][From(d)].sent \in Int /\ pipe[c][From(d)].got \in Int /\ pipe[c][To(d)].sent \in Int
      /\ pipe[c][From(d)].fin \in BOOLEAN
    BY <1>0, StreamValues
<1>2. ASSUME NEW b \in BOOLEAN, Finish(c, d, b), copy[c][d] \in {"read", "write"},
             ~b => /\ copy[c][d] = "read" /\ pipe[c][From(d)].fin
                   /\ pipe[c][From(d)].sent = pipe[c][From(d)].got
      PROVE  EndInv'
    BY <1>2, EndFinish
<1>3. ASSUME NEW s \in {From(d), To(d)}, NEW q \in PipeShapes, NEW to, copy[c][d] \in {"read", "write"},
             pipe' = [pipe EXCEPT ![c][s] = q], copy' = [copy EXCEPT ![c][d] = to],
             UNCHANGED <<conn, cut>>, DirInv(c, d) => DirInv(c, d)'
      PROVE  EndInv'
    <2> SUFFICES ASSUME NEW e \in Conns, NEW f \in Dirs PROVE DirInv(e, f)'
        BY DEF EndInv
    <2>1. DirInv(e, f) /\ DirInv(c, d)
        BY DEF EndInv
    <2>2. CASE e # c
        <3>1. pipe'[e] = pipe[e] /\ copy'[e] = copy[e]
            BY <1>3, <2>2 DEF Typed
        <3> QED BY <1>3, <2>1, <3>1 DEF DirInv
    <2>3. CASE e = c /\ f # d
        <3>1. From(f) \in Streams \ {s} /\ To(f) \in Streams \ {s}
            BY <2>3, Names
        <3>2. pipe'[c][From(f)] = pipe[c][From(f)] /\ pipe'[c][To(f)] = pipe[c][To(f)]
            BY <1>0, <1>3, <3>1 DEF Typed
        <3>3. copy'[c][f] = copy[c][f]
            BY <1>3, <2>3 DEF Typed
        <3> QED BY <1>3, <2>1, <2>3, <3>2, <3>3 DEF DirInv
    <2> QED BY <1>3, <2>1, <2>2, <2>3
<1>4. CASE CopyRead(c, d)
    <2>1. CASE /\ pipe' = [pipe EXCEPT ![c][From(d)].got = @ + 1]
               /\ copy' = [copy EXCEPT ![c][d] = "write"]
               /\ UNCHANGED <<conn, cut>>
        <3>1. pipe' = [pipe EXCEPT ![c][From(d)] = Got(pipe[c][From(d)])]
            BY <2>1 DEF Got
        <3>2. /\ Got(pipe[c][From(d)]) \in PipeShapes
              /\ Got(pipe[c][From(d)]).got = pipe[c][From(d)].got + 1
            BY <1>0, StreamValues
        <3>3. /\ pipe'[c][From(d)] = Got(pipe[c][From(d)]) /\ pipe'[c][To(d)] = pipe[c][To(d)]
              /\ copy'[c][d] = "write" /\ copy[c][d] = "read"
            <4>1. copy[c][d] = "read"
                BY <1>4 DEF CopyRead
            <4> QED BY SMT, <1>0, <2>1, <3>1, <4>1 DEF Typed
        <3>4. DirInv(c, d) => DirInv(c, d)'
            BY SMT, <1>1, <2>1, <3>2, <3>3 DEF DirInv
        <3> QED BY <1>3, <2>1, <3>1, <3>2, <3>3, <3>4
    <2>2. CASE InTransit(c, From(d)) = 0 /\ Finish(c, d, ~pipe[c][From(d)].fin)
        <3>1. copy[c][d] = "read" /\ pipe[c][From(d)].sent = pipe[c][From(d)].got
            BY SMT, <1>1, <1>4, <2>2 DEF CopyRead, InTransit
        <3> QED BY <1>1, <1>2, <2>2, <3>1
    <2>3. CASE Finish(c, d, TRUE)
        BY <1>2, <1>4, <2>3 DEF CopyRead
    <2> QED BY <1>4, <2>1, <2>2, <2>3 DEF CopyRead
<1>5. CASE CopyWrite(c, d)
    <2>1. CASE /\ pipe' = [pipe EXCEPT ![c][To(d)].sent = @ + 1]
               /\ copy' = [copy EXCEPT ![c][d] = "read"]
               /\ UNCHANGED <<conn, cut>>
        <3>1. pipe' = [pipe EXCEPT ![c][To(d)] = Sent(pipe[c][To(d)])]
            BY <2>1 DEF Sent
        <3>2. /\ Sent(pipe[c][To(d)]) \in PipeShapes
              /\ Sent(pipe[c][To(d)]).sent = pipe[c][To(d)].sent + 1
              /\ Sent(pipe[c][To(d)]).fin = pipe[c][To(d)].fin
            BY <1>0, StreamValues
        <3>3. /\ pipe'[c][To(d)] = Sent(pipe[c][To(d)]) /\ pipe'[c][From(d)] = pipe[c][From(d)]
              /\ copy'[c][d] = "read" /\ copy[c][d] = "write"
            <4>1. copy[c][d] = "write"
                BY <1>5 DEF CopyWrite
            <4> QED BY SMT, <1>0, <2>1, <3>1, <4>1 DEF Typed
        <3>4. DirInv(c, d) => DirInv(c, d)'
            BY SMT, <1>1, <2>1, <3>2, <3>3 DEF DirInv
        <3> QED BY <1>3, <2>1, <3>1, <3>2, <3>3, <3>4
    <2>2. CASE Finish(c, d, TRUE)
        BY <1>2, <1>5, <2>2 DEF CopyWrite
    <2> QED BY <1>5, <2>1, <2>2 DEF CopyWrite
<1> QED BY <1>4, <1>5 DEF Copy

LEMMA EndNext == Typed /\ EndInv /\ [Next]_vars => EndInv'
<1> SUFFICES ASSUME Typed, EndInv, [Next]_vars PROVE EndInv'
    OBVIOUS
<1>1. CASE UNCHANGED relayVars
    BY SMT, <1>1 DEF relayVars, EndInv, DirInv
<1>2. ASSUME NEW c \in Conns, Connect(c) PROVE EndInv'
    <2>1. /\ conn[c].st = "none" /\ conn'[c].st = "queued" /\ UNCHANGED <<pipe, copy, cut>>
          /\ \A e \in Conns : e # c => conn'[e] = conn[e]
        BY <1>2, ConnectOf DEF Connect, At
    <2> QED BY <2>1, EndMove DEF Before
<1>3. ASSUME NEW c \in Conns, Peers(c) PROVE EndInv'
    <2>1. copy' = copy /\ cut' = cut /\ \A e \in Conns : conn'[e].st = conn[e].st
        BY <1>3, PeersOf
    <2> SUFFICES ASSUME NEW e \in Conns, NEW d \in Dirs PROVE DirInv(e, d)'
        BY DEF EndInv
    <2>2. DirInv(e, d)
        BY DEF EndInv
    <2>3. CASE e # c
        <3>1. pipe'[e] = pipe[e]
            BY <1>3, <2>3, PeersStreams
        <3> QED BY <2>1, <2>2, <3>1 DEF DirInv
    <2>4. CASE e = c
        <3>1. /\ pipe'[c][To(d)].fin = pipe[c][To(d)].fin
              /\ pipe'[c][To(d)].sent = pipe[c][To(d)].sent
              /\ pipe'[c][From(d)].got = pipe[c][From(d)].got
              /\ pipe[c][From(d)].fin => /\ pipe'[c][From(d)].fin
                                         /\ pipe'[c][From(d)].sent = pipe[c][From(d)].sent
            BY <1>3, PeersStreams
        <3> QED BY <2>1, <2>2, <2>4, <3>1, DirSame
    <2> QED BY <2>3, <2>4
<1>4. ASSUME NEW c \in Conns, Accept(c) \/ Handle(c) PROVE EndInv'
    <2>1. CASE Onward(c)
        <3>1. conn'[c].st \in Before /\ conn[c].st \in Before
            BY <2>1 DEF Onward, Before
        <3> QED BY <2>1, <3>1, EndMove DEF Onward
    <2>2. CASE /\ Dropped(c) /\ pipe' = Closed(c) /\ copy' = copy
               /\ cut' = [cut EXCEPT ![c] = [d \in Dirs |-> TRUE]]
        <3>1. conn[c].st \in Before /\ conn'[c].st = "over" /\ \A e \in Conns : e # c => conn'[e] = conn[e]
            BY <2>2 DEF Dropped, Before
        <3> QED BY <2>2, <3>1, EndEnds
    <2>3. CASE Relayed(c)
        BY <2>3, EndRelayed
    <2> QED BY <1>4, <2>1, <2>2, <2>3, HandleSteps
<1>5. ASSUME NEW c \in Conns, NEW d \in Dirs, Copy(c, d) PROVE EndInv'
    BY <1>5, EndCopy
<1> QED BY <1>1, <1>2, <1>3, <1>4, <1>5 DEF Next, Peers, vars

(* A peer of the bridge or of the proxy that sees the end of a stream has  *)
(* everything the other peer sent, and that peer has ended it, unless the  *)
(* direction was cut; for any number of connections, every size of the     *)
(* socket buffers and every order of the two copying threads.              *)
THEOREM EndsWhole == Spec => []EndMeansAll
<1>1. Init => Typed /\ EndInv
    BY TypedInit, EndInit
<1>2. Typed /\ EndInv /\ [Next]_vars => Typed' /\ EndInv'
    BY TypedNext, EndNext
<1> QED BY <1>1, <1>2, EndImplies, PTL DEF Spec

-----------------------------------------------------------------------------
(* Who is dialled.                                                         *)

LEMMA HowStays == [Next]_vars => how' = how
<1>1. SeccompNext => how' = how
    BY DEF SeccompNext, Setup, ApplyFilter, InstallNotify, SendListener, TakeListener, Exec, Try,
           Tighten, Fork, Trap, Handler, HandlerEnter, HandlerMark, HandlerPrint, HandlerLeave
<1>2. ASSUME NEW c \in Conns,
             Connect(c) \/ ClientActs(c) \/ ClientCloses(c) \/ TargetActs(c) \/ TargetCloses(c)
      PROVE  how' = how
    BY <1>2 DEF Connect, ClientActs, ClientCloses, TargetActs, TargetCloses, seccompVars
<1>3. ASSUME NEW c \in Conns, Accept(c) \/ Handle(c) PROVE how' = how
    BY <1>3 DEF Accept, Handle, ConnectUds, ReadRequest, Resolve, Dial, StartRelay, Join, Ends,
                seccompVars
<1>4. ASSUME NEW c \in Conns, NEW d \in Dirs, Copy(c, d) PROVE how' = how
    BY <1>4 DEF Copy, CopyRead, CopyWrite, Finish, seccompVars
<1> QED BY <1>1, <1>2, <1>3, <1>4 DEF Next, vars, seccompVars

(* OnlyAllowedDialled speaks of a target that was reached.  What was       *)
(* judged stays as it was: a request that passed the allowlist, and an     *)
(* address that passed is_safe_resolved_ip, are kept until the dialling.   *)
DialInv ==
    \A c \in Conns : LET q == conn[c] IN
        /\ q.st = "none" => q.target = "none"
        /\ Is("proxy") /\ (q.st \in {"resolve", "dial", "start", "relay"} \/ q.target # "none")
              => \E rule \in Allowlist : Matches(rule, q.req)
        /\ Is("proxy") /\ (q.st \in {"dial", "start", "relay"} \/ q.target # "none")
              => IsSafe(q.addr)

LEMMA DialInit == Init => DialInv
BY SMT DEF Init, DialInv

LEMMA DialImplies == DialInv => OnlyAllowedDialled
<1> SUFFICES ASSUME DialInv, NEW c \in Conns, Is("proxy"), conn[c].target # "none"
             PROVE  /\ \E rule \in Allowlist :
                          /\ rule.port = conn[c].req.port
                          /\ \/ rule.host = conn[c].req.host
                             \/ rule.suffix /\ EndsWith(conn[c].req.host, rule.host)
                    /\ ~Inside(conn[c].addr)
    BY DEF OnlyAllowedDialled
<1>1. PICK rule \in Allowlist : Matches(rule, conn[c].req)
    BY DEF DialInv
<1>2. /\ rule.port = conn[c].req.port
      /\ \/ rule.host = conn[c].req.host
         \/ rule.suffix /\ EndsWith(conn[c].req.host, rule.host)
    BY <1>1 DEF Matches
<1>3. IsSafe(conn[c].addr)
    BY DEF DialInv
<1>4. ~Inside(conn[c].addr)
    BY <1>3 DEF IsSafe, Inside
<1> QED BY <1>2, <1>4

LEMMA DialNext == Typed /\ DialInv /\ [Next]_vars => DialInv'
<1> SUFFICES ASSUME Typed, DialInv, [Next]_vars PROVE DialInv'
    OBVIOUS
<1>0. Is("proxy")' = Is("proxy") /\ Is("bridge")' = Is("bridge") /\ ~(Is("proxy") /\ Is("bridge"))
    BY HowStays DEF Is
<1>1. CASE conn' = conn
    BY <1>0, <1>1 DEF DialInv
<1>2. ASSUME NEW c \in Conns, Connect(c) PROVE DialInv'
    <2>1. conn[c].st = "none"
        BY <1>2 DEF Connect, At
    <2> QED BY <1>0, <1>2, <2>1, ConnectOf DEF DialInv
<1>3. ASSUME NEW c \in Conns, Peers(c) PROVE DialInv'
    BY <1>0, <1>3, PeersOf DEF DialInv
<1>4. ASSUME NEW c \in Conns, Onward(c) PROVE DialInv'
    BY <1>0, <1>4 DEF DialInv, Onward
<1>5. ASSUME NEW c \in Conns, Dropped(c) \/ Relayed(c) PROVE DialInv'
    BY <1>0, <1>5 DEF DialInv, Dropped, Relayed
<1>6. ASSUME NEW c \in Conns, NEW d \in Dirs, Copy(c, d) PROVE conn' = conn
    BY <1>6 DEF Copy, CopyRead, CopyWrite, Finish
<1> QED BY <1>1, <1>2, <1>3, <1>4, <1>5, <1>6, HandleSteps DEF Next, Peers, vars, relayVars

(* The proxy reaches a target only for a host and port of the allowlist    *)
(* and at an address that is not inside, however the resolver answers and  *)
(* whatever the other connections do meanwhile.                            *)
THEOREM DialledAllowed == Spec => []OnlyAllowedDialled
<1>1. Init => Typed /\ DialInv
    BY TypedInit, DialInit
<1>2. Typed /\ DialInv /\ [Next]_vars => Typed' /\ DialInv'
    BY TypedNext, DialNext
<1> QED BY <1>1, <1>2, DialImplies, PTL DEF Spec

-----------------------------------------------------------------------------
(* The relay under its filters.                                            *)

(* The relay's steps leave the confinement as it is.                       *)
LEMMA RelayLeaves == [Next]_vars => SeccompNext \/ UNCHANGED seccompVars
<1>1. ASSUME NEW c \in Conns,
             Connect(c) \/ ClientActs(c) \/ ClientCloses(c) \/ TargetActs(c) \/ TargetCloses(c)
      PROVE  UNCHANGED seccompVars
    BY <1>1 DEF Connect, ClientActs, ClientCloses, TargetActs, TargetCloses
<1>2. ASSUME NEW c \in Conns, Accept(c) \/ Handle(c) PROVE UNCHANGED seccompVars
    BY <1>2 DEF Accept, Handle, ConnectUds, ReadRequest, Resolve, Dial, StartRelay, Join, Ends
<1>3. ASSUME NEW c \in Conns, NEW d \in Dirs, Copy(c, d) PROVE UNCHANGED seccompVars
    BY <1>3 DEF Copy, CopyRead, CopyWrite, Finish
<1> QED BY <1>1, <1>2, <1>3 DEF Next, vars

(* The relay in its helper is the confinement of that helper, with steps   *)
(* of its own that leave it alone: what holds for Seccomp holds for it.    *)
THEOREM RelayConfined == Spec => SeccompSpec
<1>1. Init => SeccompInit
    BY DEF Init
<1>2. [Next]_vars => [SeccompNext]_seccompVars
    BY RelayLeaves
<1> QED BY <1>1, <1>2, PTL DEF Spec, SeccompSpec

LEMMA SpawningPasses ==
    ASSUME NEW mode, NEW call \in Spawning
    PROVE  /\ Says("bridge", mode, call) = "ALLOW" /\ Says("proxy", mode, call) = "ALLOW"
           /\ call.nr # "clone3"
<1>1. \/ call.nr \in BridgeNames \cap ProxyNames \/ ThreadCall(call) \/ DataCall(call)
      \/ call.nr = "prctl" /\ call.arg \cap {"PR_SET_VMA", "PR_SET_NAME"} # {}
    BY SMT DEF Spawning, Bare, With, ThreadCall, DataCall, NsFlags, BridgeNames, ProxyNames,
           BridgeRuntime, ProxyRuntime, BridgeThreads, ProxyThreads
<1>2. call.nr # "clone3"
    BY SMT DEF Spawning, Bare, With
<1> QED BY <1>1, <1>2, BridgeSays, ProxySays

LEMMA BridgePasses ==
    ASSUME NEW mode, NEW st \in Steps \ {"resolve", "dial"}, NEW call \in CallsOf("bridge", st)
    PROVE  Says("bridge", mode, call) = "ALLOW" /\ call.nr # "clone3"
<1>1. CASE call \in Spawning
    BY <1>1, SpawningPasses
<1>2. CASE call \notin Spawning
    <2>1. \/ call.nr = "socket" /\ call.arg = {"AF_UNIX"}
          \/ call.nr \in {"accept4", "close", "nanosleep", "connect", "setsockopt", "fcntl", "recvfrom",
                          "read", "sendto", "write", "shutdown", "munmap", "exit"}
        BY SMT, <1>2 DEF CallsOf, Steps, Bare, With
    <2>2. {"accept4", "close", "nanosleep", "connect", "setsockopt", "fcntl", "recvfrom",
           "read", "sendto", "write", "shutdown", "munmap", "exit"} \subseteq BridgeNames
        BY DEF BridgeNames, BridgeIo, BridgeRuntime, BridgeMisc
    <2>3. call.nr # "clone3"
        BY <2>1
    <2> QED BY <2>1, <2>2, <2>3, BridgeSays
<1> QED BY <1>1, <1>2

LEMMA ProxyPasses ==
    ASSUME NEW mode, NEW st \in Steps, NEW call \in CallsOf("proxy", st)
    PROVE  Says("proxy", mode, call) = "ALLOW" /\ call.nr # "clone3"
<1> DEFINE N == {"accept4", "close", "nanosleep", "setsockopt", "read", "write", "openat", "connect",
                 "poll", "sendmmsg", "recvfrom", "getsockopt", "fcntl", "sendto", "shutdown",
                 "munmap", "exit"}
<1>1. CASE call \in Spawning
    BY <1>1, SpawningPasses
<1>2. CASE call \notin Spawning
    <2>1. \/ call.nr = "socket" /\ call.arg \in {{"AF_UNIX"}, {"AF_INET"}, {"AF_INET6"}}
          \/ call.nr = "ioctl" /\ call.arg \in {{"FIONREAD"}, {"FIONBIO"}}
          \/ call.nr \in N
        BY SMT, <1>2 DEF CallsOf, Steps, Bare, With
    <2>2. N \subseteq ProxyNames
        BY DEF ProxyNames, ProxyIo, ProxyResolver, ProxyRuntime, ProxyMisc
    <2>3. call.nr # "clone3"
        BY <2>1
    <2> HIDE DEF N
    <2> QED BY <2>1, <2>2, <2>3, ProxySays
<1> QED BY <1>1, <1>2

LEMMA HelpersCleared ==
    /\ Steps \ {"resolve", "dial"} \subseteq BridgeCleared
    /\ Steps \subseteq ProxyCleared
<1>1. ASSUME NEW st \in Steps \ {"resolve", "dial"} PROVE st \in BridgeCleared
    <2>1. ASSUME NEW call \in CallsOf("bridge", st)
          PROVE  Verdict(Programs("bridge"), [debug |-> FALSE], call) = "ALLOW"
        BY <2>1, BridgePasses, HelperVerdict
    <2> QED BY <2>1 DEF BridgeCleared, ClearedFor
<1>2. ASSUME NEW st \in Steps PROVE st \in ProxyCleared
    <2>1. ASSUME NEW call \in CallsOf("proxy", st)
          PROVE  Verdict(Programs("proxy"), [debug |-> FALSE], call) = "ALLOW"
        BY <2>1, ProxyPasses, HelperVerdict
    <2> QED BY <2>1 DEF ProxyCleared, ClearedFor
<1> QED BY <1>1, <1>2

(* Only the proxy resolves and dials.                                      *)
StepInv == \A c \in Conns : conn[c].st \in {"resolve", "dial"} => Is("proxy")

LEMMA StepInit == Init => StepInv
BY SMT DEF Init, StepInv

LEMMA StepNext == Typed /\ StepInv /\ [Next]_vars => StepInv'
<1> SUFFICES ASSUME Typed, StepInv, [Next]_vars PROVE StepInv'
    OBVIOUS
<1>0. Is("proxy")' = Is("proxy")
    BY HowStays DEF Is
<1>1. CASE conn' = conn
    BY <1>0, <1>1 DEF StepInv
<1>2. ASSUME NEW c \in Conns, Connect(c) PROVE StepInv'
    BY <1>0, <1>2, ConnectOf DEF StepInv
<1>3. ASSUME NEW c \in Conns, Peers(c) PROVE StepInv'
    BY <1>0, <1>3, PeersOf DEF StepInv
<1>4. ASSUME NEW c \in Conns, Onward(c) PROVE StepInv'
    BY <1>0, <1>4 DEF StepInv, Onward
<1>5. ASSUME NEW c \in Conns, Dropped(c) \/ Relayed(c) PROVE StepInv'
    BY <1>0, <1>5 DEF StepInv, Dropped, Relayed
<1>6. ASSUME NEW c \in Conns, NEW d \in Dirs, Copy(c, d) PROVE conn' = conn
    BY <1>6 DEF Copy, CopyRead, CopyWrite, Finish
<1> QED BY <1>1, <1>2, <1>3, <1>4, <1>5, <1>6, HandleSteps DEF Next, Peers, vars, relayVars

LEMMA OwnImplied == StackInv /\ HandlerInv /\ Typed /\ StepInv => OwnStepsPass
<1> SUFFICES ASSUME StackInv, HandlerInv, Typed, StepInv PROVE OwnStepsPass
    OBVIOUS
<1>1. ASSUME NEW c \in Conns, ~At(c, "none") PROVE Cleared(conn[c].st)
    <2>1. conn[c].st \in Steps
        BY <1>1, Fields DEF At, ConnShapes
    <2>2. Is("bridge") => conn[c].st \notin {"resolve", "dial"}
        BY DEF StepInv, Is
    <2> QED BY <2>1, <2>2, HelpersCleared DEF Cleared
<1>2. ASSUME NEW t \in Threads, th[t].pc = "print" PROVE Passes(First, {Bare("write")})
    <2>1. phase[First] = "serving"
        BY <1>2 DEF HandlerInv
    <2> QED BY <2>1, WritePasses DEF Passes
<1> QED BY <1>1, <1>2, OwnPasses DEF OwnStepsPass

LEMMA StepHolds == Spec => [](Typed /\ StepInv)
BY TypedInit, TypedNext, StepInit, StepNext, PTL DEF Spec

(* No filter that arapuca installs stands in the way of its own code: not  *)
(* of the wrapper until execve, not of a helper's threads.                 *)
THEOREM OwnStepsHold == Spec => []OwnStepsPass
BY RelayConfined, StackHolds, HandlerHolds, StepHolds, OwnImplied, PTL

-----------------------------------------------------------------------------
(* The slots of the relay.  Counting them takes the theorems on finite     *)
(* sets.                                                                   *)
INSTANCE FiniteSetTheorems

(* The safety part of SlotComesBack.  The connections that hold a slot are *)
(* finitely many because how.conns of them are made at most.               *)
Workers == {c \in Conns : Working(c)}
Made == {c \in Conns : ~At(c, "none")}
SlotInv ==
    /\ IsFiniteSet(Made)
    /\ slots = Cardinality(Workers) /\ slots <= MaxConns

LEMMA WorkersCount ==
    ASSUME IsFiniteSet(Made), NEW c \in Conns
    PROVE  /\ IsFiniteSet(Workers) /\ Cardinality(Workers) \in Nat
           /\ Cardinality(Workers \cup {c}) = Cardinality(Workers) + (IF c \in Workers THEN 0 ELSE 1)
           /\ Cardinality(Workers \ {c}) = Cardinality(Workers) - (IF c \in Workers THEN 1 ELSE 0)
<1>1. Workers \subseteq Made
    BY DEF Workers, Made, Working, At
<1>2. IsFiniteSet(Workers)
    BY <1>1, FS_Subset
<1>3. Cardinality(Workers) \in Nat
    BY <1>2, FS_CardinalityType
<1>4. Cardinality(Workers \cup {c}) =
         IF c \in Workers THEN Cardinality(Workers) ELSE Cardinality(Workers) + 1
    BY <1>2, FS_AddElement
<1>5. Cardinality(Workers \ {c}) =
         IF c \in Workers THEN Cardinality(Workers) - 1 ELSE Cardinality(Workers)
    BY <1>2, FS_RemoveElement
<1> QED BY SMT, <1>2, <1>3, <1>4, <1>5

LEMMA SlotInit == Init => SlotInv
<1> SUFFICES ASSUME Init PROVE SlotInv
    OBVIOUS
<1>1. Workers = {} /\ Made = {}
    BY DEF Init, Workers, Made, Working, At
<1> QED BY SMT, <1>1, FS_EmptySet, RelayConstants DEF SlotInv, Init

(* One connection moves, and the counter with it.                          *)
LEMMA SlotMove ==
    ASSUME Typed, SlotInv, NEW c \in Conns, \A e \in Conns : e # c => conn'[e].st = conn[e].st,
           LET was == Working(c)
               is == Working(c)'
           IN  slots' = slots + (IF is /\ ~was THEN 1 ELSE IF was /\ ~is THEN -1 ELSE 0),
           slots' <= MaxConns
    PROVE  SlotInv'
<1>1. Made' \subseteq Made \cup {c}
    BY DEF Made, At
<1>2. IsFiniteSet(Made')
    BY <1>1, FS_AddElement, FS_Subset DEF SlotInv
<1>3. /\ Cardinality(Workers) \in Nat
      /\ Cardinality(Workers \cup {c}) = Cardinality(Workers) + (IF c \in Workers THEN 0 ELSE 1)
      /\ Cardinality(Workers \ {c}) = Cardinality(Workers) - (IF c \in Workers THEN 1 ELSE 0)
    BY WorkersCount DEF SlotInv
<1>4. Workers' = IF Working(c)' THEN Workers \cup {c} ELSE Workers \ {c}
    BY DEF Workers, Working
<1>5. c \in Workers <=> Working(c)
    BY DEF Workers
<1>6. slots' = Cardinality(Workers')
    BY SMT, <1>3, <1>4, <1>5 DEF SlotInv
<1> QED BY <1>2, <1>6 DEF SlotInv

LEMMA SlotNext == Typed /\ SlotInv /\ [Next]_vars => SlotInv'
<1> SUFFICES ASSUME Typed, SlotInv, [Next]_vars PROVE SlotInv'
    OBVIOUS
<1>0. slots \in Int /\ slots + 0 = slots /\ slots - 0 = slots /\ slots <= MaxConns /\ MaxConns \in Int
    BY SMT, RelayConstants DEF Typed, SlotInv
<1>1. CASE UNCHANGED <<conn, slots>>
    BY <1>1 DEF SlotInv, Made, Workers, Working, At
<1>2. ASSUME NEW c \in Conns, Connect(c) PROVE SlotInv'
    <2>1. /\ conn[c].st = "none" /\ conn'[c].st = "queued" /\ slots' = slots
          /\ \A e \in Conns : e # c => conn'[e].st = conn[e].st
        BY <1>2, ConnectOf DEF Connect, At
    <2> QED BY <1>0, <2>1, SlotMove DEF Working
<1>3. ASSUME NEW c \in Conns, Peers(c) PROVE SlotInv'
    <2>1. slots' = slots /\ \A e \in Conns : conn'[e].st = conn[e].st
        BY <1>3, PeersOf
    <2> QED BY <1>0, <2>1, SlotMove, <1>3 DEF Working
<1>4. ASSUME NEW c \in Conns, Onward(c) PROVE SlotInv'
    <2>1. /\ slots' = slots + (IF conn[c].st = "queued" THEN 1 ELSE 0)
          /\ conn[c].st = "queued" => slots < MaxConns
          /\ \A e \in Conns : e # c => conn'[e].st = conn[e].st
        BY <1>0, <1>4 DEF Onward
    <2>2. Working(c)' /\ (Working(c) <=> conn[c].st # "queued")
        BY <1>4 DEF Onward, Working
    <2>3. slots' <= MaxConns
        BY SMT, <1>0, <2>1
    <2> QED BY <1>0, <2>1, <2>2, <2>3, SlotMove
<1>5. ASSUME NEW c \in Conns, Dropped(c) \/ Relayed(c) PROVE SlotInv'
    <2>1. /\ conn'[c].st \in {"relay", "over"}
          /\ conn[c].st \in {"queued", "accepted", "resolve", "dial", "start", "relay"}
          /\ conn'[c].st = "relay" => conn[c].st = "start"
          /\ slots' = slots - (IF conn[c].st = "queued" \/ conn'[c].st = "relay" THEN 0 ELSE 1)
          /\ \A e \in Conns : e # c => conn'[e].st = conn[e].st
        BY <1>5 DEF Dropped, Relayed
    <2>2. /\ Working(c) <=> conn[c].st # "queued"
          /\ Working(c)' <=> conn'[c].st = "relay"
        BY <2>1 DEF Working
    <2>3. slots' <= MaxConns
        BY SMT, <1>0, <2>1
    <2> QED BY <1>0, <2>1, <2>2, <2>3, SlotMove
<1>6. ASSUME NEW c \in Conns, NEW d \in Dirs, Copy(c, d) PROVE UNCHANGED <<conn, slots>>
    BY <1>6 DEF Copy, CopyRead, CopyWrite, Finish
<1> QED BY <1>1, <1>2, <1>3, <1>4, <1>5, <1>6, HandleSteps DEF Next, Peers, vars, relayVars

(* The counter of active connections is the number of those that hold a    *)
(* slot and never passes MAX_CONNECTIONS, whichever way they end: a        *)
(* refusal, a failed step, a thread that cannot be spawned, or the join.   *)
(* The accept loop's own addition for a connection that it refuses, which  *)
(* it takes back before it goes on, is not counted.                        *)
THEOREM SlotsCounted ==
    Spec => [](slots = Cardinality({c \in Conns : Working(c)}) /\ slots <= MaxConns)
<1>1. Init => Typed /\ SlotInv
    BY TypedInit, SlotInit
<1>2. Typed /\ SlotInv /\ [Next]_vars => Typed' /\ SlotInv'
    BY TypedNext, SlotNext
<1>3. SlotInv => slots = Cardinality({c \in Conns : Working(c)}) /\ slots <= MaxConns
    BY DEF SlotInv, Workers
<1> QED BY <1>1, <1>2, <1>3, PTL DEF Spec
=============================================================================
