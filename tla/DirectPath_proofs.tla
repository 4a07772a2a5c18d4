-------------------------- MODULE DirectPath_proofs --------------------------
(***************************************************************************)
(* Theorems about DirectPath, for every value of its constants.            *)
(***************************************************************************)
EXTENDS DirectPath, FiniteSetTheorems, SequenceTheorems, TLAPS

-----------------------------------------------------------------------------
(* The inductive invariant.                                                *)

Types ==
  /\ phase \in [Peers -> {"lobby", "loading", "marking", "playing"}]
  /\ armed \in [Peers -> BOOLEAN]
  /\ token \in [Peers -> Nat] /\ proven \in [Peers -> BOOLEAN] /\ used \in [Peers -> Nat]
  /\ punch \in [Peers -> [on : BOOLEAN, gotAck : BOOLEAN, ackedPeer : BOOLEAN]]
  /\ path \in [Peers -> {None, "direct", "relay"}]
  /\ lastToken \in Nat /\ inbox \in [Peers -> Seq(Nat)]

(* A punch is one of an armed client for a pairing, and so is a proof.     *)
Paired == \A p \in Peers :
  /\ Punching(p) \/ proven[p] => armed[p] /\ token[p] # 0
  /\ Marking(p) => Punching(p) /\ used[p] = token[p]

(* A start that is on its way is the only one, and finds its client in the *)
(* lobby.                                                                  *)
Once(s) == \A i, j \in DOMAIN s : s[i] = Start /\ s[j] = Start => i = j
OneStart == \A p \in Peers :
  /\ Once(inbox[p])
  /\ phase[p] # "lobby" => Start \notin Range(inbox[p])
  /\ p \in ready => Back(p)

(* Once one is back from a match, the other has left its start behind.     *)
BothStarted == (\E p \in Peers : Back(p)) =>
  \A q \in Peers : phase[q] \in {"lobby", "playing"} /\ Start \notin Range(inbox[q])

(* A marked probe is of this match.                                        *)
MarkedIsNow == \A d \in net : d.kind = "marked" => \A p \in Peers : d.to = p =>
  /\ used[Other(p)] = d.token /\ d.token # 0
  /\ phase[Other(p)] \in {"marking", "playing"}
  /\ \A q \in Peers : ~Back(q)

(* The token of the match's punch is that of the match, not of the last.   *)
UsedIsNow == \A p \in Peers :
  /\ used[p] # 0 => phase[p] \in {"marking", "playing"} \/ Back(p)
  /\ path[p] # None => phase[p] = "playing"
  /\ Marking(p) /\ punch[p].ackedPeer => used[Other(p)] = token[p]

Inv == Types /\ Paired /\ OneStart /\ BothStarted /\ MarkedIsNow /\ UsedIsNow /\ DirectMet

-----------------------------------------------------------------------------
(* Two peers, and what happens to their messages.                          *)

LEMMA OtherPeer ==
  ASSUME NEW p \in Peers
  PROVE  /\ Other(p) \in Peers /\ Other(p) # p /\ Other(Other(p)) = p
         /\ \A q \in Peers : q = p \/ q = Other(p)
<1>1. ASSUME NEW r \in Peers
      PROVE  \E q \in Peers : q # r /\ \A u \in Peers : u = r \/ u = q
  <2>1. IsFiniteSet(Peers) /\ Cardinality(Peers) = 2
    BY DirectPathAssumption
  <2>2. IsFiniteSet(Peers \ {r}) /\ Cardinality(Peers \ {r}) = 1
    BY <2>1, FS_RemoveElement
  <2>3. PICK q : Peers \ {r} = {q}
    BY <2>2, FS_Singleton
  <2> QED BY <2>3
<1>2. ASSUME NEW r \in Peers
      PROVE  Other(r) \in Peers /\ Other(r) # r
  BY <1>1 DEF Other
<1> QED BY <1>1, <1>2

LEMMA AppendStart ==
  ASSUME NEW s \in Seq(Nat), NEW t \in Nat, Once(s), t = Start => Start \notin Range(s)
  PROVE  /\ Append(s, t) \in Seq(Nat) /\ Once(Append(s, t))
         /\ Start \in Range(Append(s, t)) <=> Start \in Range(s) \/ t = Start
<1> DEFINE r == Append(s, t)
<1>1. Len(s) \in Nat /\ DOMAIN s = 1 .. Len(s)
  BY LenProperties
<1>2. /\ r \in Seq(Nat) /\ Len(r) = Len(s) + 1
      /\ r[Len(s) + 1] = t /\ \A i \in 1 .. Len(s) : r[i] = s[i]
  BY AppendProperties
<1> HIDE DEF r
<1>3. DOMAIN r = 1 .. Len(s) + 1
  BY <1>2, LenProperties
<1>4. \A i \in 1 .. Len(s) + 1 : i \in 1 .. Len(s) \/ i = Len(s) + 1
  BY <1>1
<1>5. 1 .. Len(s) \subseteq 1 .. Len(s) + 1 /\ Len(s) + 1 \in 1 .. Len(s) + 1
  BY <1>1
<1>6. Start \in Range(r) <=> Start \in Range(s) \/ t = Start
  BY <1>1, <1>2, <1>3, <1>4, <1>5 DEF Range
<1>7. Once(r)
  BY <1>1, <1>2, <1>3, <1>4 DEF Once, Range
<1> QED BY <1>2, <1>6, <1>7 DEF r

LEMMA TailStart ==
  ASSUME NEW s \in Seq(Nat), s # <<>>, Once(s)
  PROVE  /\ Head(s) \in Nat /\ Tail(s) \in Seq(Nat) /\ Once(Tail(s))
         /\ Start \in Range(Tail(s)) <=> Start \in Range(s) /\ Head(s) # Start
         /\ Head(s) = Start => Start \in Range(s)
<1> DEFINE r == Tail(s)
<1>1. Len(s) \in Nat /\ DOMAIN s = 1 .. Len(s) /\ \A i \in 1 .. Len(s) : s[i] \in Nat
  BY LenProperties
<1>2. /\ r \in Seq(Nat) /\ Len(r) = Len(s) - 1 /\ Head(s) = s[1] /\ Len(s) >= 1
      /\ \A i \in 1 .. Len(s) - 1 : r[i] = s[i + 1]
  <2>1. Len(s) # 0
    BY EmptySeq
  <2> QED BY <1>1, <2>1, HeadTailProperties
<1> HIDE DEF r
<1>3. DOMAIN r = 1 .. Len(s) - 1
  BY <1>2, LenProperties
<1>4. \A i \in 1 .. Len(s) - 1 : i + 1 \in 1 .. Len(s) /\ i + 1 # 1
  BY <1>1
<1>5. \A i \in 1 .. Len(s) : i = 1 \/ (i - 1 \in 1 .. Len(s) - 1 /\ (i - 1) + 1 = i)
  BY <1>1
<1>6. 1 \in 1 .. Len(s)
  BY <1>1, <1>2
<1>7. Once(r)
  <2> SUFFICES ASSUME NEW i \in 1 .. Len(s) - 1, NEW j \in 1 .. Len(s) - 1, r[i] = Start, r[j] = Start
               PROVE  i = j
    BY <1>3 DEF Once
  <2>1. i + 1 = j + 1
    BY <1>1, <1>2, <1>4 DEF Once
  <2> QED BY <2>1, <1>1
<1>8. Start \in Range(r) => Start \in Range(s) /\ Head(s) # Start
  <2> SUFFICES ASSUME NEW i \in 1 .. Len(s) - 1, r[i] = Start
               PROVE  Start \in Range(s) /\ Head(s) # Start
    BY <1>3 DEF Range
  <2>1. s[i + 1] = Start /\ i + 1 \in 1 .. Len(s) /\ i + 1 # 1
    BY <1>2, <1>4
  <2> QED BY <1>1, <1>2, <1>6, <2>1 DEF Once, Range
<1>9. ASSUME Start \in Range(s), Head(s) # Start
      PROVE  Start \in Range(r)
  <2>1. PICK i \in 1 .. Len(s) : s[i] = Start
    BY <1>1, <1>9 DEF Range
  <2>2. i - 1 \in 1 .. Len(s) - 1 /\ (i - 1) + 1 = i
    BY <1>2, <1>5, <1>9, <2>1
  <2>3. r[i - 1] = s[(i - 1) + 1]
    BY <1>2, <2>2
  <2>4. r[i - 1] = Start
    BY <2>1, <2>2, <2>3
  <2> QED BY <1>3, <2>2, <2>4 DEF Range
<1>10. Head(s) \in Nat /\ (Head(s) = Start => Start \in Range(s))
  BY <1>1, <1>2, <1>6 DEF Range
<1> QED BY <1>2, <1>7, <1>8, <1>9, <1>10 DEF r

-----------------------------------------------------------------------------
(* Every action keeps the invariant.                                       *)

LEMMA InvInit == Init => Inv
<1> SUFFICES ASSUME Init PROVE Inv
  OBVIOUS
<1>1. <<>> \in Seq(Nat) /\ DOMAIN <<>> = {} /\ Range(<<>>) = {}
  BY EmptySeq DEF Range
<1>2. Types
  BY <1>1 DEF Init, Types, NoPunch
<1>3. \A p \in Peers : ~Punching(p) /\ ~Marking(p)
  BY DEF Init, NoPunch, Punching, Marking
<1>4. Paired
  BY <1>3 DEF Init, Paired
<1>5. OneStart
  BY <1>1 DEF Init, OneStart, Once
<1>6. BothStarted
  BY <1>1 DEF Init, BothStarted
<1>7. MarkedIsNow
  BY DEF Init, MarkedIsNow
<1>8. UsedIsNow
  BY <1>3 DEF Init, UsedIsNow
<1>9. DirectMet
  BY DEF Init, DirectMet, None
<1> QED BY <1>2, <1>4, <1>5, <1>6, <1>7, <1>8, <1>9 DEF Inv

LEMMA ArmKeeps ==
  ASSUME Inv, NEW p \in Peers, Arm(p)
  PROVE  Inv'
<1>1. UNCHANGED <<phase, token, proven, punch, path, used, lastToken, inbox, ready, net>>
  BY DEF Arm
<1>2. armed' \in [Peers -> BOOLEAN] /\ \A q \in Peers : armed[q] => armed'[q]
  BY DEF Arm, Inv, Types
<1>3. Types' /\ Paired'
  BY <1>1, <1>2 DEF Inv, Types, Paired, Punching, Marking
<1>4. OneStart' /\ BothStarted' /\ MarkedIsNow' /\ UsedIsNow' /\ DirectMet'
  BY <1>1 DEF Inv, OneStart, BothStarted, MarkedIsNow, UsedIsNow, DirectMet, Back, Marking
<1> QED BY <1>3, <1>4 DEF Inv

(* Messages that are not a start change nothing about the starts.          *)
LEMMA NewsKeeps ==
  ASSUME Inv, UNCHANGED <<phase, ready, net, used, path>>,
         \A q \in Peers : Once(inbox'[q]) /\ (Start \in Range(inbox'[q]) <=> Start \in Range(inbox[q]))
  PROVE  OneStart' /\ BothStarted' /\ MarkedIsNow' /\ DirectMet'
         /\ \A q \in Peers : Back(q)' <=> Back(q)
<1>1. \A q \in Peers : Back(q)' <=> Back(q)
  BY DEF Back
<1>2. OneStart'
  BY <1>1 DEF Inv, OneStart
<1>3. BothStarted'
  BY <1>1 DEF Inv, BothStarted
<1>4. MarkedIsNow'
  BY <1>1 DEF Inv, MarkedIsNow
<1>5. DirectMet'
  BY DEF Inv, DirectMet
<1> QED BY <1>1, <1>2, <1>3, <1>4, <1>5

LEMMA PairKeeps ==
  ASSUME Inv, NEW p \in Peers, Pair(p)
  PROVE  Inv'
<1>1. UNCHANGED <<phase, armed, token, proven, punch, path, used, ready, net>>
  BY DEF Pair, clientVars
<1>2. /\ lastToken' \in Nat /\ inbox' \in [Peers -> Seq(Nat)]
      /\ \A q \in Peers : Once(inbox'[q]) /\ (Start \in Range(inbox'[q]) <=> Start \in Range(inbox[q]))
  <2>1. lastToken \in Nat /\ inbox \in [Peers -> Seq(Nat)] /\ \A q \in Peers : Once(inbox[q])
    BY DEF Inv, Types, OneStart
  <2>2. CASE UNCHANGED <<lastToken, inbox>>
    BY <2>1, <2>2
  <2>3. CASE lastToken' = lastToken + 1 /\ inbox' = [q \in Peers |-> Append(inbox[q], lastToken')]
    <3>1. lastToken' \in Nat /\ lastToken' # Start
      BY <2>1, <2>3 DEF Start
    <3>2. ASSUME NEW q \in Peers
          PROVE  /\ inbox'[q] \in Seq(Nat) /\ Once(inbox'[q])
                 /\ Start \in Range(inbox'[q]) <=> Start \in Range(inbox[q])
      <4>1. inbox'[q] = Append(inbox[q], lastToken')
        BY <2>3
      <4> QED BY <2>1, <3>1, <4>1, AppendStart
    <3> QED BY <2>3, <3>1, <3>2
  <2> QED BY <2>2, <2>3 DEF Pair
<1>3. Types' /\ Paired'
  BY <1>1, <1>2 DEF Inv, Types, Paired, Punching, Marking
<1>4. OneStart' /\ BothStarted' /\ MarkedIsNow' /\ DirectMet' /\ \A q \in Peers : Back(q)' <=> Back(q)
  BY <1>1, <1>2, NewsKeeps
<1>5. UsedIsNow'
  BY <1>1, <1>4 DEF Inv, UsedIsNow, Marking
<1> QED BY <1>3, <1>4, <1>5 DEF Inv

LEMMA TakePeerKeeps ==
  ASSUME Inv, NEW p \in Peers, TakePeer(p)
  PROVE  Inv'
<1>1. UNCHANGED <<phase, armed, proven, path, used, lastToken, ready, net>>
  BY DEF TakePeer
<1> DEFINE t == Head(inbox[p])
<1>2. /\ ~Punching(p) /\ inbox[p] # <<>> /\ t # Start
      /\ inbox' = [inbox EXCEPT ![p] = Tail(inbox[p])]
  BY DEF TakePeer, HasNews, Taken
<1>3. inbox \in [Peers -> Seq(Nat)] /\ \A q \in Peers : Once(inbox[q])
  BY DEF Inv, Types, OneStart
<1>4. /\ t \in Nat /\ Tail(inbox[p]) \in Seq(Nat) /\ Once(Tail(inbox[p]))
      /\ Start \in Range(Tail(inbox[p])) <=> Start \in Range(inbox[p])
  BY <1>2, <1>3, TailStart
<1>5. /\ inbox' \in [Peers -> Seq(Nat)]
      /\ \A q \in Peers : Once(inbox'[q]) /\ (Start \in Range(inbox'[q]) <=> Start \in Range(inbox[q]))
  BY <1>2, <1>3, <1>4
<1> DEFINE fresh == [NoPunch EXCEPT !.on = TRUE]
<1>6. \/ UNCHANGED <<token, punch>>
      \/ /\ armed[p] /\ token' = [token EXCEPT ![p] = t]
         /\ punch' = [punch EXCEPT ![p] = fresh]
  BY DEF TakePeer
<1>12. fresh \in [on : BOOLEAN, gotAck : BOOLEAN, ackedPeer : BOOLEAN]
  BY DEF NoPunch
<1> HIDE DEF t, fresh
<1>7. Types'
  <2>1. /\ token \in [Peers -> Nat]
        /\ punch \in [Peers -> [on : BOOLEAN, gotAck : BOOLEAN, ackedPeer : BOOLEAN]]
    BY DEF Inv, Types
  <2>2. token' \in [Peers -> Nat]
    BY <1>4, <1>6, <2>1
  <2>3. punch' \in [Peers -> [on : BOOLEAN, gotAck : BOOLEAN, ackedPeer : BOOLEAN]]
    BY <1>6, <1>12, <2>1
  <2> QED BY <1>1, <1>5, <2>2, <2>3 DEF Inv, Types
<1>8. ASSUME NEW q \in Peers
      PROVE  /\ Punching(q)' \/ proven'[q] => armed'[q] /\ token'[q] # 0
             /\ Marking(q)' => Punching(q)' /\ used'[q] = token'[q]
             /\ Marking(q)' => Marking(q) /\ token'[q] = token[q] /\ punch'[q] = punch[q]
  <2>1. CASE q = p
    <3>1. ~Marking(p)
      BY <1>2 DEF Inv, Paired
    <3>2. t # 0
      BY <1>2 DEF Start, t
    <3> QED BY <1>1, <1>6, <2>1, <3>1, <3>2 DEF Inv, Types, Paired, Punching, Marking
  <2>2. CASE q # p
    BY <1>1, <1>6, <2>2 DEF Inv, Types, Paired, Punching, Marking
  <2> QED BY <2>1, <2>2
<1>9. Paired'
  BY <1>8 DEF Paired
<1>10. OneStart' /\ BothStarted' /\ MarkedIsNow' /\ DirectMet' /\ \A q \in Peers : Back(q)' <=> Back(q)
  BY <1>1, <1>5, NewsKeeps
<1>11. UsedIsNow'
  BY <1>1, <1>8, <1>10 DEF Inv, UsedIsNow
<1> QED BY <1>7, <1>9, <1>10, <1>11 DEF Inv

(* Datagrams come and go; a marked one that is new is of this match.       *)
LEMMA NetKeeps ==
  ASSUME Inv, UNCHANGED <<phase, armed, token, proven, path, used, lastToken, inbox, ready>>,
         punch' \in [Peers -> [on : BOOLEAN, gotAck : BOOLEAN, ackedPeer : BOOLEAN]],
         \A q \in Peers : /\ punch'[q].on = punch[q].on
                          /\ Marking(q) /\ punch'[q].ackedPeer =>
                              punch[q].ackedPeer \/ used[Other(q)] = token[q],
         \A d \in net' : d.kind = "marked" => d \in net \/
           \E q \in Peers : d.to = Other(q) /\ d.token = token[q] /\ Marking(q)
  PROVE  Inv'
<1>1. Types'
  BY DEF Inv, Types
<1> DEFINE Flags == [on : BOOLEAN, gotAck : BOOLEAN, ackedPeer : BOOLEAN]
<1>0. \A q \in Peers : punch[q] \in Flags /\ punch'[q] \in Flags
  BY DEF Inv, Types
<1>2. \A q \in Peers : (Back(q)' <=> Back(q)) /\ (Marking(q)' <=> Marking(q)) /\ (Punching(q)' <=> Punching(q))
  BY <1>0 DEF Back, Marking, Punching
<1>3. Paired' /\ OneStart' /\ BothStarted' /\ DirectMet'
  BY <1>2 DEF Inv, Paired, OneStart, BothStarted, DirectMet
<1>4. UsedIsNow'
  <2>1. \A q \in Peers : Marking(q) /\ punch'[q].ackedPeer => used[Other(q)] = token[q]
    BY <1>0 DEF Inv, UsedIsNow
  <2> QED BY <1>2, <2>1 DEF Inv, UsedIsNow
<1>5. MarkedIsNow'
  <2> SUFFICES ASSUME NEW d \in net', d.kind = "marked", NEW p \in Peers, d.to = p
               PROVE  /\ used'[Other(p)] = d.token /\ d.token # 0
                      /\ phase'[Other(p)] \in {"marking", "playing"}
                      /\ \A q \in Peers : ~Back(q)'
    BY DEF MarkedIsNow
  <2>1. CASE d \in net
    BY <1>2, <2>1 DEF Inv, MarkedIsNow
  <2>2. ASSUME NEW q \in Peers, d.to = Other(q), d.token = token[q], Marking(q)
        PROVE  /\ used'[Other(p)] = d.token /\ d.token # 0
               /\ phase'[Other(p)] \in {"marking", "playing"}
               /\ \A u \in Peers : ~Back(u)'
    <3>1. Other(p) = q
      BY <2>2, OtherPeer
    <3>2. used[q] = token[q] /\ token[q] # 0 /\ phase[q] = "marking"
      BY <2>2 DEF Inv, Paired, Marking
    <3>3. \A u \in Peers : ~Back(u)
      BY <3>2 DEF Inv, BothStarted
    <3> QED BY <1>2, <2>2, <3>1, <3>2, <3>3
  <2> QED BY <2>1, <2>2
<1> QED BY <1>1, <1>3, <1>4, <1>5 DEF Inv

LEMMA SendProbeKeeps ==
  ASSUME Inv, NEW p \in Peers, SendProbe(p)
  PROVE  Inv'
<1>1. UNCHANGED <<phase, armed, token, proven, path, used, lastToken, inbox, ready, punch>>
  BY DEF SendProbe, clientVars, serverVars
<1>2. \A d \in net' : d.kind = "marked" => d \in net \/
        (d.to = Other(p) /\ d.token = token[p] /\ Marking(p))
  BY DEF SendProbe, Put, Datagram
<1>3. punch' \in [Peers -> [on : BOOLEAN, gotAck : BOOLEAN, ackedPeer : BOOLEAN]]
  BY <1>1 DEF Inv, Types
<1> QED BY <1>1, <1>2, <1>3, NetKeeps

LEMMA HearKeeps ==
  ASSUME Inv, NEW p \in Peers, Hear(p)
  PROVE  Inv'
<1>1. UNCHANGED <<phase, armed, token, proven, path, used, lastToken, inbox, ready>>
  BY DEF Hear, serverVars
<1>2. PICK d \in net : /\ d.to = p
                       /\ \/ d.kind # "ack" /\ d.token = token[p] /\ AnswerProbe(p, d)
                          \/ /\ d.kind = "ack" /\ d.token = token[p] /\ net' = net \ {d}
                             /\ punch' = [punch EXCEPT ![p].gotAck = TRUE]
                          \/ d.token # token[p] /\ net' = net \ {d} /\ UNCHANGED punch
  BY DEF Hear
<1>3. \A e \in net' : e.kind = "marked" => e \in net
  BY <1>2 DEF AnswerProbe, Datagram
<1>4. punch \in [Peers -> [on : BOOLEAN, gotAck : BOOLEAN, ackedPeer : BOOLEAN]]
  BY DEF Inv, Types
<1>5. CASE AnswerProbe(p, d) /\ d.token = token[p]
  <2> DEFINE counts == punch[p].ackedPeer \/ d.kind = "marked" \/ ~Marking(p)
  <2>1. punch' = [punch EXCEPT ![p] = [punch[p] EXCEPT !.ackedPeer = counts]]
    BY <1>5 DEF AnswerProbe
  <2>2. counts \in BOOLEAN
    BY <1>4
  <2>3. Marking(p) /\ counts => punch[p].ackedPeer \/ used[Other(p)] = token[p]
    BY <1>2, <1>5 DEF Inv, MarkedIsNow
  <2> HIDE DEF counts
  <2>4. punch' \in [Peers -> [on : BOOLEAN, gotAck : BOOLEAN, ackedPeer : BOOLEAN]]
    BY <1>4, <2>1, <2>2
  <2>5. \A q \in Peers : /\ punch'[q].on = punch[q].on
                         /\ Marking(q) /\ punch'[q].ackedPeer =>
                              punch[q].ackedPeer \/ used[Other(q)] = token[q]
    BY <1>4, <2>1, <2>3
  <2> QED BY <1>1, <1>3, <2>4, <2>5, NetKeeps
<1>6. CASE \/ punch' = [punch EXCEPT ![p].gotAck = TRUE]
           \/ UNCHANGED punch
  <2>1. punch' \in [Peers -> [on : BOOLEAN, gotAck : BOOLEAN, ackedPeer : BOOLEAN]]
    BY <1>4, <1>6
  <2>2. \A q \in Peers : punch'[q].on = punch[q].on /\ punch'[q].ackedPeer = punch[q].ackedPeer
    BY <1>4, <1>6
  <2> QED BY <1>1, <1>3, <2>1, <2>2, NetKeeps
<1> QED BY <1>2, <1>5, <1>6

LEMMA KeepaliveKeeps ==
  ASSUME Inv, (\E p \in Peers : Keepalive(p)) \/ Lose
  PROVE  Inv'
<1>1. UNCHANGED <<phase, armed, token, proven, path, used, lastToken, inbox, ready, punch>>
  BY DEF Keepalive, Lose, clientVars, serverVars
<1>2. \A d \in net' : d.kind = "marked" => d \in net
  BY DEF Keepalive, Lose, Put, Datagram
<1>3. punch' \in [Peers -> [on : BOOLEAN, gotAck : BOOLEAN, ackedPeer : BOOLEAN]]
  BY <1>1 DEF Inv, Types
<1> QED BY <1>1, <1>2, <1>3, NetKeeps

(* What a decision leaves behind, whoever makes it, if it is right.        *)
LEMMA DecideKeeps ==
  ASSUME Inv, NEW p \in Peers, NEW direct \in BOOLEAN, Decide(p, direct),
         phase[p] \in {"loading", "marking"},
         UNCHANGED <<token, lastToken, inbox, ready, net>>,
         used' \in [Peers -> Nat], \A q \in Peers : q # p => used'[q] = used[q],
         punch' \in [Peers -> [on : BOOLEAN, gotAck : BOOLEAN, ackedPeer : BOOLEAN]],
         ~punch'[p].on, \A q \in Peers : q # p => punch'[q] = punch[q],
         used[p] # 0 => used'[p] = used[p],
         direct => used'[p] # 0 /\ used[Other(p)] = used'[p]
  PROVE  Inv'
<1>0. /\ phase \in [Peers -> {"lobby", "loading", "marking", "playing"}]
      /\ path \in [Peers -> {None, "direct", "relay"}]
      /\ armed \in [Peers -> BOOLEAN] /\ proven \in [Peers -> BOOLEAN]
  BY DEF Inv, Types
<1>1. /\ phase' = [phase EXCEPT ![p] = "playing"]
      /\ path' = [path EXCEPT ![p] = IF direct THEN "direct" ELSE "relay"]
      /\ armed' = [armed EXCEPT ![p] = FALSE] /\ proven' = [proven EXCEPT ![p] = FALSE]
  BY DEF Decide
<1>2. /\ phase' \in [Peers -> {"lobby", "loading", "marking", "playing"}]
      /\ path' \in [Peers -> {None, "direct", "relay"}]
      /\ armed' \in [Peers -> BOOLEAN] /\ proven' \in [Peers -> BOOLEAN]
  BY <1>0, <1>1
<1>3. Types'
  BY <1>2 DEF Inv, Types
<1>4. \A q \in Peers : ~Back(q) /\ ~Back(q)'
  BY <1>0, <1>1 DEF Inv, BothStarted, Back
<1>5. ASSUME NEW q \in Peers, q # p
      PROVE  phase'[q] = phase[q] /\ path'[q] = path[q] /\ armed'[q] = armed[q] /\ proven'[q] = proven[q]
  BY <1>0, <1>1, <1>5
<1>6. phase'[p] = "playing" /\ ~armed'[p] /\ ~proven'[p]
  BY <1>0, <1>1
<1>7. Paired'
  BY <1>5, <1>6 DEF Inv, Paired, Punching, Marking
<1>8. OneStart'
  BY <1>4, <1>5, <1>6 DEF Inv, OneStart
<1>9. BothStarted'
  BY <1>4 DEF BothStarted
<1>10. \A q \in Peers : used[q] # 0 => used'[q] = used[q]
  OBVIOUS
<1>11. MarkedIsNow'
  <2> SUFFICES ASSUME NEW d \in net, d.kind = "marked", NEW q \in Peers, d.to = q
               PROVE  used'[Other(q)] = d.token /\ d.token # 0 /\ phase'[Other(q)] \in {"marking", "playing"}
    BY <1>4 DEF MarkedIsNow
  <2>1. used[Other(q)] = d.token /\ d.token # 0 /\ phase[Other(q)] \in {"marking", "playing"} /\ Other(q) \in Peers
    BY OtherPeer DEF Inv, MarkedIsNow
  <2> QED BY <1>5, <1>6, <1>10, <2>1
<1>12. ASSUME NEW q \in Peers
       PROVE  /\ used'[q] # 0 => phase'[q] \in {"marking", "playing"} \/ Back(q)'
              /\ path'[q] # None => phase'[q] = "playing"
              /\ Marking(q)' /\ punch'[q].ackedPeer => used'[Other(q)] = token'[q]
  <2>1. CASE q = p
    BY <1>6, <2>1 DEF Marking
  <2>2. CASE q # p
    <3>1. used'[q] # 0 => phase'[q] \in {"marking", "playing"}
      BY <1>4, <1>5, <2>2 DEF Inv, UsedIsNow
    <3>2. path'[q] # None => phase'[q] = "playing"
      BY <1>5, <2>2 DEF Inv, UsedIsNow
    <3>3. ASSUME Marking(q)', punch'[q].ackedPeer
          PROVE  used'[Other(q)] = token'[q]
      <4>1. Marking(q) /\ punch[q].ackedPeer
        BY <1>5, <2>2, <3>3 DEF Marking
      <4>2. used[Other(q)] = token[q] /\ token[q] # 0 /\ Other(q) \in Peers
        BY <4>1, OtherPeer DEF Inv, UsedIsNow, Paired
      <4> QED BY <1>10, <4>2
    <3> QED BY <3>1, <3>2, <3>3
  <2> QED BY <2>1, <2>2
<1>13. UsedIsNow'
  BY <1>12 DEF UsedIsNow
<1>14. DirectMet'
  <2> SUFFICES ASSUME NEW q \in Peers, path'[q] = "direct"
               PROVE  used'[q] # 0 /\ used'[Other(q)] = used'[q]
    BY DEF DirectMet
  <2>1. CASE q = p
    <3>1. direct
      BY <1>0, <1>1, <2>1
    <3>2. Other(p) \in Peers /\ Other(p) # p
      BY OtherPeer
    <3> QED BY <2>1, <3>1, <3>2
  <2>2. CASE q # p
    <3>1. used[q] # 0 /\ used[Other(q)] = used[q] /\ Other(q) \in Peers
      BY <1>5, <2>2, OtherPeer DEF Inv, DirectMet
    <3> QED BY <1>10, <3>1
  <2> QED BY <2>1, <2>2
<1> QED BY <1>3, <1>7, <1>8, <1>9, <1>11, <1>13, <1>14 DEF Inv

LEMMA FinishKeeps ==
  ASSUME Inv, NEW p \in Peers, Finish(p)
  PROVE  Inv'
<1>0. /\ punch \in [Peers -> [on : BOOLEAN, gotAck : BOOLEAN, ackedPeer : BOOLEAN]]
      /\ used \in [Peers -> Nat] /\ proven \in [Peers -> BOOLEAN]
  BY DEF Inv, Types
<1>1. UNCHANGED <<token, used, lastToken, inbox, ready, net>>
  BY DEF Finish, serverVars
<1>2. Punching(p) /\ punch' = [punch EXCEPT ![p] = NoPunch]
  BY DEF Finish
<1>3. NoPunch \in [on : BOOLEAN, gotAck : BOOLEAN, ackedPeer : BOOLEAN] /\ ~NoPunch.on
  BY DEF NoPunch
<1>4. /\ punch' \in [Peers -> [on : BOOLEAN, gotAck : BOOLEAN, ackedPeer : BOOLEAN]]
      /\ ~punch'[p].on /\ \A q \in Peers : q # p => punch'[q] = punch[q]
  BY <1>0, <1>2, <1>3
<1>s. PICK shown \in {FALSE, Succeeds(p)} :
         IF Marking(p) THEN Decide(p, shown)
         ELSE proven' = [proven EXCEPT ![p] = shown] /\ UNCHANGED <<phase, armed, attempts, path>>
  BY DEF Finish
<1>5. shown \in BOOLEAN
  BY <1>0 DEF Succeeds
<1>6. CASE Marking(p)
  <2>1. Decide(p, shown) /\ phase[p] \in {"loading", "marking"}
    BY <1>6, <1>s DEF Marking
  <2>2. shown => used[p] # 0 /\ used[Other(p)] = used[p]
    BY <1>6, <1>s DEF Inv, Paired, UsedIsNow, Succeeds
  <2> QED BY <1>0, <1>1, <1>4, <1>5, <2>1, <2>2, DecideKeeps
<1>7. CASE ~Marking(p)
  <2>1. UNCHANGED <<phase, armed, path>> /\ proven' = [proven EXCEPT ![p] = shown]
    BY <1>7, <1>s
  <2>2. Types'
    BY <1>0, <1>1, <1>4, <1>5, <2>1 DEF Inv, Types
  <2>3. \A q \in Peers : (Back(q)' <=> Back(q)) /\ (Marking(q)' <=> Marking(q))
    BY <1>1, <2>1 DEF Back, Marking
  <2>4. Paired'
    <3>1. ASSUME NEW q \in Peers
          PROVE  /\ Punching(q)' \/ proven'[q] => Punching(q) \/ proven[q]
                 /\ Marking(q) => Punching(q)'
      <4>1. CASE q = p
        BY <1>2, <1>4, <1>7, <4>1 DEF Punching
      <4>2. CASE q # p
        BY <1>0, <1>4, <2>1, <4>2 DEF Inv, Paired, Punching
      <4> QED BY <4>1, <4>2
    <3> QED BY <1>1, <2>1, <2>3, <3>1 DEF Inv, Paired
  <2>5. OneStart' /\ BothStarted' /\ MarkedIsNow' /\ DirectMet'
    BY <1>1, <2>1, <2>3 DEF Inv, OneStart, BothStarted, MarkedIsNow, DirectMet
  <2>6. UsedIsNow'
    <3>1. \A q \in Peers : Marking(q) => punch'[q] = punch[q]
      BY <1>4, <1>7
    <3> QED BY <1>1, <2>1, <2>3, <3>1 DEF Inv, UsedIsNow
  <2> QED BY <2>2, <2>4, <2>5, <2>6 DEF Inv
<1> QED BY <1>6, <1>7

LEMMA StartMatchKeeps ==
  ASSUME Inv, NEW p \in Peers, StartMatch(p)
  PROVE  Inv'
<1>0. /\ punch \in [Peers -> [on : BOOLEAN, gotAck : BOOLEAN, ackedPeer : BOOLEAN]]
      /\ used \in [Peers -> Nat] /\ token \in [Peers -> Nat] /\ proven \in [Peers -> BOOLEAN]
      /\ phase \in [Peers -> {"lobby", "loading", "marking", "playing"}]
  BY DEF Inv, Types
<1>1. UNCHANGED <<token, lastToken, inbox, ready, net>>
  BY DEF StartMatch, serverVars
<1>2. phase[p] = "loading" /\ ~Punching(p)
  BY DEF StartMatch
<1>3. used[p] = 0 /\ \A q \in Peers : ~Back(q)
  BY <1>2 DEF Inv, UsedIsNow, BothStarted, Back
<1>4. CASE ~(armed[p] /\ token[p] # 0)
  <2>1. Decide(p, proven[p]) /\ used' = [used EXCEPT ![p] = 0] /\ UNCHANGED punch
    BY <1>4 DEF StartMatch
  <2>2. ~proven[p]
    BY <1>4 DEF Inv, Paired
  <2>3. used' \in [Peers -> Nat] /\ \A q \in Peers : q # p => used'[q] = used[q]
    BY <1>0, <2>1
  <2> QED BY <1>0, <1>1, <1>2, <1>3, <2>1, <2>2, <2>3, DecideKeeps DEF Punching
<1>5. CASE armed[p] /\ token[p] # 0
  <2> DEFINE fresh == [NoPunch EXCEPT !.on = TRUE]
  <2>1. /\ phase' = [phase EXCEPT ![p] = "marking"] /\ punch' = [punch EXCEPT ![p] = fresh]
        /\ used' = [used EXCEPT ![p] = token[p]] /\ UNCHANGED <<armed, proven, path>>
    BY <1>5 DEF StartMatch
  <2>2. fresh \in [on : BOOLEAN, gotAck : BOOLEAN, ackedPeer : BOOLEAN] /\ fresh.on /\ ~fresh.ackedPeer
    BY DEF NoPunch
  <2> HIDE DEF fresh
  <2>3. /\ phase' \in [Peers -> {"lobby", "loading", "marking", "playing"}]
        /\ used' \in [Peers -> Nat]
        /\ punch' \in [Peers -> [on : BOOLEAN, gotAck : BOOLEAN, ackedPeer : BOOLEAN]]
    BY <1>0, <2>1, <2>2
  <2>4. Types'
    BY <1>1, <2>1, <2>3 DEF Inv, Types
  <2>5. /\ phase'[p] = "marking" /\ punch'[p].on /\ ~punch'[p].ackedPeer /\ used'[p] = token[p]
        /\ \A q \in Peers : q # p => phase'[q] = phase[q] /\ used'[q] = used[q] /\ punch'[q] = punch[q]
    BY <1>0, <2>1, <2>2
  <2>6. \A q \in Peers : ~Back(q)'
    BY <1>1, <1>3, <2>5 DEF Back
  <2>7. Paired'
    BY <1>1, <1>5, <2>1, <2>5 DEF Inv, Paired, Punching, Marking
  <2>8. OneStart' /\ BothStarted'
    BY <1>1, <1>2, <1>3, <2>5, <2>6 DEF Inv, OneStart, BothStarted
  <2>9. MarkedIsNow'
    <3> SUFFICES ASSUME NEW d \in net, d.kind = "marked", NEW q \in Peers, d.to = q
                 PROVE  used'[Other(q)] = d.token /\ d.token # 0 /\ phase'[Other(q)] \in {"marking", "playing"}
      BY <1>1, <2>6 DEF MarkedIsNow
    <3>1. used[Other(q)] = d.token /\ d.token # 0 /\ phase[Other(q)] \in {"marking", "playing"} /\ Other(q) \in Peers
      BY OtherPeer DEF Inv, MarkedIsNow
    <3> QED BY <1>2, <2>5, <3>1
  <2>10. UsedIsNow'
    <3> SUFFICES ASSUME NEW q \in Peers
                 PROVE  /\ used'[q] # 0 => phase'[q] \in {"marking", "playing"} \/ Back(q)'
                        /\ path'[q] # None => phase'[q] = "playing"
                        /\ Marking(q)' /\ punch'[q].ackedPeer => used'[Other(q)] = token'[q]
      BY DEF UsedIsNow
    <3>1. CASE q = p
      BY <1>2, <2>1, <2>5, <3>1 DEF Inv, UsedIsNow
    <3>2. CASE q # p
      <4>1. used'[q] # 0 => phase'[q] \in {"marking", "playing"}
        BY <1>3, <2>5, <3>2 DEF Inv, UsedIsNow
      <4>2. path'[q] # None => phase'[q] = "playing"
        BY <2>1, <2>5, <3>2 DEF Inv, UsedIsNow
      <4>3. ~(Marking(q) /\ punch[q].ackedPeer)
        <5>1. Other(q) = p
          BY <3>2, OtherPeer
        <5> QED BY <1>3, <5>1 DEF Inv, UsedIsNow, Paired
      <4> QED BY <2>5, <3>2, <4>1, <4>2, <4>3 DEF Marking
    <3> QED BY <3>1, <3>2
  <2>11. DirectMet'
    <3> SUFFICES ASSUME NEW q \in Peers, path[q] = "direct"
                 PROVE  used'[q] # 0 /\ used'[Other(q)] = used'[q]
      BY <2>1 DEF DirectMet
    <3>1. used[q] # 0 /\ used[Other(q)] = used[q] /\ Other(q) \in Peers
      BY OtherPeer DEF Inv, DirectMet
    <3> QED BY <1>3, <2>5, <3>1
  <2> QED BY <2>4, <2>7, <2>8, <2>9, <2>10, <2>11 DEF Inv
<1> QED BY <1>4, <1>5

LEMMA ReadyKeeps ==
  ASSUME Inv, NEW p \in Peers, Ready(p)
  PROVE  Inv'
<1>1. UNCHANGED <<phase, armed, token, proven, punch, path, lastToken, net>>
  BY DEF Ready
<1>2. Back(p)
  BY DEF Ready, Back
<1>3. inbox \in [Peers -> Seq(Nat)] /\ \A q \in Peers : Once(inbox[q]) /\ Start \notin Range(inbox[q])
  BY <1>2 DEF Inv, Types, OneStart, BothStarted
<1>4. CASE ready # {Other(p)}
  <2>1. ready' = {p} /\ UNCHANGED <<inbox, used>>
    BY <1>4 DEF Ready
  <2>2. \A q \in Peers : Back(q)' <=> Back(q)
    BY <1>1, <2>1 DEF Back
  <2>3. Types' /\ Paired'
    BY <1>1, <2>1 DEF Inv, Types, Paired, Punching, Marking
  <2>4. OneStart'
    BY <1>1, <1>2, <2>1, <2>2 DEF Inv, OneStart
  <2>5. BothStarted' /\ MarkedIsNow' /\ UsedIsNow' /\ DirectMet'
    BY <1>1, <2>1, <2>2 DEF Inv, BothStarted, MarkedIsNow, UsedIsNow, DirectMet, Marking
  <2> QED BY <2>3, <2>4, <2>5 DEF Inv
<1>5. CASE ready = {Other(p)}
  <2>1. /\ ready' = {} /\ used' = [q \in Peers |-> 0]
        /\ inbox' = [q \in Peers |-> Append(inbox[q], Start)]
    BY <1>5 DEF Ready
  <2>2. ASSUME NEW q \in Peers
        PROVE  inbox'[q] \in Seq(Nat) /\ Once(inbox'[q]) /\ Start \in Range(inbox'[q])
    <3>1. inbox'[q] = Append(inbox[q], Start) /\ Start \in Nat
      BY <2>1 DEF Start
    <3> QED BY <1>3, <3>1, AppendStart
  <2>3. \A q \in Peers : phase[q] = "lobby"
    <3>1. Back(Other(p))
      BY <1>5, OtherPeer DEF Inv, OneStart
    <3> QED BY <1>2, <3>1, OtherPeer DEF Back
  <2>4. \A q \in Peers : ~Marking(q) /\ ~Marking(q)' /\ ~Back(q)' /\ path[q] = None
    BY <1>1, <2>2, <2>3 DEF Inv, UsedIsNow, Marking, Back
  <2>5. Types'
    BY <1>1, <2>1, <2>2 DEF Inv, Types
  <2>6. Paired'
    BY <1>1, <2>4 DEF Inv, Paired, Punching
  <2>7. OneStart' /\ BothStarted'
    BY <1>1, <2>1, <2>2, <2>3, <2>4 DEF OneStart, BothStarted
  <2>8. MarkedIsNow'
    <3>1. \A d \in net : d.kind = "marked" => \A q \in Peers : d.to # q
      BY <1>2 DEF Inv, MarkedIsNow
    <3> QED BY <1>1, <3>1 DEF MarkedIsNow
  <2>9. UsedIsNow' /\ DirectMet'
    BY <1>1, <2>1, <2>4 DEF UsedIsNow, DirectMet, None
  <2> QED BY <2>5, <2>6, <2>7, <2>8, <2>9 DEF Inv
<1> QED BY <1>4, <1>5

LEMMA TakeStartKeeps ==
  ASSUME Inv, NEW p \in Peers, TakeStart(p)
  PROVE  Inv'
<1>0. /\ phase \in [Peers -> {"lobby", "loading", "marking", "playing"}]
      /\ inbox \in [Peers -> Seq(Nat)] /\ \A q \in Peers : Once(inbox[q])
  BY DEF Inv, Types, OneStart
<1>1. UNCHANGED <<armed, token, proven, punch, path, used, lastToken, ready, net>>
  BY DEF TakeStart
<1>2. /\ ~Punching(p) /\ inbox[p] # <<>> /\ Head(inbox[p]) = Start
      /\ inbox' = [inbox EXCEPT ![p] = Tail(inbox[p])]
      /\ phase' = [phase EXCEPT ![p] = "loading"]
  BY DEF TakeStart, HasNews, Taken
<1>3. /\ Start \in Range(inbox[p]) /\ Tail(inbox[p]) \in Seq(Nat) /\ Once(Tail(inbox[p]))
      /\ Start \notin Range(Tail(inbox[p]))
  BY <1>0, <1>2, TailStart
<1>4. /\ phase'[p] = "loading" /\ inbox'[p] = Tail(inbox[p])
      /\ \A q \in Peers : q # p => phase'[q] = phase[q] /\ inbox'[q] = inbox[q]
  BY <1>0, <1>2
<1>5. phase[p] = "lobby" /\ \A q \in Peers : ~Back(q)
  BY <1>3 DEF Inv, OneStart, BothStarted
<1>6. \A q \in Peers : ~Back(q)'
  BY <1>4, <1>5 DEF Back
<1>7. Types'
  BY <1>0, <1>1, <1>2, <1>3 DEF Inv, Types
<1>8. Paired'
  BY <1>1, <1>4 DEF Inv, Paired, Punching, Marking
<1>9. OneStart'
  BY <1>1, <1>3, <1>4, <1>5 DEF Inv, OneStart
<1>10. BothStarted'
  BY <1>6 DEF BothStarted
<1>11. \A q \in Peers : q # p => phase'[q] = phase[q]
  BY <1>4
<1>12. MarkedIsNow'
  <2>1. \A d \in net : d.kind = "marked" => \A q \in Peers : d.to = q => Other(q) # p /\ Other(q) \in Peers
    BY <1>5, OtherPeer DEF Inv, MarkedIsNow
  <2> QED BY <1>1, <1>6, <1>11, <2>1 DEF Inv, MarkedIsNow
<1>13. UsedIsNow'
  BY <1>1, <1>4, <1>5, <1>6 DEF Inv, UsedIsNow, Marking
<1>14. DirectMet'
  BY <1>1 DEF Inv, DirectMet
<1> QED BY <1>7, <1>8, <1>9, <1>10, <1>12, <1>13, <1>14 DEF Inv

LEMMA EndMatchKeeps ==
  ASSUME Inv, NEW p \in Peers, EndMatch(p)
  PROVE  Inv'
<1>0. /\ phase \in [Peers -> {"lobby", "loading", "marking", "playing"}]
      /\ path \in [Peers -> {None, "direct", "relay"}]
  BY DEF Inv, Types
<1>1. UNCHANGED <<armed, token, proven, punch, used, lastToken, inbox, ready, net>>
  BY DEF EndMatch, serverVars
<1>2. /\ phase[p] = "playing" /\ phase' = [phase EXCEPT ![p] = "lobby"] /\ path' = [path EXCEPT ![p] = None]
      /\ Back(Other(p)) \/ (phase[Other(p)] = "playing" /\ net = {})
  BY DEF EndMatch
<1>3. /\ phase'[p] = "lobby" /\ path'[p] = None
      /\ \A q \in Peers : q # p => phase'[q] = phase[q] /\ path'[q] = path[q]
  BY <1>0, <1>2
<1>4. \A q \in Peers : phase[q] \in {"lobby", "playing"} /\ Start \notin Range(inbox[q])
  <2>1. CASE Back(Other(p))
    BY <2>1, OtherPeer DEF Inv, BothStarted
  <2>2. CASE phase[Other(p)] = "playing"
    BY <1>2, <2>2, OtherPeer DEF Inv, OneStart
  <2> QED BY <1>2, <2>1, <2>2
<1>5. Types'
  BY <1>0, <1>1, <1>2 DEF Inv, Types
<1>6. \A q \in Peers : ~Marking(q) /\ ~Marking(q)'
  BY <1>3, <1>4 DEF Marking
<1>7. \A q \in Peers : Back(q) => Back(q)'
  BY <1>1, <1>3 DEF Back
<1>8. Paired'
  BY <1>1, <1>6 DEF Inv, Paired, Punching
<1>9. OneStart' /\ BothStarted'
  BY <1>1, <1>3, <1>4, <1>7 DEF Inv, OneStart, BothStarted
<1>10. MarkedIsNow'
  <2>1. \A d \in net : d.kind = "marked" => \A q \in Peers : d.to # q
    BY <1>2, OtherPeer DEF Inv, MarkedIsNow
  <2> QED BY <1>1, <2>1 DEF MarkedIsNow
<1>11. UsedIsNow'
  <2>1. \A q \in Peers : used[q] # 0 => phase'[q] \in {"marking", "playing"} \/ Back(q)'
    BY <1>1, <1>3, <1>4, <1>7 DEF Inv, UsedIsNow, Back
  <2> QED BY <1>1, <1>3, <1>6, <2>1 DEF Inv, UsedIsNow
<1>12. DirectMet'
  BY <1>1, <1>3 DEF Inv, DirectMet, None
<1> QED BY <1>5, <1>8, <1>9, <1>10, <1>11, <1>12 DEF Inv

LEMMA InvNext == Inv /\ [Next]_vars => Inv'
<1> SUFFICES ASSUME Inv, [Next]_vars PROVE Inv'
  OBVIOUS
<1>1. ASSUME NEW p \in Peers, Arm(p) \/ Pair(p) \/ TakePeer(p) \/ SendProbe(p) \/ Hear(p) \/ Keepalive(p)
      PROVE  Inv'
  BY <1>1, ArmKeeps, PairKeeps, TakePeerKeeps, SendProbeKeeps, HearKeeps, KeepaliveKeeps
<1>2. ASSUME NEW p \in Peers, Finish(p) \/ Ready(p) \/ TakeStart(p) \/ StartMatch(p) \/ EndMatch(p)
      PROVE  Inv'
  BY <1>2, FinishKeeps, ReadyKeeps, TakeStartKeeps, StartMatchKeeps, EndMatchKeeps
<1>3. CASE Lose
  BY <1>3, KeepaliveKeeps
<1>4. CASE UNCHANGED vars
  BY <1>4 DEF vars, clientVars, serverVars, Inv, Types, Paired, OneStart, BothStarted, MarkedIsNow,
       UsedIsNow, DirectMet, Punching, Marking, Back
<1> QED BY <1>1, <1>2, <1>3, <1>4 DEF Next

(* Whoever plays direct has met the other at the start of this match, with *)
(* the same token, however datagrams are lost, delayed and crossed.        *)
THEOREM MetCorrect == Spec => []DirectMet
<1>1. Init => Inv
  BY InvInit
<1>2. Inv /\ [Next]_vars => Inv'
  BY InvNext
<1>3. Inv => DirectMet
  BY DEF Inv
<1> QED BY <1>1, <1>2, <1>3, PTL DEF Spec

-----------------------------------------------------------------------------
(* One pairing: what an armed client has taken and what is on its way to   *)
(* it, put together, end with the pairing made last.                       *)

Quiet(s) == \A j \in DOMAIN s : s[j] = Start
Newest(s, t) == \E i \in DOMAIN s : s[i] = t /\ \A j \in DOMAIN s : j > i => s[j] = Start

UpToDate(p) == \/ Quiet(inbox[p]) /\ token[p] = lastToken
               \/ lastToken # 0 /\ Newest(inbox[p], lastToken)

Pairings ==
  /\ lastToken # 0 => offered = Peers
  /\ lastToken = 0 => \A p \in Peers : token[p] = 0 /\ Quiet(inbox[p])
  /\ \A p \in Peers : armed[p] /\ p \notin offering => p \in offered /\ UpToDate(p)

LEMMA AppendNews ==
  ASSUME NEW s \in Seq(Nat), NEW t \in Nat
  PROVE  /\ Newest(Append(s, t), t)
         /\ t = Start => /\ Quiet(s) => Quiet(Append(s, t))
                         /\ \A u \in Nat : Newest(s, u) => Newest(Append(s, t), u)
<1> DEFINE r == Append(s, t)
<1>1. Len(s) \in Nat /\ DOMAIN s = 1 .. Len(s)
  BY LenProperties
<1>2. /\ r \in Seq(Nat) /\ Len(r) = Len(s) + 1
      /\ r[Len(s) + 1] = t /\ \A i \in 1 .. Len(s) : r[i] = s[i]
  BY AppendProperties
<1> HIDE DEF r
<1>3. DOMAIN r = 1 .. Len(s) + 1
  BY <1>2, LenProperties
<1>4. \A i \in 1 .. Len(s) + 1 : i \in 1 .. Len(s) \/ i = Len(s) + 1
  BY <1>1
<1>5. 1 .. Len(s) \subseteq 1 .. Len(s) + 1 /\ Len(s) + 1 \in 1 .. Len(s) + 1
  BY <1>1
<1>6. Newest(r, t)
  <2>1. \A j \in 1 .. Len(s) + 1 : ~(j > Len(s) + 1)
    BY <1>1
  <2> QED BY <1>2, <1>3, <1>5, <2>1 DEF Newest
<1>7. ASSUME t = Start, Quiet(s)
      PROVE  Quiet(r)
  BY <1>1, <1>2, <1>3, <1>4, <1>7 DEF Quiet
<1>8. ASSUME t = Start, NEW u \in Nat, Newest(s, u)
      PROVE  Newest(r, u)
  <2>1. PICK i \in 1 .. Len(s) : s[i] = u /\ \A j \in 1 .. Len(s) : j > i => s[j] = Start
    BY <1>1, <1>8 DEF Newest
  <2>2. r[i] = u /\ i \in 1 .. Len(s) + 1
    BY <1>2, <1>5, <2>1
  <2>3. \A j \in 1 .. Len(s) + 1 : j > i => r[j] = Start
    BY <1>2, <1>4, <1>8, <2>1
  <2> QED BY <1>3, <2>2, <2>3 DEF Newest
<1> QED BY <1>6, <1>7, <1>8 DEF r

LEMMA TailNews ==
  ASSUME NEW s \in Seq(Nat), s # <<>>
  PROVE  /\ Head(s) \in Nat /\ Tail(s) \in Seq(Nat)
         /\ Quiet(s) => Head(s) = Start /\ Quiet(Tail(s))
         /\ \A u \in Nat : u # Start /\ Newest(s, u) =>
              (Head(s) = u /\ Quiet(Tail(s))) \/ Newest(Tail(s), u)
<1> DEFINE r == Tail(s)
<1>1. Len(s) \in Nat /\ DOMAIN s = 1 .. Len(s) /\ \A i \in 1 .. Len(s) : s[i] \in Nat
  BY LenProperties
<1>2. /\ r \in Seq(Nat) /\ Len(r) = Len(s) - 1 /\ Head(s) = s[1] /\ Len(s) >= 1
      /\ \A i \in 1 .. Len(s) - 1 : r[i] = s[i + 1]
  <2>1. Len(s) # 0
    BY EmptySeq
  <2> QED BY <1>1, <2>1, HeadTailProperties
<1> HIDE DEF r
<1>3. DOMAIN r = 1 .. Len(s) - 1
  BY <1>2, LenProperties
<1>4. \A i \in 1 .. Len(s) - 1 : i + 1 \in 1 .. Len(s)
  BY <1>1
<1>5. 1 \in 1 .. Len(s) /\ Head(s) \in Nat
  BY <1>1, <1>2
<1>6. ASSUME Quiet(s)
      PROVE  Head(s) = Start /\ Quiet(r)
  BY <1>1, <1>2, <1>3, <1>4, <1>5, <1>6 DEF Quiet
<1>7. ASSUME NEW u \in Nat, Newest(s, u)
      PROVE  (Head(s) = u /\ Quiet(r)) \/ Newest(r, u)
  <2>1. PICK i \in 1 .. Len(s) : s[i] = u /\ \A j \in 1 .. Len(s) : j > i => s[j] = Start
    BY <1>1, <1>7 DEF Newest
  <2>2. CASE i = 1
    <3>1. \A j \in 1 .. Len(s) - 1 : j + 1 > 1
      BY <1>1
    <3>2. \A j \in 1 .. Len(s) - 1 : r[j] = Start
      BY <1>2, <1>4, <2>1, <2>2, <3>1
    <3> QED BY <1>2, <1>3, <2>1, <2>2, <3>2 DEF Quiet
  <2>3. CASE i # 1
    <3>1. i - 1 \in 1 .. Len(s) - 1 /\ (i - 1) + 1 = i
      BY <1>1, <2>3
    <3>2. r[i - 1] = u
      <4>1. r[i - 1] = s[(i - 1) + 1]
        BY <1>2, <3>1
      <4> QED BY <2>1, <3>1, <4>1
    <3>3. \A j \in 1 .. Len(s) - 1 : j > i - 1 => j + 1 > i
      BY <1>1
    <3>4. \A j \in 1 .. Len(s) - 1 : j > i - 1 => r[j] = Start
      BY <1>2, <1>4, <2>1, <3>3
    <3> QED BY <1>3, <3>1, <3>2, <3>4 DEF Newest
  <2> QED BY <2>2, <2>3
<1> QED BY <1>2, <1>5, <1>6, <1>7 DEF r

(* Offers and pairings.                                                    *)
LEMMA OfferPairings ==
  ASSUME Inv, Pairings, NEW p \in Peers, Arm(p) \/ Pair(p)
  PROVE  Pairings'
<1>1. lastToken \in Nat /\ inbox \in [Peers -> Seq(Nat)] /\ armed \in [Peers -> BOOLEAN]
  BY DEF Inv, Types
<1>2. CASE Arm(p)
  <2>1. UNCHANGED <<token, offered, lastToken, inbox>>
    BY <1>2 DEF Arm
  <2>2. \A q \in Peers : armed'[q] /\ q \notin offering' => armed[q] /\ q \notin offering
    <3>1. \/ armed' = [armed EXCEPT ![p] = TRUE] /\ offering' = offering \cup {p}
          \/ UNCHANGED <<armed, offering>>
      BY <1>2 DEF Arm
    <3> QED BY <1>1, <3>1
  <2> QED BY <2>1, <2>2 DEF Pairings, UpToDate
<1>3. CASE Pair(p)
  <2>1. /\ UNCHANGED <<armed, token>>
        /\ offering' = offering \ {p} /\ offered' = offered \cup {p}
    BY <1>3 DEF Pair, clientVars
  <2>2. CASE offered' = Peers
    <3>1. lastToken' = lastToken + 1 /\ inbox' = [q \in Peers |-> Append(inbox[q], lastToken')]
      BY <1>3, <2>2 DEF Pair
    <3>2. lastToken' \in Nat /\ lastToken' # 0
      BY <1>1, <3>1
    <3>3. \A q \in Peers : Newest(inbox'[q], lastToken')
      BY <1>1, <3>1, <3>2, AppendNews
    <3> QED BY <2>2, <3>2, <3>3 DEF Pairings, UpToDate
  <2>3. CASE offered' # Peers
    <3>1. UNCHANGED <<lastToken, inbox>>
      BY <1>3, <2>3 DEF Pair
    <3>2. lastToken = 0
      BY <2>1, <2>3 DEF Pairings
    <3> QED BY <2>1, <3>1, <3>2 DEF Pairings, UpToDate
  <2> QED BY <2>2, <2>3
<1> QED BY <1>2, <1>3

(* News taken, and a start on its way.                                     *)
LEMMA NewsPairings ==
  ASSUME Inv, Pairings, NEW p \in Peers, TakePeer(p) \/ TakeStart(p) \/ Ready(p)
  PROVE  Pairings'
<1>1. /\ lastToken \in Nat /\ inbox \in [Peers -> Seq(Nat)] /\ token \in [Peers -> Nat]
      /\ \A q \in Peers : inbox[q] \in Seq(Nat)
  BY DEF Inv, Types
<1>2. UNCHANGED <<armed, offering, offered, lastToken>>
  BY DEF TakePeer, TakeStart, Ready
<1>3. ASSUME TakePeer(p) \/ TakeStart(p)
      PROVE  Pairings'
  <2>1. inbox[p] # <<>> /\ inbox' = [inbox EXCEPT ![p] = Tail(inbox[p])]
    BY <1>3 DEF TakePeer, TakeStart, HasNews, Taken
  <2>2. inbox'[p] = Tail(inbox[p]) /\ \A q \in Peers : q # p => inbox'[q] = inbox[q]
    BY <1>1, <2>1
  <2>3. token' = IF TakePeer(p) /\ armed[p] THEN [token EXCEPT ![p] = Head(inbox[p])] ELSE token
    BY <1>3 DEF TakePeer, TakeStart
  <2>4. \A q \in Peers : q # p => token'[q] = token[q]
    BY <1>1, <2>3
  <2>5. \A u \in Nat : u # Start /\ Newest(inbox[p], u) =>
          (Head(inbox[p]) = u /\ Quiet(Tail(inbox[p]))) \/ Newest(Tail(inbox[p]), u)
    BY <1>1, <2>1, TailNews
  <2>6. Quiet(inbox[p]) => Head(inbox[p]) = Start /\ Quiet(Tail(inbox[p]))
    BY <1>1, <2>1, TailNews
  <2>7. ASSUME Quiet(inbox[p])
        PROVE  Quiet(inbox'[p]) /\ token'[p] = token[p]
    <3>1. ~TakePeer(p)
      BY <2>6, <2>7 DEF TakePeer
    <3> QED BY <2>2, <2>3, <2>6, <2>7, <3>1
  <2>8. ASSUME armed[p], UpToDate(p)
        PROVE  UpToDate(p)'
    <3>1. CASE Quiet(inbox[p])
      <4>1. token[p] = lastToken
        <5>1. Newest(inbox[p], lastToken) => lastToken = 0
          BY <3>1 DEF Newest, Quiet, Start
        <5> QED BY <2>8, <5>1 DEF UpToDate
      <4> QED BY <1>2, <2>7, <3>1, <4>1 DEF UpToDate
    <3>2. CASE ~Quiet(inbox[p])
      <4>1. lastToken # 0 /\ Newest(inbox[p], lastToken)
        BY <2>8, <3>2 DEF UpToDate
      <4>2. (Head(inbox[p]) = lastToken /\ Quiet(inbox'[p])) \/ Newest(inbox'[p], lastToken)
        BY <1>1, <2>2, <2>5, <4>1 DEF Start
      <4>3. CASE Head(inbox[p]) = lastToken /\ Quiet(inbox'[p])
        <5>1. TakePeer(p)
          BY <1>3, <4>1, <4>3 DEF TakeStart, Start
        <5>2. token'[p] = lastToken
          BY <1>1, <2>3, <2>8, <4>3, <5>1
        <5> QED BY <1>2, <4>3, <5>2 DEF UpToDate
      <4>4. CASE Newest(inbox'[p], lastToken)
        BY <1>2, <4>1, <4>4 DEF UpToDate
      <4> QED BY <4>2, <4>3, <4>4
    <3> QED BY <3>1, <3>2
  <2>9. lastToken' = 0 => \A q \in Peers : token'[q] = 0 /\ Quiet(inbox'[q])
    BY <1>2, <2>2, <2>4, <2>7 DEF Pairings
  <2>10. \A q \in Peers : armed'[q] /\ q \notin offering' => q \in offered' /\ UpToDate(q)'
    <3> SUFFICES ASSUME NEW q \in Peers, armed[q], q \notin offering
                 PROVE  q \in offered /\ UpToDate(q)'
      BY <1>2
    <3>1. q \in offered /\ UpToDate(q)
      BY DEF Pairings
    <3>2. CASE q = p
      BY <2>8, <3>1, <3>2
    <3>3. CASE q # p
      BY <1>2, <2>2, <2>4, <3>1, <3>3 DEF UpToDate
    <3> QED BY <3>1, <3>2, <3>3
  <2> QED BY <1>2, <2>9, <2>10 DEF Pairings
<1>4. CASE Ready(p)
  <2>1. UNCHANGED token
    BY <1>4 DEF Ready
  <2>2. CASE UNCHANGED inbox
    BY <1>2, <2>1, <2>2 DEF Pairings, UpToDate
  <2>3. CASE inbox' = [q \in Peers |-> Append(inbox[q], Start)]
    <3>1. ASSUME NEW q \in Peers
          PROVE  /\ Quiet(inbox[q]) => Quiet(inbox'[q])
                 /\ Newest(inbox[q], lastToken) => Newest(inbox'[q], lastToken)
      <4>1. inbox'[q] = Append(inbox[q], Start) /\ inbox[q] \in Seq(Nat) /\ Start \in Nat
        BY <1>1, <2>3 DEF Start
      <4> QED BY <1>1, <4>1, AppendNews
    <3> QED BY <1>2, <2>1, <3>1 DEF Pairings, UpToDate
  <2> QED BY <1>4, <2>2, <2>3 DEF Ready
<1> QED BY <1>3, <1>4

LEMMA PairingsNext == Inv /\ Pairings /\ [Next]_vars => Pairings'
<1> SUFFICES ASSUME Inv, Pairings, [Next]_vars PROVE Pairings'
  OBVIOUS
<1>1. ASSUME NEW p \in Peers, SendProbe(p) \/ Hear(p) \/ Keepalive(p) \/ EndMatch(p)
      PROVE  Pairings'
  BY <1>1 DEF SendProbe, Hear, Keepalive, EndMatch, clientVars, serverVars, Pairings, UpToDate
<1>2. CASE Lose
  BY <1>2 DEF Lose, clientVars, serverVars, Pairings, UpToDate
<1>3. ASSUME NEW p \in Peers, Finish(p) \/ StartMatch(p)
      PROVE  Pairings'
  <2>1. UNCHANGED <<token, offering, offered, lastToken, inbox>>
    BY <1>3 DEF Finish, StartMatch, serverVars
  <2>2. \A q \in Peers : armed'[q] => armed[q]
    <3>1. armed' = armed \/ armed' = [armed EXCEPT ![p] = FALSE]
      BY <1>3 DEF Finish, StartMatch, Decide
    <3> QED BY <3>1 DEF Inv, Types
  <2> QED BY <2>1, <2>2 DEF Pairings, UpToDate
<1>4. CASE UNCHANGED vars
  BY <1>4 DEF vars, clientVars, serverVars, Pairings, UpToDate
<1> QED BY <1>1, <1>2, <1>3, <1>4, OfferPairings, NewsPairings DEF Next

(* Two armed clients that have taken their news hold the pairing made      *)
(* last, however often and in whatever order they offered.                 *)
THEOREM PairingCorrect == Spec => []OnePairing
<1>1. Init => Inv /\ Pairings
  <2>1. Init => Pairings
    <3>1. DOMAIN <<>> = {}
      BY EmptySeq
    <3> QED BY <3>1 DEF Init, Pairings, Quiet
  <2> QED BY <2>1, InvInit
<1>2. Inv /\ Pairings /\ [Next]_vars => (Inv /\ Pairings)'
  BY InvNext, PairingsNext
<1>3. Inv /\ Pairings => OnePairing
  <2> SUFFICES ASSUME Pairings, offering = {}, NEW p \in Peers, armed[p], inbox[p] = <<>>
               PROVE  token[p] = lastToken
    BY DEF OnePairing
  <2>1. ~Newest(inbox[p], lastToken)
    BY EmptySeq DEF Newest
  <2> QED BY <2>1 DEF Pairings, UpToDate
<1> QED BY <1>1, <1>2, <1>3, PTL DEF Spec
=============================================================================
