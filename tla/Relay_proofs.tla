---------------------------- MODULE Relay_proofs ----------------------------
(***************************************************************************)
(* Theorems about Relay, for every value of its constants.                 *)
(***************************************************************************)
EXTENDS Relay, FiniteSetTheorems, SequenceTheorems, TLAPS

(* An address the server holds was once its client's.                      *)
PortsCounted == \A c \in Clients : port[c] <= used.faults

(* Each side of the pipe has the IP of a member, as the server knows them. *)
EndsAllowed == \A s \in Sides : ends[s] # None => IpOf(ends[s]) \in Range(allowed)

Inv == TypeOK /\ PortsCounted /\ SlotsApart /\ EndsAllowed

-----------------------------------------------------------------------------
(* What the server is told.                                                *)

LEMMA HereIsAddress ==
  ASSUME TypeOK, NEW c \in Clients
  PROVE  Here(c) \in Address
BY DEF TypeOK, Here, Address

LEMMA IpOfAddress ==
  ASSUME NEW a \in Address
  PROVE  a # None /\ a[1] \in Clients /\ IpOf(a) = Ip[a[1]] /\ IpOf(a) \in Range(Ip) /\ IpOf(a) # NoIp
<1>1. a[1] \in Clients /\ a = <<a[1], a[2]>>
  BY DEF Address
<1>2. IpOf(a) = Ip[a[1]] /\ IpOf(a) \in Range(Ip)
  BY <1>1, RelayAssumption DEF IpOf, Range
<1>3. IpOf(a) # NoIp
  BY <1>2, RelayAssumption
<1>4. a # None
  BY <1>1 DEF None
<1> QED BY <1>1, <1>2, <1>3, <1>4

LEMMA SeatIpsType ==
  ASSUME NEW q \in Seq(Players)
  PROVE  /\ SeatIps(q) \in [Seats -> {NoIp} \cup Range(Ip)]
         /\ \A i \in Seats : SeatIps(q)[i] # NoIp => \E c \in Range(q) : SeatIps(q)[i] = Ip[c]
<1>1. Len(q) \in Nat /\ DOMAIN q = 1 .. Len(q) /\ \A i \in 1 .. Len(q) : q[i] \in Players
  BY LenProperties
<1>2. ASSUME NEW i \in Seats, i <= Len(q)
      PROVE  Ip[q[i]] \in Range(Ip) /\ q[i] \in Range(q)
  <2>1. i \in 1 .. Len(q)
    BY <1>1, <1>2 DEF Seats
  <2>2. q[i] \in Clients
    BY <1>1, <2>1 DEF Clients
  <2> QED BY <1>1, <2>1, <2>2, RelayAssumption DEF Range
<1>3. \A i \in Seats : SeatIps(q)[i] = IF i <= Len(q) THEN Ip[q[i]] ELSE NoIp
  BY DEF SeatIps
<1>4. SeatIps(q) \in [Seats -> {NoIp} \cup Range(Ip)]
  BY <1>2 DEF SeatIps
<1> QED BY <1>2, <1>3, <1>4

(* SetToSeq lists the elements of a finite set.                            *)
LEMMA SetToSeqLists ==
  ASSUME NEW S, IsFiniteSet(S)
  PROVE  Cardinality(S) \in Nat /\ SetToSeq(S) \in [1 .. Cardinality(S) -> S]
<1>1. Cardinality(S) \in Nat /\ ExistsBijection(1 .. Cardinality(S), S)
  BY FS_CardinalityType
<1> DEFINE places == 1 .. Cardinality(S)
<1>2. ExistsBijection(places, S)
  BY <1>1
<1> HIDE DEF places
<1>3. \E f \in [places -> S] : IsInjective(f)
  BY <1>2 DEF ExistsBijection, Bijection, Injection, IsInjective
<1>4. (CHOOSE f \in [places -> S] : IsInjective(f)) \in [places -> S]
  BY <1>3
<1>5. SetToSeq(S) = CHOOSE f \in [places -> S] : IsInjective(f)
  BY DEF SetToSeq, places
<1> QED BY <1>1, <1>4, <1>5 DEF places

LEMMA MemberIpsRange ==
  ASSUME NEW q \in Seq(Players), NEW w \in SUBSET Spectators
  PROVE  /\ \A ip \in Range(MemberIps(q, w)) : \E c \in Range(q) \cup w : ip = Ip[c]
         /\ Range(MemberIps(q, w)) \subseteq Range(Ip)
<1> DEFINE n == Cardinality(w)
           front == [i \in DOMAIN q |-> Ip[q[i]]]
           back == [i \in 1 .. n |-> Ip[SetToSeq(w)[i]]]
<1>1. Len(q) \in Nat /\ DOMAIN q = 1 .. Len(q) /\ \A i \in 1 .. Len(q) : q[i] \in Players
  BY LenProperties
<1>2. IsFiniteSet(w)
  BY RelayAssumption, FS_Subset
<1>3. n \in Nat /\ SetToSeq(w) \in [1 .. n -> w]
  BY <1>2, SetToSeqLists
<1>4. \A i \in 1 .. n : SetToSeq(w)[i] \in w
  BY <1>3
<1>5. \A c \in Clients : Ip[c] \in Range(Ip)
  BY RelayAssumption DEF Range
<1>6. \A i \in 1 .. Len(q) : Ip[q[i]] \in Range(Ip)
  BY <1>1, <1>5 DEF Clients
<1>7. \A i \in 1 .. n : Ip[SetToSeq(w)[i]] \in Range(Ip)
  BY <1>4, <1>5 DEF Clients
<1>8. /\ front \in Seq(Range(Ip)) /\ Len(front) = Len(q)
      /\ \A i \in 1 .. Len(q) : front[i] = Ip[q[i]]
  <2>1. front = [i \in 1 .. Len(q) |-> Ip[q[i]]]
    BY <1>1
  <2> QED BY <1>1, <1>6, <2>1
<1>9. /\ back \in Seq(Range(Ip)) /\ Len(back) = n
      /\ \A i \in 1 .. n : back[i] = Ip[SetToSeq(w)[i]]
  <2>1. back = [i \in 1 .. n |-> Ip[SetToSeq(w)[i]]] /\ n \in Nat
    BY <1>3
  <2> HIDE DEF n
  <2> QED BY <1>7, <2>1
<1> HIDE DEF n, front, back
<1>10. /\ front \o back \in Seq(Range(Ip))
       /\ Len(front \o back) = Len(q) + n
       /\ \A i \in 1 .. Len(q) + n :
            (front \o back)[i] = IF i <= Len(q) THEN front[i] ELSE back[i - Len(q)]
  <2>1. front \in Seq(Range(Ip)) /\ back \in Seq(Range(Ip))
    BY <1>8, <1>9
  <2>2. /\ front \o back \in Seq(Range(Ip))
        /\ Len(front \o back) = Len(front) + Len(back)
        /\ \A i \in 1 .. Len(front) + Len(back) :
             (front \o back)[i] = IF i <= Len(front) THEN front[i] ELSE back[i - Len(front)]
    BY <2>1, ConcatProperties
  <2>3. Len(front) = Len(q) /\ Len(back) = n
    BY <1>8, <1>9
  <2> QED BY <2>2, <2>3
<1>11. MemberIps(q, w) = front \o back
  BY DEF MemberIps, front, back, n
<1>12. ASSUME NEW ip \in Range(MemberIps(q, w))
       PROVE  (\E c \in Range(q) \cup w : ip = Ip[c]) /\ ip \in Range(Ip)
  <2>1. PICK i \in 1 .. Len(q) + n : ip = (front \o back)[i]
    BY <1>10, <1>11 DEF Range
  <2>2. CASE i <= Len(q)
    <3>1. i \in 1 .. Len(q)
      BY <2>2, <1>1, <1>3
    <3>2. ip = Ip[q[i]] /\ q[i] \in Range(q)
      BY <2>1, <2>2, <3>1, <1>1, <1>8, <1>10 DEF Range
    <3> QED BY <3>1, <3>2, <1>6
  <2>3. CASE ~(i <= Len(q))
    <3>1. i - Len(q) \in 1 .. n
      BY <2>3, <1>1, <1>3
    <3>2. ip = Ip[SetToSeq(w)[i - Len(q)]]
      BY <2>1, <2>3, <3>1, <1>9, <1>10
    <3> QED BY <3>1, <3>2, <1>4, <1>7
  <2> QED BY <2>2, <2>3
<1> QED BY <1>12

(* Whatever the session's members become, the server's tables stay sound.  *)
LEMMA TellKeeps ==
  ASSUME Inv, NEW q \in Seq(Players), NEW w \in SUBSET Spectators, Tell(q, w)
  PROVE  /\ players' \in [Seats -> {NoIp} \cup Range(Ip)] /\ eps' \in [Seats -> {None} \cup Address]
         /\ Range(allowed') \subseteq Range(Ip) /\ ends' \in [Sides -> {None} \cup Address]
         /\ SlotsApart' /\ EndsAllowed'
<1>1. /\ players' = SeatIps(q)
      /\ eps' = [i \in Seats |-> IF players[i] = SeatIps(q)[i] THEN eps[i] ELSE None]
  BY DEF Tell, SetPlayers
<1>2. /\ allowed' = MemberIps(q, w)
      /\ ends' = IF MemberIps(q, w) = allowed THEN ends ELSE [s \in Sides |-> None]
  BY DEF Tell, SetAllowed
<1>3. players' \in [Seats -> {NoIp} \cup Range(Ip)]
  BY <1>1, SeatIpsType
<1>4. eps' \in [Seats -> {None} \cup Address]
  BY <1>1 DEF Inv, TypeOK
<1>5. Range(allowed') \subseteq Range(Ip)
  BY <1>2, MemberIpsRange
<1>6. ends' \in [Sides -> {None} \cup Address]
  BY <1>2 DEF Inv, TypeOK
<1>7. SlotsApart'
  <2> SUFFICES ASSUME NEW i \in Seats, eps'[i] # None
               PROVE  IpOf(eps'[i]) = players'[i] /\ eps'[i] # eps'[3 - i]
    BY DEF SlotsApart
  <2>1. 3 - i \in Seats
    BY DEF Seats
  <2>2. eps'[i] = eps[i] /\ players[i] = players'[i]
    BY <1>1
  <2>3. eps'[3 - i] = None \/ eps'[3 - i] = eps[3 - i]
    BY <1>1, <2>1
  <2> QED BY <2>2, <2>3 DEF Inv, SlotsApart
<1>8. EndsAllowed'
  BY <1>2 DEF Inv, EndsAllowed
<1> QED BY <1>3, <1>4, <1>5, <1>6, <1>7, <1>8

(* A slot that is learned is the right one, and not a second of the same   *)
(* address.                                                                *)
LEMMA LearnedIsSound ==
  ASSUME Inv, NEW a \in Address
  PROVE  /\ Learned(a) \in [Seats -> {None} \cup Address]
         /\ \A i \in Seats : Learned(a)[i] # None =>
              IpOf(Learned(a)[i]) = players[i] /\ Learned(a)[i] # Learned(a)[3 - i]
<1> DEFINE free == {i \in Seats : eps[i] = None /\ players[i] = IpOf(a)}
           k == CHOOSE i \in free : \A j \in free : i <= j
<1>0. eps \in [Seats -> {None} \cup Address]
  BY DEF Inv, TypeOK
<1>1. CASE a \in Range(eps) \/ free = {}
  <2>1. Learned(a) = eps
    BY <1>1 DEF Learned
  <2> QED BY <1>0, <2>1 DEF Inv, SlotsApart
<1>2. CASE a \notin Range(eps) /\ free # {}
  <2>1. \E i \in free : \A j \in free : i <= j
    <3>1. CASE 1 \in free
      <4>1. \A j \in free : 1 <= j
        BY DEF Seats
      <4> QED BY <3>1, <4>1
    <3>2. CASE 1 \notin free
      <4>1. 2 \in free /\ \A j \in free : 2 <= j
        BY <1>2, <3>2 DEF Seats
      <4> QED BY <4>1
    <3> QED BY <3>1, <3>2
  <2>2. k \in free
    BY <2>1
  <2>3. Learned(a) = [eps EXCEPT ![k] = a]
    BY <1>2 DEF Learned
  <2> HIDE DEF k
  <2>4. k \in Seats /\ eps[k] = None /\ players[k] = IpOf(a)
    BY <2>2
  <2>5. \A i \in Seats : eps[i] # a
    BY <1>0, <1>2 DEF Range
  <2>6. ASSUME NEW i \in Seats, Learned(a)[i] # None
        PROVE  IpOf(Learned(a)[i]) = players[i] /\ Learned(a)[i] # Learned(a)[3 - i]
    <3>1. 3 - i \in Seats /\ 3 - i # i /\ 3 - (3 - i) = i
      BY DEF Seats
    <3>2. CASE i = k
      <4>1. Learned(a)[i] = a /\ Learned(a)[3 - i] = eps[3 - i]
        BY <1>0, <2>3, <2>4, <3>1, <3>2
      <4> QED BY <2>4, <2>5, <3>1, <3>2, <4>1
    <3>3. CASE i # k
      <4>1. Learned(a)[i] = eps[i]
        BY <1>0, <2>3, <2>4, <3>3
      <4>2. Learned(a)[3 - i] = a \/ Learned(a)[3 - i] = eps[3 - i]
        BY <1>0, <2>3, <2>4, <3>1
      <4> QED BY <2>5, <2>6, <4>1, <4>2 DEF Inv, SlotsApart
    <3> QED BY <3>2, <3>3
  <2>7. Learned(a) \in [Seats -> {None} \cup Address]
    BY <1>0, <2>3
  <2> QED BY <2>6, <2>7
<1> QED BY <1>1, <1>2

-----------------------------------------------------------------------------
(* Every action keeps the invariant.                                       *)

LEMMA InvInit == Init => Inv
<1> SUFFICES ASSUME Init PROVE Inv
  OBVIOUS
<1>1. playing \in Seq(Players) /\ IsInjective(playing)
  BY EmptySeq DEF Init, IsInjective
<1>2. Range(allowed) = {}
  BY DEF Init, Range
<1>3. MaxFaults \in Nat /\ MaxChanges \in Nat
  BY RelayAssumption
<1>4. TypeOK
  BY <1>1, <1>2, <1>3 DEF Init, TypeOK, Packet
<1>5. PortsCounted
  BY DEF Init, PortsCounted
<1>6. SlotsApart /\ EndsAllowed
  BY DEF Init, SlotsApart, EndsAllowed
<1> QED BY <1>4, <1>5, <1>6 DEF Inv

LEMMA UseChanges ==
  ASSUME Inv, used.changes < MaxChanges, Use("changes")
  PROVE  used' \in [changes : 0 .. MaxChanges, faults : 0 .. MaxFaults] /\ used'.faults = used.faults
BY RelayAssumption DEF Inv, TypeOK, Use

LEMMA UseFaults ==
  ASSUME Inv, used.faults < MaxFaults, Use("faults")
  PROVE  used' \in [changes : 0 .. MaxChanges, faults : 0 .. MaxFaults] /\ used'.faults = used.faults + 1
BY RelayAssumption DEF Inv, TypeOK, Use

(* Telling the server of other members, as one of the bounded changes.     *)
LEMMA ChangeKeeps ==
  ASSUME Inv, NEW q \in Seq(Players), IsInjective(q), NEW w \in SUBSET Spectators,
         Tell(q, w), UNCHANGED <<port, net>>,
         \/ used.changes < MaxChanges /\ Use("changes")
         \/ UNCHANGED used
  PROVE  Inv'
<1>1. used' \in [changes : 0 .. MaxChanges, faults : 0 .. MaxFaults] /\ used'.faults = used.faults
  BY UseChanges DEF Inv, TypeOK
<1>2. playing' = q /\ watching' = w
  BY DEF Tell
<1>3. TypeOK'
  BY <1>1, <1>2, TellKeeps DEF Inv, TypeOK
<1>4. PortsCounted'
  BY <1>1 DEF Inv, PortsCounted
<1> QED BY <1>3, <1>4, TellKeeps DEF Inv

(* RemoveAt drops one place and moves the ones behind it up.               *)
LEMMA RemoveAtProperties ==
  ASSUME NEW S, NEW seq \in Seq(S), NEW i \in 1 .. Len(seq)
  PROVE  /\ RemoveAt(seq, i) \in Seq(S)
         /\ Len(RemoveAt(seq, i)) = Len(seq) - 1
         /\ \A j \in 1 .. Len(seq) - 1 :
              RemoveAt(seq, i)[j] = IF j < i THEN seq[j] ELSE seq[j + 1]
<1> DEFINE front == SubSeq(seq, 1, i - 1)
           back  == SubSeq(seq, i + 1, Len(seq))
<1>0. Len(seq) \in Nat /\ \A j \in 1 .. Len(seq) : seq[j] \in S
  BY LenProperties
<1>1. /\ front \in Seq(S) /\ Len(front) = i - 1
      /\ \A j \in 1 .. i - 1 : front[j] = seq[j]
  BY <1>0, SubSeqProperties
<1>2. /\ back \in Seq(S) /\ Len(back) = Len(seq) - i
      /\ \A j \in 1 .. Len(seq) - i : back[j] = seq[j + i]
  BY <1>0, SubSeqProperties
<1> HIDE DEF front, back
<1>3. /\ front \o back \in Seq(S)
      /\ Len(front \o back) = Len(front) + Len(back)
      /\ \A j \in 1 .. Len(front) + Len(back) :
           (front \o back)[j] = IF j <= Len(front) THEN front[j] ELSE back[j - Len(front)]
  BY <1>1, <1>2, ConcatProperties
<1>4. RemoveAt(seq, i) = front \o back
  BY DEF RemoveAt, front, back
<1>5. ASSUME NEW j \in 1 .. Len(seq) - 1
      PROVE  RemoveAt(seq, i)[j] = IF j < i THEN seq[j] ELSE seq[j + 1]
  <2>1. CASE j < i
    BY <2>1, <1>0, <1>1, <1>2, <1>3, <1>4
  <2>2. CASE j >= i
    <3>1. j - (i - 1) \in 1 .. Len(seq) - i /\ ~(j <= i - 1)
      BY <2>2, <1>0
    <3>2. RemoveAt(seq, i)[j] = back[j - (i - 1)]
      BY <3>1, <1>0, <1>1, <1>2, <1>3, <1>4
    <3>3. back[j - (i - 1)] = seq[j - (i - 1) + i]
      BY <3>1, <1>2
    <3> QED BY <3>1, <3>2, <3>3, <1>0
  <2> QED BY <2>1, <2>2, <1>0
<1>6. RemoveAt(seq, i) \in Seq(S)
  BY <1>3, <1>4
<1>7. Len(RemoveAt(seq, i)) = Len(seq) - 1
  <2>1. Len(front \o back) = Len(front) + Len(back)
    BY <1>3
  <2>2. i \in Int /\ Len(front) = i - 1 /\ Len(back) = Len(seq) - i /\ Len(seq) \in Nat
    BY <1>0, <1>1, <1>2
  <2> QED BY <2>1, <2>2, <1>4
<1> QED BY <1>5, <1>6, <1>7

(* Places stay distinct when one is left and when one is taken.            *)
LEMMA RemoveInjective ==
  ASSUME NEW q \in Seq(Players), IsInjective(q), NEW i \in 1 .. Len(q)
  PROVE  RemoveAt(q, i) \in Seq(Players) /\ IsInjective(RemoveAt(q, i))
         /\ q[i] \notin Range(RemoveAt(q, i))
<1> DEFINE r == RemoveAt(q, i)
<1>1. Len(q) \in Nat /\ DOMAIN q = 1 .. Len(q)
  BY LenProperties
<1>2. /\ r \in Seq(Players) /\ Len(r) = Len(q) - 1
      /\ \A j \in 1 .. Len(q) - 1 : r[j] = IF j < i THEN q[j] ELSE q[j + 1]
  BY RemoveAtProperties
<1> HIDE DEF r
<1>3. DOMAIN r = 1 .. Len(q) - 1
  BY <1>2, LenProperties
<1> DEFINE from(j) == IF j < i THEN j ELSE j + 1
<1>4. \A j \in 1 .. Len(q) - 1 : from(j) \in 1 .. Len(q) /\ from(j) # i /\ r[j] = q[from(j)]
  BY <1>1, <1>2
<1>5. \A j, k \in 1 .. Len(q) - 1 : from(j) = from(k) => j = k
  BY <1>1
<1> HIDE DEF from
<1>6. \A j, k \in 1 .. Len(q) : q[j] = q[k] => j = k
  BY <1>1 DEF IsInjective
<1>7. IsInjective(r)
  BY <1>3, <1>4, <1>5, <1>6 DEF IsInjective
<1>8. q[i] \notin Range(r)
  BY <1>3, <1>4, <1>6 DEF Range
<1> QED BY <1>2, <1>7, <1>8 DEF r

LEMMA NewPlaceInjective ==
  ASSUME NEW q \in Seq(Players), IsInjective(q), NEW c \in Players, c \notin Range(q),
         NEW r, r = Append(q, c)
  PROVE  r \in Seq(Players) /\ IsInjective(r)
<1>1. Len(q) \in Nat /\ DOMAIN q = 1 .. Len(q)
  BY LenProperties
<1>2. /\ r \in Seq(Players) /\ Len(r) = Len(q) + 1
      /\ r[Len(q) + 1] = c
      /\ \A j \in 1 .. Len(q) : r[j] = q[j]
  BY AppendProperties
<1>3. DOMAIN r = 1 .. Len(q) + 1
  BY <1>2, LenProperties
<1>4. \A j \in 1 .. Len(q) : q[j] # c
  BY <1>1 DEF Range
<1>5. \A j, k \in 1 .. Len(q) : q[j] = q[k] => j = k
  BY <1>1 DEF IsInjective
<1>6. \A j \in 1 .. Len(q) + 1 : j \in 1 .. Len(q) \/ j = Len(q) + 1
  BY <1>1
<1>7. IsInjective(r)
  BY <1>2, <1>3, <1>4, <1>5, <1>6 DEF IsInjective
<1> QED BY <1>2, <1>7

LEMMA JoinKeeps ==
  ASSUME Inv, NEW c \in Clients, Join(c)
  PROVE  Inv'
<1>1. playing \in Seq(Players) /\ IsInjective(playing) /\ watching \in SUBSET Spectators
  BY DEF Inv, TypeOK
<1>2. c \notin Range(playing) /\ c \notin watching
  BY DEF Join, Members, Seated
<1>3. used.changes < MaxChanges /\ Use("changes") /\ UNCHANGED <<port, net>>
  BY DEF Join
<1>4. CASE c \in Players
  <2> DEFINE longer == Append(playing, c)
  <2>2. Tell(longer, watching)
    BY <1>4 DEF Join
  <2>3. longer = Append(playing, c)
    OBVIOUS
  <2> HIDE DEF longer
  <2>1. longer \in Seq(Players) /\ IsInjective(longer)
    BY <1>1, <1>2, <1>4, <2>3, NewPlaceInjective
  <2> QED BY <1>1, <1>3, <2>1, <2>2, ChangeKeeps
<1>5. CASE c \notin Players
  <2>1. Tell(playing, watching \cup {c}) /\ watching \cup {c} \in SUBSET Spectators
    BY <1>1, <1>5 DEF Join, Clients
  <2> QED BY <1>1, <1>3, <2>1, ChangeKeeps
<1> QED BY <1>4, <1>5

LEMMA LeaveKeeps ==
  ASSUME Inv, NEW c \in Clients, Leave(c)
  PROVE  Inv'
<1>1. playing \in Seq(Players) /\ IsInjective(playing) /\ watching \in SUBSET Spectators
  BY DEF Inv, TypeOK
<1>2. used.changes < MaxChanges /\ Use("changes") /\ UNCHANGED <<port, net>>
  BY DEF Leave
<1>3. ASSUME NEW i \in DOMAIN playing, Tell(RemoveAt(playing, i), watching)
      PROVE  Inv'
  <2>1. i \in 1 .. Len(playing)
    BY <1>1, LenProperties
  <2>2. RemoveAt(playing, i) \in Seq(Players) /\ IsInjective(RemoveAt(playing, i))
    BY <1>1, <2>1, RemoveInjective
  <2> QED BY <1>1, <1>2, <1>3, <2>2, ChangeKeeps
<1>4. ASSUME Tell(playing, watching \ {c})
      PROVE  Inv'
  <2>1. watching \ {c} \in SUBSET Spectators
    BY <1>1
  <2> QED BY <1>1, <1>2, <1>4, <2>1, ChangeKeeps
<1> QED BY <1>3, <1>4 DEF Leave

LEMMA RotateKeeps ==
  ASSUME Inv, NEW loser \in Seats, Rotate(loser)
  PROVE  Inv'
<1>1. playing \in Seq(Players) /\ IsInjective(playing) /\ watching \in SUBSET Spectators
  BY DEF Inv, TypeOK
<1>2. loser \in 1 .. Len(playing)
  BY <1>1 DEF Rotate, Seats
<1> DEFINE rest == RemoveAt(playing, loser)
<1>3. rest \in Seq(Players) /\ IsInjective(rest) /\ playing[loser] \notin Range(rest)
  BY <1>1, <1>2, RemoveInjective
<1>4. playing[loser] \in Players
  BY <1>1, <1>2, ElementOfSeq
<1> DEFINE turned == Append(rest, playing[loser])
<1>5. Tell(turned, watching) /\ turned = Append(rest, playing[loser])
  BY DEF Rotate
<1>6. used.changes < MaxChanges /\ Use("changes") /\ UNCHANGED <<port, net>>
  BY DEF Rotate
<1> HIDE DEF rest, turned
<1>7. turned \in Seq(Players) /\ IsInjective(turned)
  BY <1>3, <1>4, <1>5, NewPlaceInjective
<1> QED BY <1>1, <1>5, <1>6, <1>7, ChangeKeeps

LEMMA RoundKeeps ==
  ASSUME Inv, Round
  PROVE  Inv'
<1>1. playing \in Seq(Players) /\ IsInjective(playing) /\ watching \in SUBSET Spectators
  BY DEF Inv, TypeOK
<1>2. Tell(playing, watching) /\ UNCHANGED <<port, net, used>>
  BY DEF Round
<1> QED BY <1>1, <1>2, ChangeKeeps

LEMMA ReleaseKeeps ==
  ASSUME Inv, Release
  PROVE  Inv'
<1>1. <<>> \in Seq(Players) /\ IsInjective(<<>>)
  BY EmptySeq DEF IsInjective
<1>2. used' \in [changes : 0 .. MaxChanges, faults : 0 .. MaxFaults] /\ used'.faults = used.faults
  BY UseChanges DEF Release
<1>3. TypeOK'
  BY <1>1, <1>2 DEF Inv, TypeOK, Release
<1>4. PortsCounted'
  BY <1>2 DEF Inv, PortsCounted, Release
<1>5. SlotsApart' /\ EndsAllowed'
  BY DEF SlotsApart, EndsAllowed, Release
<1> QED BY <1>3, <1>4, <1>5 DEF Inv

LEMMA SendKeeps ==
  ASSUME Inv, NEW c \in Clients, NEW d \in Doors, Send(c, d)
  PROVE  Inv'
<1>1. [from |-> Here(c), door |-> d, probe |-> FALSE] \in Packet
  BY HereIsAddress DEF Inv, Packet
<1>2. net' \subseteq Packet
  BY <1>1 DEF Send, Inv, TypeOK
<1> QED BY <1>2 DEF Send, Inv, TypeOK, PortsCounted, SlotsApart, EndsAllowed

LEMMA StrayKeeps ==
  ASSUME Inv, NEW c \in Clients, Stray(c)
  PROVE  Inv'
<1>1. \A d \in Doors, probe \in BOOLEAN : [from |-> Here(c), door |-> d, probe |-> probe] \in Packet
  BY HereIsAddress DEF Inv, Packet
<1>2. net' \subseteq Packet
  BY <1>1 DEF Stray, Inv, TypeOK
<1>3. used' \in [changes : 0 .. MaxChanges, faults : 0 .. MaxFaults] /\ used'.faults = used.faults + 1
  BY UseFaults DEF Stray
<1>4. TypeOK'
  BY <1>2, <1>3 DEF Stray, Inv, TypeOK
<1>5. PortsCounted'
  <2>1. \A b \in Clients : port[b] \in Nat /\ port'[b] = port[b]
    BY DEF Stray, Inv, TypeOK
  <2>2. used.faults \in Nat
    BY DEF Inv, TypeOK
  <2> QED BY <1>3, <2>1, <2>2 DEF Inv, PortsCounted
<1> QED BY <1>4, <1>5 DEF Stray, Inv, SlotsApart, EndsAllowed

LEMMA RebindKeeps ==
  ASSUME Inv, NEW c \in Clients, Rebind(c)
  PROVE  Inv'
<1>1. used' \in [changes : 0 .. MaxChanges, faults : 0 .. MaxFaults] /\ used'.faults = used.faults + 1
  BY UseFaults DEF Rebind
<1>2. used.faults \in Nat /\ used.faults < MaxFaults /\ MaxFaults \in Nat
  BY RelayAssumption DEF Rebind, Inv, TypeOK
<1>3. \A b \in Clients : port[b] \in Nat /\ port[b] <= used.faults
  BY DEF Inv, TypeOK, PortsCounted
<1>4. port' = [port EXCEPT ![c] = port[c] + 1] /\ port \in [Clients -> 0 .. MaxFaults]
  BY DEF Rebind, Inv, TypeOK
<1>5. \A b \in Clients : port'[b] \in Nat /\ port'[b] <= used.faults + 1
  BY <1>2, <1>3, <1>4
<1>6. port' \in [Clients -> 0 .. MaxFaults]
  BY <1>2, <1>3, <1>4
<1>7. PortsCounted'
  BY <1>1, <1>5 DEF PortsCounted
<1>8. TypeOK'
  BY <1>1, <1>6 DEF Rebind, Inv, TypeOK
<1> QED BY <1>7, <1>8 DEF Rebind, Inv, SlotsApart, EndsAllowed

(* A packet is taken, at the relay or at the pipe.                         *)
LEMMA TakenKeeps ==
  ASSUME Inv, NEW p \in Packet, net' \subseteq Packet, AtRelay(p) \/ AtPipe(p)
  PROVE  Inv'
<1>0. p.from \in Address
  BY DEF Packet
<1>1. CASE AtRelay(p)
  <2>1. \/ eps' = eps
        \/ eps' = Learned(p.from)
    BY <1>1 DEF AtRelay
  <2>2. eps' \in [Seats -> {None} \cup Address]
    BY <1>0, <2>1, LearnedIsSound DEF Inv, TypeOK
  <2>3. SlotsApart'
    <3>1. players' = players
      BY <1>1 DEF AtRelay
    <3> QED BY <1>0, <2>1, <3>1, LearnedIsSound DEF Inv, SlotsApart
  <2>4. TypeOK'
    BY <1>1, <2>2 DEF AtRelay, Inv, TypeOK
  <2>5. PortsCounted' /\ EndsAllowed'
    BY <1>1 DEF AtRelay, Inv, PortsCounted, EndsAllowed
  <2> QED BY <2>3, <2>4, <2>5 DEF Inv
<1>2. CASE AtPipe(p)
  <2>1. /\ p.door \in Sides
        /\ \/ ends' = ends
           \/ ends' = [ends EXCEPT ![p.door] = p.from] /\ IpOf(p.from) \in Range(allowed)
    BY <1>2 DEF AtPipe
  <2>2. ends' \in [Sides -> {None} \cup Address]
    BY <1>0, <2>1 DEF Inv, TypeOK
  <2>3. EndsAllowed'
    <3>1. allowed' = allowed /\ ends \in [Sides -> {None} \cup Address]
      BY <1>2 DEF AtPipe, Inv, TypeOK
    <3>2. \A s \in Sides : ends'[s] = ends[s] \/ IpOf(ends'[s]) \in Range(allowed)
      BY <2>1, <3>1
    <3> QED BY <3>1, <3>2 DEF Inv, EndsAllowed
  <2>4. TypeOK'
    BY <1>2, <2>2 DEF AtPipe, Inv, TypeOK
  <2>5. PortsCounted' /\ SlotsApart'
    BY <1>2 DEF AtPipe, Inv, PortsCounted, SlotsApart
  <2> QED BY <2>3, <2>4, <2>5 DEF Inv
<1> QED BY <1>1, <1>2

LEMMA ReceiveKeeps ==
  ASSUME Inv, NEW p \in net, Lose(p) \/ Receive(p)
  PROVE  Inv'
<1>1. p \in Packet /\ net' \subseteq Packet
  BY DEF Inv, TypeOK, Lose, Receive
<1>2. CASE Lose(p)
  BY <1>1, <1>2 DEF Lose, Inv, TypeOK, PortsCounted, SlotsApart, EndsAllowed
<1>3. CASE Receive(p)
  BY <1>1, <1>3, TakenKeeps DEF Receive
<1> QED BY <1>2, <1>3

LEMMA ArriveKeeps ==
  ASSUME Inv, NEW c \in Clients, NEW d \in Doors, Arrive(c, d)
  PROVE  Inv'
<1> DEFINE p == [from |-> Here(c), door |-> d, probe |-> FALSE]
<1>1. p \in Packet
  BY HereIsAddress DEF Inv, Packet
<1>2. (AtRelay(p) \/ AtPipe(p)) /\ net' = net
  BY DEF Arrive
<1> HIDE DEF p
<1> QED BY <1>1, <1>2, TakenKeeps DEF Inv, TypeOK

LEMMA SlotTimeoutKeeps ==
  ASSUME Inv, NEW i \in Seats, SlotTimeout(i)
  PROVE  Inv'
<1>1. /\ used' \in [changes : 0 .. MaxChanges, faults : 0 .. MaxFaults]
      /\ used'.faults \in {used.faults, used.faults + 1}
  BY UseFaults DEF SlotTimeout, Inv, TypeOK
<1>2. TypeOK'
  BY <1>1 DEF SlotTimeout, Inv, TypeOK
<1>3. PortsCounted'
  <2>1. \A b \in Clients : port[b] \in Nat /\ port'[b] = port[b]
    BY DEF SlotTimeout, Inv, TypeOK
  <2>2. used.faults \in Nat
    BY DEF Inv, TypeOK
  <2> QED BY <1>1, <2>1, <2>2 DEF Inv, PortsCounted
<1>4. SlotsApart'
  <2>1. eps' = [eps EXCEPT ![i] = None] /\ players' = players /\ eps \in [Seats -> {None} \cup Address]
    BY DEF SlotTimeout, Inv, TypeOK
  <2>2. \A j \in Seats : 3 - j \in Seats
    BY DEF Seats
  <2> QED BY <2>1, <2>2 DEF Inv, SlotsApart
<1>5. EndsAllowed'
  BY DEF SlotTimeout, Inv, EndsAllowed
<1> QED BY <1>2, <1>3, <1>4, <1>5 DEF Inv

LEMMA EndTimeoutKeeps ==
  ASSUME Inv, NEW s \in Sides, EndTimeout(s)
  PROVE  Inv'
<1>1. /\ used' \in [changes : 0 .. MaxChanges, faults : 0 .. MaxFaults]
      /\ used'.faults \in {used.faults, used.faults + 1}
  BY UseFaults DEF EndTimeout, Inv, TypeOK
<1>2. TypeOK'
  BY <1>1 DEF EndTimeout, Inv, TypeOK
<1>3. PortsCounted'
  <2>1. \A b \in Clients : port[b] \in Nat /\ port'[b] = port[b]
    BY DEF EndTimeout, Inv, TypeOK
  <2>2. used.faults \in Nat
    BY DEF Inv, TypeOK
  <2> QED BY <1>1, <2>1, <2>2 DEF Inv, PortsCounted
<1>4. SlotsApart'
  BY DEF EndTimeout, Inv, SlotsApart
<1>5. EndsAllowed'
  <2>1. ends' = [ends EXCEPT ![s] = None] /\ allowed' = allowed /\ ends \in [Sides -> {None} \cup Address]
    BY DEF EndTimeout, Inv, TypeOK
  <2> QED BY <2>1 DEF Inv, EndsAllowed
<1> QED BY <1>2, <1>3, <1>4, <1>5 DEF Inv

LEMMA InvNext == Inv /\ [Next]_vars => Inv'
<1> SUFFICES ASSUME Inv, [Next]_vars PROVE Inv'
  OBVIOUS
<1>1. ASSUME NEW c \in Clients, Join(c) \/ Leave(c) \/ Stray(c) \/ Rebind(c) PROVE Inv'
  BY <1>1, JoinKeeps, LeaveKeeps, StrayKeeps, RebindKeeps
<1>2. ASSUME NEW c \in Clients, NEW d \in Doors, Send(c, d) \/ Arrive(c, d) PROVE Inv'
  BY <1>2, SendKeeps, ArriveKeeps
<1>3. ASSUME NEW i \in Seats, Rotate(i) \/ SlotTimeout(i) PROVE Inv'
  BY <1>3, RotateKeeps, SlotTimeoutKeeps
<1>4. ASSUME NEW s \in Sides, EndTimeout(s) PROVE Inv'
  BY <1>4, EndTimeoutKeeps
<1>5. ASSUME NEW p \in net, Lose(p) \/ Receive(p) PROVE Inv'
  BY <1>5, ReceiveKeeps
<1>6. CASE Release \/ Round
  BY <1>6, ReleaseKeeps, RoundKeeps
<1>7. CASE UNCHANGED vars
  BY <1>7 DEF vars, Inv, TypeOK, PortsCounted, SlotsApart, EndsAllowed
<1> QED BY <1>1, <1>2, <1>3, <1>4, <1>5, <1>6, <1>7 DEF Next

(* Every state the relay can get into satisfies the invariant.             *)
THEOREM InvCorrect == Spec => []Inv
<1>1. Init => Inv
  BY InvInit
<1>2. Inv /\ [Next]_vars => Inv'
  BY InvNext
<1> QED BY <1>1, <1>2, PTL DEF Spec

-----------------------------------------------------------------------------
(* The theorems.                                                           *)

(* Whoever joins, leaves, changes his port or falls silent, the tables of  *)
(* the relay and of the pipe hold addresses and IPs of clients, and the    *)
(* bounds of the model are kept.                                           *)
THEOREM TypeCorrect == Spec => []TypeOK
<1>1. Inv => TypeOK
  BY DEF Inv
<1> QED BY <1>1, InvCorrect, PTL

(* The two slots of the relay are two addresses, each of its own seat's    *)
(* IP, however many clients share an IP.                                   *)
THEOREM SlotsCorrect == Spec => []SlotsApart
<1>1. Inv => SlotsApart
  BY DEF Inv
<1> QED BY <1>1, InvCorrect, PTL

(* What the server sends on goes to somebody who is in the lobby, and only *)
(* an answer to a query to where it came from.                             *)
LEMMA OnwardInside ==
  ASSUME Inv
  PROVE  StaysInside
<1> SUFFICES ASSUME UpToDate, NEW p \in net, Onward(p) # None
             PROVE  /\ p.door = "relay" => (p.probe <=> Onward(p) = p.from)
                    /\ \E c \in Members : Ip[c] = IpOf(Onward(p))
  BY DEF StaysInside
<1>1. p.from \in Address /\ p.door \in Doors /\ p.probe \in BOOLEAN
  BY DEF Inv, TypeOK, Packet
<1>2. playing \in Seq(Players) /\ watching \in SUBSET Spectators
  BY DEF Inv, TypeOK
<1>3. ASSUME NEW ip \in Range(allowed) PROVE \E c \in Members : Ip[c] = ip
  BY <1>2, <1>3, MemberIpsRange DEF UpToDate, Members, Seated
<1>4. ASSUME NEW i \in Seats, players[i] # NoIp PROVE \E c \in Members : Ip[c] = players[i]
  BY <1>2, <1>4, SeatIpsType DEF UpToDate, Members, Seated
<1>5. CASE p.door \in Sides
  <2>1. Onward(p) = ends[OtherSide(p.door)]
    BY <1>5 DEF Onward
  <2>2. OtherSide(p.door) \in Sides
    BY DEF OtherSide, Sides
  <2>3. IpOf(Onward(p)) \in Range(allowed)
    BY <2>1, <2>2 DEF Inv, EndsAllowed
  <2>4. p.door # "relay"
    BY <1>5 DEF Sides
  <2> QED BY <1>3, <2>3, <2>4
<1>6. CASE p.door \notin Sides /\ p.probe
  <2>1. Onward(p) = p.from /\ IpOf(p.from) \in Range(players)
    BY <1>6 DEF Onward
  <2>2. PICK i \in Seats : players[i] = IpOf(p.from)
    BY <2>1 DEF Range, Inv, TypeOK
  <2>3. players[i] # NoIp
    BY <1>1, <2>2, IpOfAddress
  <2> QED BY <1>4, <1>6, <2>1, <2>2, <2>3
<1>7. CASE p.door \notin Sides /\ ~p.probe
  <2> DEFINE slots == Learned(p.from)
             i == CHOOSE j \in Seats : slots[j] = p.from
  <2>1. /\ slots \in [Seats -> {None} \cup Address]
        /\ \A j \in Seats : slots[j] # None => IpOf(slots[j]) = players[j] /\ slots[j] # slots[3 - j]
    BY <1>1, LearnedIsSound
  <2>2. p.from \in Range(slots) /\ Onward(p) = slots[3 - i]
    BY <1>7 DEF Onward
  <2> HIDE DEF slots
  <2>3. i \in Seats /\ slots[i] = p.from
    BY <2>1, <2>2 DEF Range
  <2> HIDE DEF i
  <2>4. 3 - i \in Seats /\ 3 - (3 - i) = i
    BY <2>3 DEF Seats
  <2>5. IpOf(slots[3 - i]) = players[3 - i] /\ slots[3 - i] # slots[i] /\ slots[3 - i] \in Address
    BY <2>1, <2>2, <2>4
  <2>6. players[3 - i] # NoIp
    BY <2>5, IpOfAddress
  <2> QED BY <1>4, <1>7, <2>2, <2>3, <2>4, <2>5, <2>6
<1> QED BY <1>5, <1>6, <1>7

(* Nobody outside the lobby is sent anything, for any number of clients,   *)
(* of shared IPs and of addresses a client has had.                        *)
THEOREM InsideCorrect == Spec => []StaysInside
<1>1. Inv => StaysInside
  BY OnwardInside
<1> QED BY <1>1, InvCorrect, PTL
=============================================================================
