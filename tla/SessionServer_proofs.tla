----------------------- MODULE SessionServer_proofs -----------------------
(***************************************************************************)
(* Theorems about SessionServer, for every value of its constants.         *)
(***************************************************************************)
EXTENDS SessionServer, FiniteSetTheorems, SequenceTheorems,
        WellFoundedInduction, TLAPS

-----------------------------------------------------------------------------
(* Sequences and numbers.                                                  *)

(* RemoveAt drops one place and moves the ones behind it up.               *)
LEMMA RemoveAtProperties ==
  ASSUME NEW S, NEW seq \in Seq(S), NEW i \in 1 .. Len(seq)
  PROVE  /\ RemoveAt(seq, i) \in Seq(S)
         /\ Len(RemoveAt(seq, i)) = Len(seq) - 1
         /\ \A j \in 1 .. Len(seq) - 1 :
              RemoveAt(seq, i)[j] = IF j < i THEN seq[j] ELSE seq[j + 1]
<1> DEFINE front == SubSeq(seq, 1, i - 1)
           back  == SubSeq(seq, i + 1, Len(seq))
<1>0. Len(seq) \in Nat /\ \A j \in 1 .. Len(seq) : seq[j] \in S
  BY LenProperties
<1>1. /\ front \in Seq(S) /\ Len(front) = i - 1
      /\ \A j \in 1 .. i - 1 : front[j] = seq[j]
  BY <1>0, SubSeqProperties
<1>2. /\ back \in Seq(S) /\ Len(back) = Len(seq) - i
      /\ \A j \in 1 .. Len(seq) - i : back[j] = seq[j + i]
  BY <1>0, SubSeqProperties
<1> HIDE DEF front, back
<1>3. /\ front \o back \in Seq(S)
      /\ Len(front \o back) = Len(front) + Len(back)
      /\ \A j \in 1 .. Len(front) + Len(back) :
           (front \o back)[j] = IF j <= Len(front) THEN front[j] ELSE back[j - Len(front)]
  BY <1>1, <1>2, ConcatProperties
<1>4. RemoveAt(seq, i) = front \o back
  BY DEF RemoveAt, front, back
<1>5. ASSUME NEW j \in 1 .. Len(seq) - 1
      PROVE  RemoveAt(seq, i)[j] = IF j < i THEN seq[j] ELSE seq[j + 1]
  <2>1. CASE j < i
    BY <2>1, <1>0, <1>1, <1>2, <1>3, <1>4
  <2>2. CASE j >= i
    <3>1. j - (i - 1) \in 1 .. Len(seq) - i /\ ~(j <= i - 1)
      BY <2>2, <1>0
    <3>2. RemoveAt(seq, i)[j] = back[j - (i - 1)]
      BY <3>1, <1>0, <1>1, <1>2, <1>3, <1>4
    <3>3. back[j - (i - 1)] = seq[j - (i - 1) + i]
      BY <3>1, <1>2
    <3> QED BY <3>1, <3>2, <3>3, <1>0
  <2> QED BY <2>1, <2>2, <1>0
<1>6. RemoveAt(seq, i) \in Seq(S)
  BY <1>3, <1>4
<1>7. Len(RemoveAt(seq, i)) = Len(seq) - 1
  <2>1. Len(front \o back) = Len(front) + Len(back)
    BY <1>3
  <2>2. i \in Int /\ Len(front) = i - 1 /\ Len(back) = Len(seq) - i /\ Len(seq) \in Nat
    BY <1>0, <1>1, <1>2
  <2> QED BY <2>1, <2>2, <1>4
<1> QED BY <1>5, <1>6, <1>7

(* InsertAt makes room for one element and moves the ones behind it down.  *)
LEMMA InsertAtProperties ==
  ASSUME NEW S, NEW seq \in Seq(S), NEW i \in 1 .. Len(seq) + 1, NEW e \in S
  PROVE  /\ InsertAt(seq, i, e) \in Seq(S)
         /\ Len(InsertAt(seq, i, e)) = Len(seq) + 1
         /\ \A j \in 1 .. Len(seq) + 1 :
              InsertAt(seq, i, e)[j] =
                IF j < i THEN seq[j] ELSE IF j = i THEN e ELSE seq[j - 1]
<1> DEFINE front == SubSeq(seq, 1, i - 1)
           back  == SubSeq(seq, i, Len(seq))
           mid   == front \o <<e>>
<1>0. Len(seq) \in Nat /\ \A j \in 1 .. Len(seq) : seq[j] \in S
  BY LenProperties
<1>1. /\ front \in Seq(S) /\ Len(front) = i - 1
      /\ \A j \in 1 .. i - 1 : front[j] = seq[j]
  BY <1>0, SubSeqProperties
<1>2. /\ back \in Seq(S) /\ Len(back) = Len(seq) - i + 1
      /\ \A j \in 1 .. Len(seq) - i + 1 : back[j] = seq[j + i - 1]
  BY <1>0, SubSeqProperties
<1>3. <<e>> \in Seq(S) /\ Len(<<e>>) = 1 /\ <<e>>[1] = e
  OBVIOUS
<1> HIDE DEF front, back
<1>4. /\ mid \in Seq(S) /\ Len(mid) = i
      /\ \A j \in 1 .. i : mid[j] = IF j < i THEN front[j] ELSE e
  BY <1>0, <1>1, <1>3, ConcatProperties
<1> HIDE DEF mid
<1>5. /\ mid \o back \in Seq(S)
      /\ Len(mid \o back) = Len(mid) + Len(back)
      /\ \A j \in 1 .. Len(mid) + Len(back) :
           (mid \o back)[j] = IF j <= Len(mid) THEN mid[j] ELSE back[j - Len(mid)]
  BY <1>2, <1>4, ConcatProperties
<1>6. InsertAt(seq, i, e) = mid \o back
  BY DEF InsertAt, front, back, mid
<1>7. ASSUME NEW j \in 1 .. Len(seq) + 1
      PROVE  InsertAt(seq, i, e)[j] =
               IF j < i THEN seq[j] ELSE IF j = i THEN e ELSE seq[j - 1]
  <2>1. CASE j <= i
    BY <2>1, <1>0, <1>1, <1>2, <1>4, <1>5, <1>6
  <2>2. CASE j > i
    <3>1. j - i \in 1 .. Len(seq) - i + 1 /\ ~(j <= i)
      BY <2>2, <1>0
    <3>2. InsertAt(seq, i, e)[j] = back[j - i]
      BY <3>1, <1>0, <1>2, <1>4, <1>5, <1>6
    <3>3. back[j - i] = seq[j - i + i - 1]
      BY <3>1, <1>2
    <3> QED BY <3>1, <3>2, <3>3, <1>0, <2>2
  <2> QED BY <2>1, <2>2, <1>0
<1>8. InsertAt(seq, i, e) \in Seq(S)
  BY <1>5, <1>6
<1>9. Len(InsertAt(seq, i, e)) = Len(seq) + 1
  BY <1>0, <1>2, <1>4, <1>5, <1>6
<1> QED BY <1>7, <1>8, <1>9

(* Every non-empty set of naturals has a least element.                    *)
LEMMA LeastNatural ==
  ASSUME NEW T \in SUBSET Nat, T # {}
  PROVE  \E x \in T : \A y \in T : x <= y
<1> DEFINE R == OpToRel(<, Nat)
<1>1. IsWellFoundedOn(R, Nat)
  BY NatLessThanWellFounded
<1>2. \A x, y \in Nat : <<y, x>> \in R <=> y < x
  BY DEF OpToRel
<1> HIDE DEF R
<1>3. PICK x \in T : \A y \in T : ~(<<y, x>> \in R)
  BY <1>1, WFMin
<1>4. ASSUME NEW y \in T PROVE x <= y
  <2>1. x \in Nat /\ y \in Nat /\ ~(<<y, x>> \in R)
    BY <1>3
  <2>2. ~(y < x)
    BY <1>2, <2>1
  <2> QED BY <2>1, <2>2
<1> QED BY <1>4

-----------------------------------------------------------------------------
(* Members, seats and slots.                                               *)

(* The players are some of the members.                                    *)
LEMMA PlayerCountType ==
  ASSUME clients \in Seq(Conns)
  PROVE  PlayerCount \in 0 .. Len(clients)
<1> DEFINE places == {i \in 1 .. Len(clients) : ~member[clients[i]].spectator}
<1>1. Len(clients) \in Nat
  BY LenProperties
<1>2. IsFiniteSet(1 .. Len(clients)) /\ Cardinality(1 .. Len(clients)) = Len(clients)
  BY <1>1, FS_Interval
<1>3. places \in SUBSET (1 .. Len(clients))
  OBVIOUS
<1>4. IsFiniteSet(places) /\ Cardinality(places) <= Len(clients)
  BY <1>2, <1>3, FS_Subset
<1>5. Cardinality(places) \in Nat
  BY <1>4, FS_CardinalityType
<1> QED BY <1>1, <1>4, <1>5 DEF PlayerCount

(* A member has a place.                                                   *)
LEMMA PlaceOfMember ==
  ASSUME NEW c, IsMember(c)
  PROVE  PlaceOf(c) \in 1 .. Len(clients) /\ clients[PlaceOf(c)] = c
BY DEF IsMember, Members, PlaceOf

(* There is always a pipe for one more spectator, and the lowest is the    *)
(* one it gets: n members cannot hold n + 1 slots.                         *)
LEMMA LowestFreeSlotIsFree ==
  ASSUME clients \in Seq(Conns)
  PROVE  /\ LowestFreeSlot \in 0 .. Len(clients)
         /\ \A d \in Members : member[d].slot # LowestFreeSlot
         /\ \A j \in 0 .. LowestFreeSlot - 1 : \E d \in Members : member[d].slot = j
<1> DEFINE n == Len(clients)
           Free(k) == \A d \in Members : member[d].slot # k
           free == {k \in 0 .. n : Free(k)}
           holder == [k \in 0 .. n |-> CHOOSE i \in 1 .. n : member[clients[i]].slot = k]
<1>0. n \in Nat
  BY LenProperties
<1>1. free # {}
  <2> SUFFICES ASSUME free = {} PROVE FALSE
    OBVIOUS
  <2>1. \A k \in 0 .. n : \E i \in 1 .. n : member[clients[i]].slot = k
    BY DEF Members
  <2>2. \A k \in 0 .. n : holder[k] \in 1 .. n /\ member[clients[holder[k]]].slot = k
    BY <2>1
  <2>3. holder \in [0 .. n -> 1 .. n]
    BY <2>2
  <2> HIDE DEF holder, n
  <2>4. IsFiniteSet(0 .. n) /\ Cardinality(0 .. n) = n + 1
    <3>1. IsFiniteSet(0 .. n) /\ Cardinality(0 .. n) = IF 0 > n THEN 0 ELSE n - 0 + 1
      BY <1>0, FS_Interval
    <3> QED BY <1>0, <3>1
  <2>5. IsFiniteSet(1 .. n) /\ Cardinality(1 .. n) = n
    <3>1. IsFiniteSet(1 .. n) /\ Cardinality(1 .. n) = IF 1 > n THEN 0 ELSE n - 1 + 1
      BY <1>0, FS_Interval
    <3> QED BY <1>0, <3>1
  <2>6. Cardinality(1 .. n) < Cardinality(0 .. n)
    BY <1>0, <2>4, <2>5
  <2>7. \E x, y \in 0 .. n : x # y /\ holder[x] = holder[y]
    <3> DEFINE from == 0 .. n
               to == 1 .. n
    <3>1. /\ IsFiniteSet(from) /\ IsFiniteSet(to) /\ Cardinality(to) < Cardinality(from)
          /\ holder \in [from -> to]
      BY <2>3, <2>4, <2>5, <2>6
    <3> HIDE DEF from, to
    <3>2. \E x, y \in from : x # y /\ holder[x] = holder[y]
      BY <3>1, FS_PigeonHole
    <3> QED BY <3>2 DEF from
  <2> QED BY <2>2, <2>7
<1>2. PICK k \in free : \A j \in free : k <= j
  <2>1. free \in SUBSET Nat
    BY <1>0
  <2> HIDE DEF free
  <2> QED BY <1>1, <2>1, LeastNatural
<1>3. k \in 0 .. n /\ Free(k) /\ \A j \in 0 .. k - 1 : \E d \in Members : member[d].slot = j
  BY <1>0, <1>2
<1> QED BY <1>3 DEF LowestFreeSlot
-----------------------------------------------------------------------------
(* Types.                                                                  *)

(* The shared delay is one the game supports, whatever was asked for.      *)
LEMMA SharedInputDelayRange ==
  ASSUME NEW reqs \in [Sides -> ReadyRequest]
  PROVE  SharedInputDelay(reqs) \in 1 .. INPUT_DELAY_MAX
<1> DEFINE rtt == MeasuredRoundTripMs(reqs)
           automatic == InputDelayForRoundTrip(rtt)
<1>1. \A s \in Sides : /\ reqs[s].inputDelay \in Int /\ reqs[s].serverPingMs \in Int
                        /\ reqs[s].directRoundTripMs \in Int
  BY DEF ReadyRequest
<1>2. rtt \in Int
  BY <1>1 DEF MeasuredRoundTripMs, Larger, Sides
<1>3. automatic \in 1 .. 5
  <2> HIDE DEF rtt
  <2> QED BY <1>2 DEF InputDelayForRoundTrip, INPUT_DELAY_DEFAULT
<1> HIDE DEF automatic
<1>4. ASSUME NEW s \in Sides
      PROVE  ChosenDelay(reqs[s], automatic) \in 1 .. INPUT_DELAY_MAX
  <2> DEFINE asked == reqs[s].inputDelay
  <2>1. asked \in Int
    BY <1>1
  <2> HIDE DEF asked
  <2>2. (IF asked <= 0 THEN automatic ELSE asked) \in Nat \ {0}
    BY <1>3, <2>1
  <2> QED BY <2>2 DEF ChosenDelay, Smaller, INPUT_DELAY_AUTO, INPUT_DELAY_MAX, asked
<1> QED BY <1>4 DEF SharedInputDelay, Larger, Sides, automatic

LEMMA TypeInit == Init => TypeOK
<1> SUFFICES ASSUME Init PROVE TypeOK
  OBVIOUS
<1>1. NoMember \in MemberRecord
  BY DEF NoMember, MemberRecord, Phases
<1>2. ClearMatchData(Nobody) \in MatchDataOf(Conns \cup {Nobody}, Charas, Stages, Seeds)
  BY DEF ClearMatchData, MatchDataOf, NoDelay
<1>3. clients \in Seq(Conns)
  BY EmptySeq DEF Init
<1>4. desyncReports \in 0 .. MaxDesyncReports
  BY ServerAssumption DEF Init
<1>5. NoRequest \in ReadyRequest
  BY DEF NoRequest, ReadyRequest, NoDelay
<1> QED BY <1>1, <1>2, <1>3, <1>4, <1>5 DEF Init, TypeOK, Silence

(* What the actions that hand the lobby over leave behind.                 *)
LEMMA TypeEmptyLobby ==
  ASSUME TypeOK, EmptyLobby, joinSecret' \in Secrets \cup {NoSecret}, drawn' \subseteq Secrets
  PROVE  TypeOK'
<1>1. NoMember \in MemberRecord
  BY DEF NoMember, MemberRecord, Phases
<1>2. ClearMatchData(Nobody) \in MatchDataOf(Conns \cup {Nobody}, Charas, Stages, Seeds)
  BY DEF ClearMatchData, MatchDataOf, NoDelay
<1>3. <<>> \in Seq(Conns)
  BY EmptySeq
<1>4. 0 \in 0 .. MaxDesyncReports
  BY ServerAssumption
<1> QED BY <1>1, <1>2, <1>3, <1>4 DEF EmptyLobby, TypeOK, Silence, stepVars

(* Where a result puts the members stays a sequence of connections.        *)
LEMMA RotateType ==
  ASSUME TypeOK, NEW loser \in Sides, Rotate(loser)
  PROVE  /\ clients' \in Seq(Conns)
         /\ matchData' \in MatchDataOf(Conns \cup {Nobody}, Charas, Stages, Seeds)
         /\ charaOwner' \in [Sides -> Conns \cup {Nobody}]
<1> DEFINE n == PlayerCount
<1>1. clients \in Seq(Conns) /\ Len(clients) \in Nat /\ n \in 0 .. Len(clients)
  BY PlayerCountType, LenProperties DEF TypeOK
<1>2. \A s \in Sides : Other(s) \in Sides
  BY DEF Sides, Other
<1> HIDE DEF n
<1>3. matchData' \in MatchDataOf(Conns \cup {Nobody}, Charas, Stages, Seeds)
  <2>1. [s \in Sides |-> matchData.chara[Other(s)]] \in [Sides -> Charas \cup {ZeroChara}]
    BY <1>2 DEF TypeOK, MatchDataOf
  <2>2. [s \in Sides |-> Nobody] \in [Sides -> Conns \cup {Nobody}]
    OBVIOUS
  <2>3. \E f \in [Sides -> Charas \cup {ZeroChara}] :
          matchData' = [matchData EXCEPT !.chara = f, !.ready = [s \in Sides |-> Nobody]]
    BY <2>1 DEF Rotate, TypeOK, MatchDataOf
  <2> QED BY <2>2, <2>3 DEF TypeOK, MatchDataOf
<1>4. charaOwner' \in [Sides -> Conns \cup {Nobody}]
  BY <1>2 DEF Rotate, TypeOK
<1>5. CASE loser < n /\ n > 1
  <2>1. loser + 1 \in 1 .. Len(clients) /\ n \in 1 .. Len(clients)
    BY <1>1, <1>5 DEF Sides
  <2>2. clients[loser + 1] \in Conns
    BY <1>1, <2>1, ElementOfSeq
  <2> DEFINE rest == RemoveAt(clients, loser + 1)
  <2>3. rest \in Seq(Conns) /\ Len(rest) = Len(clients) - 1
    BY <1>1, <2>1, RemoveAtProperties
  <2> HIDE DEF rest
  <2>4. n \in 1 .. Len(rest) + 1
    BY <1>1, <2>1, <2>3
  <2>5. InsertAt(rest, n, clients[loser + 1]) \in Seq(Conns)
    BY <2>2, <2>3, <2>4, InsertAtProperties
  <2>6. clients' = InsertAt(rest, n, clients[loser + 1])
    BY <1>5 DEF Rotate, rest, n
  <2> QED BY <1>3, <1>4, <2>5, <2>6
<1>6. CASE ~(loser < n /\ n > 1)
  <2>1. clients' = clients
    BY <1>6 DEF Rotate, n
  <2> QED BY <1>1, <1>3, <1>4, <2>1
<1> QED BY <1>5, <1>6

(* A newcomer goes in behind the players or last.                          *)
LEMMA JoinType ==
  ASSUME TypeOK, NEW c \in Conns, NEW spectator \in BOOLEAN,
         NEW secret \in Secrets \cup {NoSecret}, Join(c, spectator, secret)
  PROVE  clients' \in Seq(Conns) /\ member' \in [Conns -> MemberRecord]
<1>1. clients \in Seq(Conns) /\ Len(clients) \in Nat /\ PlayerCount \in 0 .. Len(clients)
  BY PlayerCountType, LenProperties DEF TypeOK
<1>2. Append(clients, c) \in Seq(Conns)
  BY <1>1, AppendProperties
<1>3. PlayerCount + 1 \in 1 .. Len(clients) + 1
  BY <1>1
<1>4. InsertAt(clients, PlayerCount + 1, c) \in Seq(Conns)
  BY <1>1, <1>3, InsertAtProperties
<1>5. LowestFreeSlot \in Nat
  BY <1>1, LowestFreeSlotIsFree
<1>6. NewMember(spectator, secret) \in MemberRecord
  BY <1>5 DEF NewMember, NoMember, MemberRecord, Phases
<1> QED BY <1>2, <1>4, <1>6 DEF Join, TakePlace, TypeOK

(* The members and the clients' own fields through the end of a Step.      *)
LEMMA KeptType ==
  ASSUME TypeOK
  PROVE  /\ KeptMatch \in MatchDataOf(Conns \cup {Nobody}, Charas, Stages, Seeds)
         /\ Called \in [Conns -> MemberRecord]
<1>1. KeptMatch \in MatchDataOf(Conns \cup {Nobody}, Charas, Stages, Seeds)
  BY DEF KeptMatch, TypeOK, MatchDataOf
<1>2. Called \in [Conns -> MemberRecord]
  <2>1. ASSUME NEW c \in Conns PROVE Called[c] \in MemberRecord
    <3>1. member[c] \in MemberRecord
      BY DEF TypeOK
    <3>2. CASE IsMember(c)
      BY <3>1, <3>2 DEF Called, MemberRecord, Phases
    <3>3. CASE ~IsMember(c)
      BY <3>1, <3>3 DEF Called
    <3> QED BY <3>2, <3>3
  <2> QED BY <2>1 DEF Called
<1> QED BY <1>1, <1>2

(* Two paired players hold one another.                                    *)
LEMMA PairedType ==
  ASSUME TypeOK, NEW members, PairDue(members)
  PROVE  Paired \in [Conns -> Conns \cup {Nobody}]
<1>1. clients \in Seq(Conns) /\ Len(clients) \in Nat /\ PlayerCount \in 0 .. Len(clients)
  BY PlayerCountType, LenProperties DEF TypeOK
<1>2. 1 \in 1 .. Len(clients) /\ 2 \in 1 .. Len(clients)
  BY <1>1 DEF PairDue, MaxPlayers
<1>3. clients[1] \in Conns /\ clients[2] \in Conns
  BY <1>1, <1>2, ElementOfSeq
<1> QED BY <1>3 DEF Paired, TypeOK

(* Changing one member's own fields.                                       *)
LEMMA MemberFields ==
  ASSUME NEW m \in MemberRecord
  PROVE  /\ \A p \in Phases : [m EXCEPT !.phase = p] \in MemberRecord
         /\ \A p \in Phases, k \in Charas : [m EXCEPT !.phase = p, !.picked = k] \in MemberRecord
         /\ \A b \in BOOLEAN, p \in Phases : [m EXCEPT !.loaded = b, !.phase = p] \in MemberRecord
         /\ \A b \in BOOLEAN, p \in Phases : [m EXCEPT !.watching = b, !.phase = p] \in MemberRecord
         /\ \A b \in BOOLEAN : [m EXCEPT !.loaded = b] \in MemberRecord
         /\ \A b \in BOOLEAN : [m EXCEPT !.offered = b] \in MemberRecord
BY DEF MemberRecord

(* Every action keeps the types.                                           *)
LEMMA TypeNext == TypeOK /\ [Next]_vars => TypeOK'
<1> SUFFICES ASSUME TypeOK, [Next]_vars PROVE TypeOK'
  OBVIOUS
<1> USE DEF Silence, ToOne, ToOthers, lobbyVars, matchVars, netVars, gateVars, stepVars
<1>1. ASSUME NEW c \in Conns, Connect(c) PROVE TypeOK'
  BY <1>1 DEF Connect, TypeOK
<1>2. ASSUME NEW c \in Conns, Close(c) PROVE TypeOK'
  <2>1. clients' \in Seq(Conns)
    <3>1. CASE IsMember(c)
      <4>1. RemoveAt(clients, PlaceOf(c)) \in Seq(Conns)
        BY <3>1, PlaceOfMember, RemoveAtProperties DEF TypeOK
      <4> QED BY <1>2, <3>1, <4>1 DEF Close
    <3>2. CASE ~IsMember(c)
      BY <1>2, <3>2 DEF Close, TypeOK
    <3> QED BY <3>1, <3>2
  <2>2. NoMember \in MemberRecord
    BY DEF NoMember, MemberRecord, Phases
  <2> QED BY <1>2, <2>1, <2>2 DEF Close, TypeOK
<1>3. ASSUME NEW secret \in Secrets, NEW c \in Conns, Assign(secret, BuildOf[c]) PROVE TypeOK'
  BY <1>3, TypeEmptyLobby DEF Assign, TypeOK
<1>4. CASE Release
  BY <1>4, TypeEmptyLobby DEF Release, TypeOK
<1>5. ASSUME NEW c \in Conns, Hello(c) PROVE TypeOK'
  BY <1>5 DEF Hello, TypeOK
<1>6. ASSUME NEW c \in Conns, NEW spectator \in BOOLEAN, NEW secret \in Secrets \cup {NoSecret},
             JoinReq(c, spectator, secret)
      PROVE  TypeOK'
  <2>1. clients' \in Seq(Conns) /\ member' \in [Conns -> MemberRecord]
    BY <1>6, JoinType DEF JoinReq, TypeOK
  <2>2. directExchanged' \in BOOLEAN /\ dataDirty' \in BOOLEAN /\ DOMAIN out' = Conns
    BY <1>6 DEF JoinReq, Join, TakePlace, TypeOK
  <2> QED BY <1>6, <2>1, <2>2 DEF JoinReq, TypeOK
<1>7. ASSUME NEW c \in Conns, NEW chara \in Charas, SetChara(c, chara) PROVE TypeOK'
  <2>1. matchData' \in MatchDataOf(Conns \cup {Nobody}, Charas, Stages, Seeds)
    BY <1>7 DEF SetChara, TypeOK, MatchDataOf
  <2>2. charaOwner' \in [Sides -> Conns \cup {Nobody}]
    BY <1>7 DEF SetChara, TypeOK
  <2>3. member' \in [Conns -> MemberRecord]
    <3>1. [member[c] EXCEPT !.phase = "waiting", !.picked = chara] \in MemberRecord
      BY MemberFields DEF TypeOK, Phases
    <3>2. member' = [member EXCEPT ![c] = [member[c] EXCEPT !.phase = "waiting", !.picked = chara]]
      BY <1>7 DEF SetChara, TypeOK
    <3> QED BY <3>1, <3>2 DEF TypeOK
  <2> QED BY <1>7, <2>1, <2>2, <2>3 DEF SetChara, TypeOK
<1>8. ASSUME NEW c \in Conns, NEW seed \in Seeds, SetEnv(c, seed) PROVE TypeOK'
  <2>1. matchData' \in MatchDataOf(Conns \cup {Nobody}, Charas, Stages, Seeds)
    BY <1>8 DEF SetEnv, SetPreBattle, TypeOK, MatchDataOf
  <2> QED BY <1>8, <2>1 DEF SetEnv, SetPreBattle, TypeOK
<1>9. ASSUME NEW c \in Conns, NEW stage \in Stages, SetStage(c, stage) PROVE TypeOK'
  <2>1. matchData' \in MatchDataOf(Conns \cup {Nobody}, Charas, Stages, Seeds)
    BY <1>9 DEF SetStage, SetPreBattle, TypeOK, MatchDataOf
  <2> QED BY <1>9, <2>1 DEF SetStage, SetPreBattle, TypeOK
<1>10. ASSUME NEW c \in Conns, NEW req \in RequestsOf[c], Ready(c, req) PROVE TypeOK'
  <2> DEFINE ready == [matchData.ready EXCEPT ![SideOf(c)] = c]
             reqs  == [readyRequest EXCEPT ![SideOf(c)] = req]
             all   == \A s \in Sides : ready[s] # Nobody
             delay == IF all THEN [s \in Sides |-> SharedInputDelay(reqs)]
                             ELSE [matchData.inputDelay EXCEPT ![SideOf(c)] = req.inputDelay]
  <2>1. req \in ReadyRequest
    BY ServerAssumption
  <2>2. reqs \in [Sides -> ReadyRequest]
    BY <2>1 DEF TypeOK
  <2>3. delay \in [Sides -> Int]
    <3>1. SharedInputDelay(reqs) \in Int
      <4> HIDE DEF reqs
      <4> QED BY <2>2, SharedInputDelayRange DEF INPUT_DELAY_MAX
    <3>2. matchData.inputDelay \in [Sides -> Int] /\ req.inputDelay \in Int
      BY <2>1 DEF TypeOK, MatchDataOf, ReadyRequest
    <3> HIDE DEF reqs, all
    <3> QED BY <3>1, <3>2
  <2>4. ready \in [Sides -> Conns \cup {Nobody}]
    BY DEF TypeOK, MatchDataOf
  <2>5. /\ matchData' = [matchData EXCEPT !.ready = ready, !.inputDelay = delay]
        /\ readyRequest' = reqs
        /\ allReadyDue' \in BOOLEAN
    BY <1>10 DEF Ready, TypeOK, MatchDataOf
  <2> HIDE DEF ready, reqs, all, delay
  <2>6. matchData' \in MatchDataOf(Conns \cup {Nobody}, Charas, Stages, Seeds)
    BY <2>3, <2>4, <2>5 DEF TypeOK, MatchDataOf
  <2> QED BY <1>10, <2>2, <2>5, <2>6 DEF Ready, TypeOK
<1>11. ASSUME NEW c \in Conns, Unready(c) PROVE TypeOK'
  <2>1. NoRequest \in ReadyRequest /\ NoDelay \in Int
    BY DEF NoRequest, ReadyRequest, NoDelay
  <2>4. member' \in [Conns -> MemberRecord]
    <3>1. [member[c] EXCEPT !.phase = "lobby"] \in MemberRecord
      BY MemberFields DEF TypeOK, Phases
    <3>2. member' = [member EXCEPT ![c] = [member[c] EXCEPT !.phase = "lobby"]]
      BY <1>11 DEF Unready, TypeOK
    <3> QED BY <3>1, <3>2 DEF TypeOK
  <2>2. CASE IsAllReady(matchData, Nobody)
    <3>1. UNCHANGED <<matchData, readyRequest, dataDirty>>
      BY <1>11, <2>2 DEF Unready
    <3> QED BY <1>11, <2>4, <3>1 DEF Unready, TypeOK
  <2>3. CASE ~IsAllReady(matchData, Nobody)
    <3>1. /\ matchData' = [matchData EXCEPT !.ready[SideOf(c)] = Nobody,
                                            !.inputDelay[SideOf(c)] = NoDelay]
          /\ readyRequest' = [readyRequest EXCEPT ![SideOf(c)] = NoRequest]
          /\ dataDirty' = TRUE
      BY <1>11, <2>3 DEF Unready
    <3>2. [matchData.ready EXCEPT ![SideOf(c)] = Nobody] \in [Sides -> Conns \cup {Nobody}]
      BY DEF TypeOK, MatchDataOf
    <3>3. [matchData.inputDelay EXCEPT ![SideOf(c)] = NoDelay] \in [Sides -> Int]
      BY <2>1 DEF TypeOK, MatchDataOf
    <3>4. matchData' \in MatchDataOf(Conns \cup {Nobody}, Charas, Stages, Seeds)
      BY <3>1, <3>2, <3>3 DEF TypeOK, MatchDataOf
    <3>5. readyRequest' \in [Sides -> ReadyRequest]
      BY <2>1, <3>1 DEF TypeOK
    <3> QED BY <1>11, <2>4, <3>1, <3>4, <3>5 DEF Unready, TypeOK
  <2> QED BY <2>2, <2>3
<1>12. ASSUME NEW c \in Conns, BattleLoaded(c) PROVE TypeOK'
  <2>1. member' \in [Conns -> MemberRecord]
    <3>1. [member[c] EXCEPT !.loaded = TRUE, !.phase = "fighting"] \in MemberRecord
      BY MemberFields DEF TypeOK, Phases
    <3>2. member' = [member EXCEPT ![c] = [member[c] EXCEPT !.loaded = TRUE, !.phase = "fighting"]]
      BY <1>12 DEF BattleLoaded, TypeOK
    <3> QED BY <3>1, <3>2 DEF TypeOK
  <2>2. syncedDue' \in BOOLEAN
    BY <1>12 DEF BattleLoaded
  <2> QED BY <1>12, <2>1, <2>2 DEF BattleLoaded, TypeOK
<1>13. ASSUME NEW c \in Conns, Return(c) PROVE TypeOK'
  <2>1. PICK p \in Phases : member' = [member EXCEPT ![c] = [member[c] EXCEPT !.phase = p]]
    BY <1>13 DEF Return, TypeOK, Phases
  <2>2. [member[c] EXCEPT !.phase = p] \in MemberRecord
    BY MemberFields DEF TypeOK
  <2> QED BY <1>13, <2>1, <2>2 DEF Return, TypeOK
<1>14. ASSUME NEW c \in Conns, NEW loser \in Sides, ReportResults(c, loser) PROVE TypeOK'
  <2>1. member' \in [Conns -> MemberRecord]
    <3>1. ASSUME NEW d \in Conns PROVE member'[d] \in MemberRecord
      <4> DEFINE p == IF d = c THEN "lobby" ELSE member[d].phase
      <4>1. member'[d] = [member[d] EXCEPT !.watching = FALSE, !.phase = p]
        BY <1>14 DEF ReportResults
      <4>2. member[d] \in MemberRecord
        BY DEF TypeOK
      <4>3. p \in Phases
        BY <4>2 DEF MemberRecord, Phases
      <4> HIDE DEF p
      <4> QED BY <4>1, <4>2, <4>3, MemberFields
    <3> QED BY <1>14, <3>1 DEF ReportResults
  <2>2. Rotate(loser)
    BY <1>14 DEF ReportResults
  <2> QED BY <1>14, <2>1, <2>2, RotateType DEF ReportResults, TypeOK
<1>15. ASSUME NEW c \in Conns, SnapshotMsg(c) PROVE TypeOK'
  BY <1>15 DEF SnapshotMsg, TypeOK
<1>16. ASSUME NEW c \in Conns, ReportDesync(c) PROVE TypeOK'
  BY <1>16, ServerAssumption DEF ReportDesync, ReportUpTo, TypeOK
<1>17. ASSUME NEW c \in Conns, DirectOffer(c) PROVE TypeOK'
  <2>1. member' \in [Conns -> MemberRecord]
    <3>1. [member[c] EXCEPT !.offered = TRUE] \in MemberRecord
      BY MemberFields DEF TypeOK, Phases
    <3>2. member' = [member EXCEPT ![c] = [member[c] EXCEPT !.offered = TRUE]]
      BY <1>17 DEF DirectOffer, Offer, Unpaired, TypeOK
    <3> QED BY <3>1, <3>2 DEF TypeOK
  <2>2. peer' \in [Conns -> Conns \cup {Nobody}] /\ directExchanged' \in BOOLEAN
    BY <1>17, PairedType DEF DirectOffer, Offer, Unpaired, TypeOK
  <2>3. DOMAIN out' = Conns
    BY <1>17 DEF DirectOffer, Offer, Unpaired, PairMessages
  <2> QED BY <1>17, <2>1, <2>2, <2>3 DEF DirectOffer, Offer, Unpaired, TypeOK
<1>18. ASSUME NEW c \in Conns, Forward(c) PROVE TypeOK'
  BY <1>18 DEF Forward, TypeOK
<1>19. CASE FinishStep
  <2>1. /\ matchData' \in MatchDataOf(Conns \cup {Nobody}, Charas, Stages, Seeds)
        /\ member' \in [Conns -> MemberRecord]
    BY <1>19, KeptType DEF FinishStep, TypeOK
  <2>2. charaOwner' \in [Sides -> Conns \cup {Nobody}]
    BY <1>19 DEF FinishStep, TypeOK
  <2>3. peer' \in [Conns -> Conns \cup {Nobody}]
    BY <1>19, PairedType DEF FinishStep, TypeOK
  <2>4. directExchanged' \in BOOLEAN
    BY <1>19 DEF FinishStep
  <2>5. DOMAIN told' = Conns /\ DOMAIN out' = Conns
    BY <1>19 DEF FinishStep
  <2> QED BY <1>19, <2>1, <2>2, <2>3, <2>4, <2>5 DEF FinishStep, TypeOK
<1>20. CASE ResetBattleSync
  <2>1. member' \in [Conns -> MemberRecord]
    <3>1. \A d \in Conns : [member[d] EXCEPT !.loaded = FALSE] \in MemberRecord
      BY MemberFields DEF TypeOK
    <3> QED BY <1>20, <3>1 DEF ResetBattleSync
  <2> QED BY <1>20, <2>1 DEF ResetBattleSync, TypeOK
<1>21. CASE UNCHANGED vars
  BY <1>21 DEF vars, TypeOK
<1> QED
  BY <1>1, <1>2, <1>3, <1>4, <1>5, <1>6, <1>7, <1>8, <1>9, <1>10, <1>11, <1>12, <1>13, <1>14,
     <1>15, <1>16, <1>17, <1>18, <1>19, <1>20, <1>21 DEF Next, Owner, Handle

(* Every state the server reaches is well typed.                           *)
THEOREM TypeCorrect == Spec => []TypeOK
<1> QED BY TypeInit, TypeNext, PTL DEF Spec

-----------------------------------------------------------------------------
(* The shared delay.                                                       *)

(* Only the READY that completes the pair, and what takes a ready flag     *)
(* away, matter to the delay.                                              *)
LEMMA DelayNext == TypeOK /\ DelayAgreed /\ [Next]_vars => DelayAgreed'
<1> SUFFICES ASSUME TypeOK, DelayAgreed, [Next]_vars PROVE DelayAgreed'
  OBVIOUS
<1> USE DEF DelayAgreed, IsAllReady
<1>1. CASE UNCHANGED <<matchData.ready, matchData.inputDelay>>
  BY <1>1
<1>2. ASSUME NEW c \in Conns, NEW req \in RequestsOf[c], Ready(c, req) PROVE DelayAgreed'
  <2> DEFINE ready == [matchData.ready EXCEPT ![SideOf(c)] = c]
             reqs  == [readyRequest EXCEPT ![SideOf(c)] = req]
             all   == \A s \in Sides : ready[s] # Nobody
  <2>1. matchData'.ready = ready
    BY <1>2 DEF Ready, TypeOK, MatchDataOf
  <2>2. all => matchData'.inputDelay = [s \in Sides |-> SharedInputDelay(reqs)]
    BY <1>2 DEF Ready, TypeOK, MatchDataOf
  <2>3. reqs \in [Sides -> ReadyRequest]
    BY ServerAssumption DEF TypeOK
  <2> HIDE DEF reqs, ready
  <2>4. SharedInputDelay(reqs) \in 1 .. INPUT_DELAY_MAX
    BY <2>3, SharedInputDelayRange
  <2> QED BY <2>1, <2>2, <2>4 DEF Sides
<1>3. ASSUME NEW c \in Conns, Unready(c) PROVE DelayAgreed'
  <2>1. CASE UNCHANGED matchData
    BY <2>1
  <2>2. CASE /\ ~IsAllReady(matchData, Nobody)
             /\ matchData' = [matchData EXCEPT !.ready[SideOf(c)] = Nobody,
                                               !.inputDelay[SideOf(c)] = NoDelay]
    BY <2>2 DEF TypeOK, MatchDataOf
  <2> QED BY <1>3, <2>1, <2>2 DEF Unready
<1>4. CASE EmptyLobby
  BY <1>4 DEF EmptyLobby, ClearMatchData, Sides
<1>5. ASSUME NEW loser \in Sides, Rotate(loser) PROVE DelayAgreed'
  <2>1. matchData'.ready = [s \in Sides |-> Nobody]
    BY <1>5 DEF Rotate, TypeOK, MatchDataOf
  <2> QED BY <2>1 DEF Sides
<1>6. CASE FinishStep
  <2>1. matchData' = KeptMatch
    BY <1>6 DEF FinishStep
  <2>2. /\ matchData'.inputDelay = matchData.inputDelay
        /\ \A s \in Sides : matchData'.ready[s] # Nobody => matchData.ready[s] # Nobody
    BY <2>1 DEF KeptMatch, TypeOK, MatchDataOf
  <2> QED BY <2>2
<1>7. ASSUME NEW c \in Conns,
             \/ \E chara \in Charas : SetChara(c, chara)
             \/ \E seed \in Seeds : SetEnv(c, seed)
             \/ \E stage \in Stages : SetStage(c, stage)
      PROVE  DelayAgreed'
  <2>1. UNCHANGED <<matchData.ready, matchData.inputDelay>>
    BY <1>7 DEF SetChara, SetEnv, SetStage, SetPreBattle, TypeOK, MatchDataOf
  <2> QED BY <1>1, <2>1
<1>8. ASSUME NEW c \in Conns,
             \/ Connect(c) \/ Close(c) \/ Hello(c) \/ BattleLoaded(c) \/ Return(c)
             \/ SnapshotMsg(c) \/ ReportDesync(c) \/ DirectOffer(c) \/ Forward(c)
             \/ \E spectator \in BOOLEAN, secret \in Secrets \cup {NoSecret} :
                  JoinReq(c, spectator, secret)
      PROVE  UNCHANGED matchData
  BY <1>8 DEF Connect, Close, Hello, BattleLoaded, Return, SnapshotMsg, ReportDesync,
              ReportUpTo, DirectOffer, Offer, Forward, JoinReq, matchVars
<1>9. CASE ResetBattleSync \/ UNCHANGED vars
  BY <1>9 DEF ResetBattleSync, matchVars, vars
<1> QED
  BY <1>1, <1>2, <1>3, <1>4, <1>5, <1>6, <1>7, <1>8, <1>9
     DEF Next, Owner, Handle, Assign, Release, ReportResults

(* Both seats always start a match with the same delay, in range.          *)
THEOREM DelayCorrect == Spec => []DelayAgreed
<1>1. Init => DelayAgreed
  BY DEF Init, DelayAgreed, IsAllReady, ClearMatchData, Sides
<1> QED BY <1>1, DelayNext, TypeCorrect, PTL DEF Spec

-----------------------------------------------------------------------------
(* What the members have been told.                                        *)

(* With nothing dirty, even in the middle of a Step, every member holds    *)
(* what the server holds.                                                  *)
CleanIsTold == ~dataDirty => \A c \in Members : told[c] = SessionData(member, matchData)

(* A change of the members' own, private fields is no news.                *)
LEMMA PrivateChange ==
  ASSUME UNCHANGED clients, UNCHANGED matchData, UNCHANGED told, UNCHANGED dataDirty,
         \A d \in Members : /\ member'[d].spectator = member[d].spectator
                            /\ member'[d].watching = member[d].watching
                            /\ member'[d].slot = member[d].slot,
         CleanIsTold
  PROVE  CleanIsTold'
<1>1. SessionData(member, matchData)' = SessionData(member, matchData)
  BY DEF SessionData, PublicMember, Members
<1>2. Members' = Members
  BY DEF Members
<1> QED BY <1>1, <1>2 DEF CleanIsTold

LEMMA ToldNext == TypeOK /\ CleanIsTold /\ [Next]_vars => CleanIsTold'
<1> SUFFICES ASSUME TypeOK, CleanIsTold, [Next]_vars PROVE CleanIsTold'
  OBVIOUS
<1> USE DEF lobbyVars, matchVars
<1>1. CASE dataDirty'
  BY <1>1 DEF CleanIsTold
<1>2. ASSUME NEW c \in Conns,
             Connect(c) \/ Hello(c) \/ SnapshotMsg(c) \/ ReportDesync(c) \/ Forward(c)
      PROVE  CleanIsTold'
  BY <1>2, PrivateChange DEF Connect, Hello, SnapshotMsg, ReportDesync, ReportUpTo, Forward
<1>3. ASSUME NEW c \in Conns, Return(c) \/ DirectOffer(c) PROVE CleanIsTold'
  <2>1. \A d \in Members : /\ member'[d].spectator = member[d].spectator
                           /\ member'[d].watching = member[d].watching
                           /\ member'[d].slot = member[d].slot
    BY <1>3 DEF Return, DirectOffer, Offer, Unpaired, TypeOK, MemberRecord, Members
  <2> QED BY <1>3, <2>1, PrivateChange DEF Return, DirectOffer, Offer, Unpaired
<1>4. ASSUME NEW c \in Conns, Unready(c), ~dataDirty' PROVE CleanIsTold'
  <2>1. \A d \in Members : /\ member'[d].spectator = member[d].spectator
                           /\ member'[d].watching = member[d].watching
                           /\ member'[d].slot = member[d].slot
    BY <1>4 DEF Unready, TypeOK, MemberRecord, Members
  <2>2. UNCHANGED matchData /\ UNCHANGED dataDirty
    BY <1>4 DEF Unready
  <2> QED BY <1>4, <2>1, <2>2, PrivateChange DEF Unready
<1>5. CASE ResetBattleSync
  <2>1. \A d \in Members : /\ member'[d].spectator = member[d].spectator
                           /\ member'[d].watching = member[d].watching
                           /\ member'[d].slot = member[d].slot
    BY <1>5 DEF ResetBattleSync, TypeOK, MemberRecord, Members
  <2> QED BY <1>5, <2>1, PrivateChange DEF ResetBattleSync
<1>6. ASSUME NEW c \in Conns, Close(c), ~dataDirty' PROVE CleanIsTold'
  <2>1. ~IsMember(c) /\ clients' = clients /\ dataDirty' = dataDirty
    BY <1>6 DEF Close, TypeOK
  <2>2. \A d \in Members : member'[d] = member[d] /\ told'[d] = told[d]
    BY <1>6, <2>1 DEF Close, IsMember, TypeOK
  <2>3. SessionData(member, matchData)' = SessionData(member, matchData)
    BY <1>6, <2>1, <2>2 DEF SessionData, PublicMember, Members, Close
  <2>4. Members' = Members
    BY <2>1 DEF Members
  <2> QED BY <1>6, <2>1, <2>2, <2>3, <2>4 DEF CleanIsTold
<1>7. ASSUME NEW c \in Conns, NEW spectator \in BOOLEAN, NEW secret \in Secrets \cup {NoSecret},
             JoinReq(c, spectator, secret), ~dataDirty'
      PROVE  CleanIsTold'
  BY <1>7, PrivateChange DEF JoinReq, Join, TakePlace
<1>8. CASE FinishStep
  <2>1. /\ clients' = clients /\ matchData' = KeptMatch
    BY <1>8 DEF FinishStep
  <2>2. Members' = Members /\ Members \subseteq Conns
    BY <2>1 DEF Members, TypeOK
  <2>3. SessionData(member, matchData)' = SessionData(member', KeptMatch)
    BY <2>1 DEF SessionData
  <2>4. CASE dataDirty \/ (\E s \in Sides : Vacated(s)) \/ allReadyDue
    <3>1. \A c \in Members : told'[c] = SessionData(member', KeptMatch)
      BY <1>8, <2>2, <2>4 DEF FinishStep, IsMember
    <3> QED BY <2>2, <2>3, <3>1 DEF CleanIsTold
  <2>5. CASE ~dataDirty /\ ~(\E s \in Sides : Vacated(s)) /\ ~allReadyDue
    <3>1. KeptMatch = matchData
      BY <2>5 DEF KeptMatch, TypeOK, MatchDataOf
    <3>2. member' = member /\ \A c \in Members : told'[c] = told[c]
      BY <1>8, <2>2, <2>5 DEF FinishStep
    <3> QED BY <2>2, <2>3, <2>5, <3>1, <3>2 DEF CleanIsTold
  <2> QED BY <2>4, <2>5
<1>9. CASE UNCHANGED vars
  BY <1>9, PrivateChange DEF vars
<1>10. ASSUME NEW c \in Conns,
              \/ \E chara \in Charas : SetChara(c, chara)
              \/ \E seed \in Seeds : SetEnv(c, seed)
              \/ \E stage \in Stages : SetStage(c, stage)
              \/ \E req \in RequestsOf[c] : Ready(c, req)
              \/ BattleLoaded(c)
              \/ \E loser \in Sides : ReportResults(c, loser)
       PROVE  dataDirty'
  BY <1>10 DEF SetChara, SetEnv, SetStage, SetPreBattle, Ready, BattleLoaded, ReportResults
<1>11. EmptyLobby => dataDirty'
  BY DEF EmptyLobby
<1> QED
  BY <1>1, <1>2, <1>3, <1>4, <1>5, <1>6, <1>7, <1>8, <1>9, <1>10, <1>11
     DEF Next, Owner, Handle, Assign, Release

(* Between two Steps every member holds the session data of the server.    *)
THEOREM ToldCorrect == Spec => []MembersUpToDate
<1>1. Init => CleanIsTold
  BY DEF Init, CleanIsTold, Members
<1>2. CleanIsTold => MembersUpToDate
  BY DEF CleanIsTold, MembersUpToDate, Settled
<1> QED BY <1>1, <1>2, ToldNext, TypeCorrect, PTL DEF Spec

-----------------------------------------------------------------------------
(* Who is in the lobby.                                                    *)

Entries(seq) == {seq[i] : i \in 1 .. Len(seq)}
NamesDiffer(seq) ==
  \A i, j \in 1 .. Len(seq) : i # j => NameOf[seq[i]] # NameOf[seq[j]]

(* Taking one out of a sequence without repetitions takes it out for good. *)
LEMMA RemovedIsOut ==
  ASSUME NEW seq \in Seq(Conns), NEW i \in 1 .. Len(seq), NamesDiffer(seq)
  PROVE  NamesDiffer(RemoveAt(seq, i)) /\ Entries(RemoveAt(seq, i)) = Entries(seq) \ {seq[i]}
<1> DEFINE rest == RemoveAt(seq, i)
<1>1. Len(seq) \in Nat /\ i \in Nat
  BY LenProperties
<1>2. /\ Len(rest) = Len(seq) - 1
      /\ \A j \in 1 .. Len(seq) - 1 : rest[j] = IF j < i THEN seq[j] ELSE seq[j + 1]
  BY RemoveAtProperties
<1> HIDE DEF rest
<1> DEFINE from(j) == IF j < i THEN j ELSE j + 1
<1>3. ASSUME NEW j \in 1 .. Len(rest)
      PROVE  rest[j] = seq[from(j)] /\ from(j) \in 1 .. Len(seq) /\ from(j) # i
  BY <1>1, <1>2
<1>4. \A j, k \in 1 .. Len(rest) : j # k => from(j) # from(k)
  BY <1>1, <1>2
<1>6. \A k \in 1 .. Len(seq) : k # i => \E j \in 1 .. Len(rest) : from(j) = k
  <2> SUFFICES ASSUME NEW k \in 1 .. Len(seq), k # i
               PROVE  \E j \in 1 .. Len(rest) : from(j) = k
    OBVIOUS
  <2>1. CASE k < i
    <3>1. k \in 1 .. Len(rest) /\ from(k) = k
      BY <1>1, <1>2, <2>1
    <3> QED BY <3>1
  <2>2. CASE k > i
    <3>1. k - 1 \in 1 .. Len(rest) /\ from(k - 1) = k
      BY <1>1, <1>2, <2>2
    <3> QED BY <3>1
  <2> QED BY <1>1, <2>1, <2>2
<1> HIDE DEF from
<1>5. NamesDiffer(rest)
  BY <1>3, <1>4 DEF NamesDiffer
<1>7. Entries(rest) \subseteq Entries(seq) \ {seq[i]}
  BY <1>3 DEF Entries, NamesDiffer
<1>8. Entries(seq) \ {seq[i]} \subseteq Entries(rest)
  BY <1>3, <1>6 DEF Entries
<1> QED BY <1>5, <1>7, <1>8 DEF rest

(* Putting in one whose name is not taken.                                 *)
LEMMA InsertedIsNew ==
  ASSUME NEW seq \in Seq(Conns), NEW i \in 1 .. Len(seq) + 1, NEW e \in Conns, NamesDiffer(seq),
         \A d \in Entries(seq) : NameOf[d] # NameOf[e]
  PROVE  NamesDiffer(InsertAt(seq, i, e)) /\ Entries(InsertAt(seq, i, e)) = Entries(seq) \cup {e}
<1> DEFINE more == InsertAt(seq, i, e)
           from(j) == IF j < i THEN j ELSE j - 1
<1>1. Len(seq) \in Nat /\ i \in Nat
  BY LenProperties
<1>2. /\ Len(more) = Len(seq) + 1
      /\ \A j \in 1 .. Len(seq) + 1 :
           more[j] = IF j < i THEN seq[j] ELSE IF j = i THEN e ELSE seq[j - 1]
  BY InsertAtProperties
<1> HIDE DEF more
<1>3. ASSUME NEW j \in 1 .. Len(more), j # i
      PROVE  more[j] = seq[from(j)] /\ from(j) \in 1 .. Len(seq)
  BY <1>1, <1>2, <1>3
<1>4. \A j, k \in 1 .. Len(more) : j # k /\ j # i /\ k # i => from(j) # from(k)
  BY <1>1, <1>2
<1>5. i \in 1 .. Len(more) /\ more[i] = e
  BY <1>1, <1>2
<1>8. \A k \in 1 .. Len(seq) : \E j \in 1 .. Len(more) : j # i /\ from(j) = k
  <2> SUFFICES ASSUME NEW k \in 1 .. Len(seq)
               PROVE  \E j \in 1 .. Len(more) : j # i /\ from(j) = k
    OBVIOUS
  <2>1. CASE k < i
    <3>1. k \in 1 .. Len(more) /\ k # i /\ from(k) = k
      BY <1>1, <1>2, <2>1
    <3> QED BY <3>1
  <2>2. CASE k >= i
    <3>1. k + 1 \in 1 .. Len(more) /\ k + 1 # i /\ from(k + 1) = k
      BY <1>1, <1>2, <2>2
    <3> QED BY <3>1
  <2> QED BY <1>1, <2>1, <2>2
<1> HIDE DEF from
<1>6. ASSUME NEW j \in 1 .. Len(more), NEW k \in 1 .. Len(more), j # k
      PROVE  NameOf[more[j]] # NameOf[more[k]]
  <2>1. CASE j = i
    BY <1>3, <1>5, <1>6, <2>1 DEF Entries
  <2>2. CASE k = i
    BY <1>3, <1>5, <1>6, <2>2 DEF Entries
  <2>3. CASE j # i /\ k # i
    BY <1>3, <1>4, <1>6, <2>3 DEF NamesDiffer
  <2> QED BY <2>1, <2>2, <2>3
<1>7. Entries(more) \subseteq Entries(seq) \cup {e}
  BY <1>3, <1>5 DEF Entries
<1>9. Entries(seq) \cup {e} \subseteq Entries(more)
  <2>1. e \in Entries(more)
    BY <1>5 DEF Entries
  <2>2. ASSUME NEW k \in 1 .. Len(seq) PROVE seq[k] \in Entries(more)
    <3>1. PICK j \in 1 .. Len(more) : j # i /\ from(j) = k
      BY <1>8
    <3>2. more[j] = seq[k]
      BY <1>3, <3>1
    <3> QED BY <3>2 DEF Entries
  <2> QED BY <2>1, <2>2 DEF Entries
<1>10. NamesDiffer(more)
  BY <1>6 DEF NamesDiffer
<1>11. Entries(more) = Entries(seq) \cup {e}
  BY <1>7, <1>9
<1> QED BY <1>10, <1>11 DEF more

(* What a member is and keeps: its secret, its part and its pipe.          *)
SameSelf(m, n) == n.secret = m.secret /\ n.spectator = m.spectator /\ n.slot = m.slot

(* A pick changes the pick alone, an offer the offer, and neither who the  *)
(* member is.                                                              *)
LEMMA PickChanges ==
  ASSUME TypeOK, NEW c \in Conns, NEW chara \in Charas, SetChara(c, chara), NEW d \in Conns
  PROVE  SameSelf(member[d], member'[d]) /\ member'[d].offered = member[d].offered
<1> DEFINE m == [member[c] EXCEPT !.phase = "waiting", !.picked = chara]
<1>1. member \in [Conns -> MemberRecord] /\ member[c] \in MemberRecord
  BY DEF TypeOK
<1>2. member' = [member EXCEPT ![c] = m]
  BY DEF SetChara
<1>3. SameSelf(member[c], m) /\ m.offered = member[c].offered
  BY <1>1 DEF MemberRecord, SameSelf
<1> HIDE DEF m
<1> QED BY <1>1, <1>2, <1>3 DEF SameSelf

LEMMA OfferChanges ==
  ASSUME TypeOK, NEW c \in Conns, DirectOffer(c), NEW d \in Conns
  PROVE  SameSelf(member[d], member'[d]) /\ member'[d].picked = member[d].picked
<1> DEFINE m == [member[c] EXCEPT !.offered = TRUE]
<1>1. member \in [Conns -> MemberRecord] /\ member[c] \in MemberRecord
  BY DEF TypeOK
<1>2. member' = [member EXCEPT ![c] = m]
  BY DEF DirectOffer, Offer
<1>3. SameSelf(member[c], m) /\ m.picked = member[c].picked
  BY <1>1 DEF MemberRecord, SameSelf
<1> HIDE DEF m
<1> QED BY <1>1, <1>2, <1>3 DEF SameSelf

(* The others that touch a member change neither.                          *)
LEMMA PhaseChanges ==
  ASSUME TypeOK,
         NEW c \in Conns,
         \/ Unready(c) \/ BattleLoaded(c) \/ Return(c)
         \/ \E loser \in Sides : ReportResults(c, loser)
         \/ FinishStep \/ ResetBattleSync,
         NEW d \in Conns
  PROVE  /\ SameSelf(member[d], member'[d])
         /\ member'[d].offered = member[d].offered /\ member'[d].picked = member[d].picked
<1> DEFINE Kept == /\ SameSelf(member[d], member'[d])
                   /\ member'[d].offered = member[d].offered
                   /\ member'[d].picked = member[d].picked
<1>0. /\ member \in [Conns -> MemberRecord]
      /\ member[c] \in MemberRecord /\ member[d] \in MemberRecord
  BY DEF TypeOK
<1>1. ASSUME NEW m, member' = [member EXCEPT ![c] = m], SameSelf(member[c], m),
             m.offered = member[c].offered, m.picked = member[c].picked
      PROVE  Kept
  BY <1>0, <1>1 DEF SameSelf
<1>2. CASE Unready(c)
  <2> DEFINE m == [member[c] EXCEPT !.phase = "lobby"]
  <2>1. member' = [member EXCEPT ![c] = m]
    BY <1>2 DEF Unready
  <2>2. SameSelf(member[c], m) /\ m.offered = member[c].offered /\ m.picked = member[c].picked
    BY <1>0 DEF MemberRecord, SameSelf
  <2> HIDE DEF m
  <2> QED BY <1>1, <2>1, <2>2
<1>3. CASE BattleLoaded(c)
  <2> DEFINE m == [member[c] EXCEPT !.loaded = TRUE, !.phase = "fighting"]
  <2>1. member' = [member EXCEPT ![c] = m]
    BY <1>3 DEF BattleLoaded
  <2>2. SameSelf(member[c], m) /\ m.offered = member[c].offered /\ m.picked = member[c].picked
    BY <1>0 DEF MemberRecord, SameSelf
  <2> HIDE DEF m
  <2> QED BY <1>1, <2>1, <2>2
<1>4. CASE Return(c)
  <2> DEFINE m == [member[c] EXCEPT !.phase = IF Plays(c) /\ BelievesFirst(c) THEN "reporting" ELSE "lobby"]
  <2>1. member' = [member EXCEPT ![c] = m]
    BY <1>4 DEF Return
  <2>2. SameSelf(member[c], m) /\ m.offered = member[c].offered /\ m.picked = member[c].picked
    BY <1>0 DEF MemberRecord, SameSelf
  <2> HIDE DEF m
  <2> QED BY <1>1, <2>1, <2>2
<1>5. ASSUME NEW m, member'[d] = m, SameSelf(member[d], m),
             m.offered = member[d].offered, m.picked = member[d].picked
      PROVE  Kept
  BY <1>5
<1>6. ASSUME NEW loser \in Sides, ReportResults(c, loser) PROVE Kept
  <2>1. PICK p : member'[d] = [member[d] EXCEPT !.watching = FALSE, !.phase = p]
    BY <1>6 DEF ReportResults
  <2> DEFINE m == [member[d] EXCEPT !.watching = FALSE, !.phase = p]
  <2>2. SameSelf(member[d], m) /\ m.offered = member[d].offered /\ m.picked = member[d].picked
    BY <1>0 DEF MemberRecord, SameSelf
  <2>3. member'[d] = m
    BY <2>1
  <2> HIDE DEF m
  <2> QED BY <1>5, <2>2, <2>3
<1>7. CASE FinishStep
  <2>1. CASE allReadyDue /\ IsMember(d)
    <3>1. PICK b, p : member'[d] = [member[d] EXCEPT !.watching = b, !.phase = p]
      BY <1>7, <2>1 DEF FinishStep, Called
    <3> DEFINE m == [member[d] EXCEPT !.watching = b, !.phase = p]
    <3>2. SameSelf(member[d], m) /\ m.offered = member[d].offered /\ m.picked = member[d].picked
      BY <1>0 DEF MemberRecord, SameSelf
    <3>3. member'[d] = m
      BY <3>1
    <3> HIDE DEF m
    <3> QED BY <1>5, <3>2, <3>3
  <2>2. CASE ~(allReadyDue /\ IsMember(d))
    <3>1. member'[d] = member[d]
      BY <1>7, <2>2 DEF FinishStep, Called
    <3> QED BY <1>5, <3>1 DEF SameSelf
  <2> QED BY <2>1, <2>2
<1>8. CASE ResetBattleSync
  <2> DEFINE m == [member[d] EXCEPT !.loaded = FALSE]
  <2>1. member'[d] = m
    BY <1>8 DEF ResetBattleSync
  <2>2. SameSelf(member[d], m) /\ m.offered = member[d].offered /\ m.picked = member[d].picked
    BY <1>0 DEF MemberRecord, SameSelf
  <2> HIDE DEF m
  <2> QED BY <1>5, <2>1, <2>2
<1> QED BY <1>2, <1>3, <1>4, <1>6, <1>7, <1>8

(* No action changes who a member is.                                      *)
LEMMA SelfKept ==
  ASSUME TypeOK,
         NEW c \in Conns,
         \/ \E chara \in Charas : SetChara(c, chara)
         \/ Unready(c) \/ BattleLoaded(c) \/ Return(c) \/ DirectOffer(c)
         \/ \E loser \in Sides : ReportResults(c, loser)
         \/ FinishStep \/ ResetBattleSync,
         NEW d \in Conns
  PROVE  SameSelf(member[d], member'[d])
BY PickChanges, OfferChanges, PhaseChanges, Zenon

(* Nobody is in the lobby twice, and all of them belong to it.             *)
OneLobby == NamesDiffer(clients) /\ SameLobby

(* A step that lets nobody in and leaves the secrets alone.                *)
LEMMA NobodyNew ==
  ASSUME OneLobby, NamesDiffer(clients)', Members' \subseteq Members,
         UNCHANGED joinSecret, UNCHANGED sidecarHash,
         \A d \in Members' : member'[d].secret = member[d].secret
  PROVE  OneLobby'
BY DEF OneLobby, SameLobby

LEMMA LobbyNext == TypeOK /\ OneLobby /\ [Next]_vars => OneLobby'
<1> SUFFICES ASSUME TypeOK, OneLobby, [Next]_vars PROVE OneLobby'
  OBVIOUS
<1> USE DEF lobbyVars, gateVars
<1>0. /\ clients \in Seq(Conns) /\ Len(clients) \in Nat /\ PlayerCount \in 0 .. Len(clients)
      /\ Members \subseteq Conns /\ Members = Entries(clients) /\ Members' = Entries(clients')
      /\ NamesDiffer(clients)
  BY PlayerCountType, LenProperties DEF TypeOK, Members, Entries, OneLobby
<1>1. CASE UNCHANGED <<clients, gateVars>> /\ \A d \in Members : member'[d].secret = member[d].secret
  BY <1>0, <1>1, NobodyNew DEF Entries
<1>2. CASE EmptyLobby
  BY <1>2 DEF EmptyLobby, OneLobby, SameLobby, NamesDiffer, Members
<1>3. ASSUME NEW c \in Conns, Close(c) PROVE OneLobby'
  <2>1. CASE IsMember(c)
    <3>1. PlaceOf(c) \in 1 .. Len(clients) /\ clients[PlaceOf(c)] = c
      BY <2>1, PlaceOfMember
    <3>2. clients' = RemoveAt(clients, PlaceOf(c))
      BY <1>3, <2>1 DEF Close
    <3>3. NamesDiffer(clients') /\ Members' \subseteq Members \ {c}
      BY <1>0, <3>1, <3>2, RemovedIsOut
    <3>4. \A d \in Members' : member'[d].secret = member[d].secret
      BY <1>0, <1>3, <3>3 DEF Close, TypeOK
    <3> QED BY <1>3, <3>3, <3>4, NobodyNew DEF Close
  <2>2. CASE ~IsMember(c)
    <3>1. UNCHANGED <<clients, gateVars>> /\ \A d \in Members : member'[d].secret = member[d].secret
      BY <1>0, <1>3, <2>2 DEF Close, IsMember, TypeOK
    <3> QED BY <1>1, <3>1
  <2> QED BY <2>1, <2>2
<1>4. ASSUME NEW c \in Conns, NEW spectator \in BOOLEAN, NEW secret \in Secrets \cup {NoSecret},
             JoinReq(c, spectator, secret)
      PROVE  OneLobby'
  <2>1. CASE JoinResult(c, spectator, secret) # "ok"
    BY <1>1, <1>4, <2>1 DEF JoinReq
  <2>2. CASE JoinResult(c, spectator, secret) = "ok"
    <3>1. /\ Dedicated => SecretOK(secret)
          /\ sidecarHash # AnyBuild => BuildOf[c] = sidecarHash
          /\ \A d \in Entries(clients) : NameOf[d] # NameOf[c]
      BY <1>0, <2>2 DEF JoinResult
    <3>2. TakePlace(c, spectator, secret) /\ UNCHANGED gateVars
      BY <1>4, <2>2 DEF JoinReq, Join
    <3>3. NamesDiffer(clients') /\ Members' \subseteq Members \cup {c}
      <4>1. Len(clients) + 1 \in 1 .. Len(clients) + 1 /\ PlayerCount + 1 \in 1 .. Len(clients) + 1
        BY <1>0
      <4>2. CASE ~spectator
        BY <1>0, <3>1, <3>2, <4>1, <4>2, InsertedIsNew DEF TakePlace
      <4>3. CASE spectator
        <5>1. clients' = Append(clients, c)
          BY <3>2, <4>3 DEF TakePlace
        <5>2. /\ Len(clients') = Len(clients) + 1
              /\ \A j \in 1 .. Len(clients) + 1 :
                   clients'[j] = IF j = Len(clients) + 1 THEN c ELSE clients[j]
          BY <1>0, <5>1, AppendProperties
        <5>3. NamesDiffer(clients')
          BY <1>0, <3>1, <5>2 DEF NamesDiffer, Entries
        <5>4. Entries(clients') \subseteq Entries(clients) \cup {c}
          BY <1>0, <5>2 DEF Entries
        <5> QED BY <1>0, <5>3, <5>4
      <4> QED BY <4>2, <4>3
    <3>4. /\ member'[c].secret = secret
          /\ \A d \in Members : d # c => member'[d] = member[d]
      BY <1>0, <3>2 DEF TakePlace, TypeOK, NewMember, NoMember
    <3>5. c \notin Members
      BY <1>0, <3>1
    <3>6. ASSUME NEW d \in Members'
          PROVE  /\ Dedicated => member'[d].secret = joinSecret' /\ joinSecret' # NoSecret
                 /\ sidecarHash' # AnyBuild => BuildOf[d] = sidecarHash'
      <4>1. CASE d = c
        BY <3>1, <3>2, <3>4, <4>1 DEF SecretOK
      <4>2. CASE d # c
        BY <3>2, <3>3, <3>4, <4>2 DEF OneLobby, SameLobby
      <4> QED BY <4>1, <4>2
    <3> QED BY <3>3, <3>6 DEF OneLobby, SameLobby
  <2> QED BY <2>1, <2>2
<1>5. ASSUME NEW c \in Conns, NEW loser \in Sides, ReportResults(c, loser) PROVE OneLobby'
  <2>1. \A d \in Conns : member'[d].secret = member[d].secret
    BY <1>5, SelfKept DEF SameSelf
  <2>2. NamesDiffer(clients') /\ Members' \subseteq Members
    <3>1. CASE loser < PlayerCount /\ PlayerCount > 1
      <4> DEFINE moved == clients[loser + 1]
                 rest  == RemoveAt(clients, loser + 1)
      <4>1. loser + 1 \in 1 .. Len(clients) /\ PlayerCount \in 1 .. Len(clients)
        BY <1>0, <3>1 DEF Sides
      <4>2. /\ NamesDiffer(rest) /\ Entries(rest) \subseteq Entries(clients) \ {moved}
            /\ rest \in Seq(Conns) /\ Len(rest) = Len(clients) - 1
        BY <1>0, <4>1, RemovedIsOut, RemoveAtProperties
      <4>3. moved \in Entries(clients) /\ moved \in Conns
        BY <1>0, <4>1 DEF Entries
      <4>4. \A d \in Entries(rest) : NameOf[d] # NameOf[moved]
        BY <1>0, <4>1, <4>2 DEF Entries, NamesDiffer
      <4>5. clients' = InsertAt(rest, PlayerCount, moved)
        BY <1>5, <3>1 DEF ReportResults, Rotate
      <4>6. PlayerCount \in 1 .. Len(rest) + 1
        BY <1>0, <4>1, <4>2
      <4> HIDE DEF moved, rest
      <4> QED BY <1>0, <4>2, <4>3, <4>4, <4>5, <4>6, InsertedIsNew
    <3>2. CASE ~(loser < PlayerCount /\ PlayerCount > 1)
      BY <1>0, <1>5, <3>2 DEF ReportResults, Rotate
    <3> QED BY <3>1, <3>2
  <2> QED BY <1>0, <1>5, <2>1, <2>2, NobodyNew DEF ReportResults
<1>6. ASSUME NEW c \in Conns,
             \/ \E chara \in Charas : SetChara(c, chara)
             \/ Unready(c) \/ BattleLoaded(c) \/ Return(c) \/ DirectOffer(c)
      PROVE  OneLobby'
  <2>1. UNCHANGED <<clients, gateVars>>
    BY <1>6 DEF SetChara, Unready, BattleLoaded, Return, DirectOffer, Offer
  <2>2. \A d \in Conns : member'[d].secret = member[d].secret
    BY <1>6, SelfKept DEF SameSelf
  <2> QED BY <1>0, <1>1, <2>1, <2>2
<1>7. CASE FinishStep \/ ResetBattleSync
  <2>1. UNCHANGED <<clients, gateVars>>
    BY <1>7 DEF FinishStep, ResetBattleSync
  <2>2. ASSUME NEW d \in Conns PROVE member'[d].secret = member[d].secret
    BY <1>7, SelfKept, Zenon DEF SameSelf
  <2> QED BY <1>0, <1>1, <2>1, <2>2
<1>8. ASSUME NEW c \in Conns,
             \/ Connect(c) \/ Hello(c) \/ SnapshotMsg(c) \/ ReportDesync(c) \/ Forward(c)
             \/ \E seed \in Seeds : SetEnv(c, seed)
             \/ \E stage \in Stages : SetStage(c, stage)
             \/ \E req \in RequestsOf[c] : Ready(c, req)
      PROVE  OneLobby'
  BY <1>1, <1>8 DEF Connect, Hello, SnapshotMsg, ReportDesync, ReportUpTo, Forward, SetEnv,
                    SetStage, SetPreBattle, Ready
<1>9. CASE UNCHANGED vars
  BY <1>1, <1>9 DEF vars
<1> QED
  BY <1>2, <1>3, <1>4, <1>5, <1>6, <1>7, <1>8, <1>9 DEF Next, Owner, Handle, Assign, Release

LEMMA LobbyInit == Init => OneLobby
BY DEF Init, OneLobby, SameLobby, NamesDiffer, Members

(* Nobody is left over from an earlier lobby on the same server.           *)
THEOREM LobbyCorrect == Spec => []SameLobby
<1>1. OneLobby => SameLobby
  BY DEF OneLobby
<1> QED BY <1>1, LobbyInit, LobbyNext, TypeCorrect, PTL DEF Spec

-----------------------------------------------------------------------------
(* A connection put into its place.                                        *)
LEMMA InsertedConn ==
  ASSUME NEW seq \in Seq(Conns), NEW i \in 1 .. Len(seq) + 1, NEW c \in Conns,
         NEW more, more = InsertAt(seq, i, c)
  PROVE  /\ Len(more) = Len(seq) + 1
         /\ \A j \in 1 .. Len(seq) + 1 :
              more[j] = IF j < i THEN seq[j] ELSE IF j = i THEN c ELSE seq[j - 1]
BY InsertAtProperties

(* Who sits where.                                                         *)

(* `n` players first, within both limits, and a pipe for each spectator.   *)
SeatedAs(seq, mem, n) ==
  /\ n \in 0 .. Len(seq)
  /\ \A i \in 1 .. Len(seq) : ~mem[seq[i]].spectator <=> i <= n
  /\ n <= MaxPlayers /\ Len(seq) - n <= MaxSpectators
  /\ \A i \in 1 .. n : mem[seq[i]].slot = NoSlot
  /\ SpectatorSlots # 0 =>
       \A i, j \in n + 1 .. Len(seq) :
         /\ mem[seq[i]].slot \in 0 .. SpectatorSlots - 1
         /\ i # j => mem[seq[i]].slot # mem[seq[j]].slot

(* Players first makes the number of players the length of that prefix.    *)
LEMMA PrefixCount ==
  ASSUME NEW seq \in Seq(Conns), NEW mem, NEW n, SeatedAs(seq, mem, n)
  PROVE  Cardinality({i \in 1 .. Len(seq) : ~mem[seq[i]].spectator}) = n
<1>1. Len(seq) \in Nat /\ n \in Nat /\ n <= Len(seq)
  BY LenProperties DEF SeatedAs
<1>2. {i \in 1 .. Len(seq) : ~mem[seq[i]].spectator} = 1 .. n
  BY <1>1 DEF SeatedAs
<1>3. Cardinality(1 .. n) = n
  <2>1. Cardinality(1 .. n) = IF 1 > n THEN 0 ELSE n - 1 + 1
    BY <1>1, FS_Interval
  <2> QED BY <1>1, <2>1
<1> QED BY <1>2, <1>3

(* Only the seats and the pipes matter.                                    *)
LEMMA SameSeats ==
  ASSUME NEW seq \in Seq(Conns), NEW mem, NEW mem2, NEW n, SeatedAs(seq, mem, n),
         \A d \in Entries(seq) : mem2[d].spectator = mem[d].spectator /\ mem2[d].slot = mem[d].slot
  PROVE  SeatedAs(seq, mem2, n)
<1>1. Len(seq) \in Nat
  BY LenProperties
<1>2. \A i \in 1 .. Len(seq) : mem2[seq[i]].spectator = mem[seq[i]].spectator
                              /\ mem2[seq[i]].slot = mem[seq[i]].slot
  BY DEF Entries
<1>3. n \in Nat /\ n <= Len(seq)
  BY DEF SeatedAs
<1> QED BY <1>1, <1>2, <1>3 DEF SeatedAs

(* One leaves, and the ones behind it move up.                             *)
LEMMA SeatsAfterLeaving ==
  ASSUME NEW seq \in Seq(Conns), NEW mem, NEW n, SeatedAs(seq, mem, n), NEW i \in 1 .. Len(seq)
  PROVE  SeatedAs(RemoveAt(seq, i), mem, IF i <= n THEN n - 1 ELSE n)
<1> DEFINE rest == RemoveAt(seq, i)
           from(j) == IF j < i THEN j ELSE j + 1
           m == IF i <= n THEN n - 1 ELSE n
<1>1. Len(seq) \in Nat /\ i \in Nat /\ n \in Nat /\ n <= Len(seq)
  BY LenProperties DEF SeatedAs
<1>9. /\ Len(rest) = Len(seq) - 1
      /\ \A j \in 1 .. Len(seq) - 1 : rest[j] = IF j < i THEN seq[j] ELSE seq[j + 1]
  BY RemoveAtProperties
<1> HIDE DEF rest
<1>2. /\ Len(rest) = Len(seq) - 1
      /\ \A j \in 1 .. Len(rest) : rest[j] = seq[from(j)] /\ from(j) \in 1 .. Len(seq)
  BY <1>1, <1>9
<1>3. m \in 0 .. Len(rest) /\ m <= n /\ Len(rest) - m <= Len(seq) - n
  BY <1>1, <1>2
<1>4. ASSUME NEW j \in 1 .. Len(rest) PROVE j <= m <=> from(j) <= n
  BY <1>1, <1>2
<1>5. \A j \in 1 .. Len(rest) : ~mem[rest[j]].spectator <=> j <= m
  BY <1>2, <1>4 DEF SeatedAs
<1>6. m <= MaxPlayers /\ Len(rest) - m <= MaxSpectators
  BY <1>1, <1>2, <1>3, ServerAssumption DEF SeatedAs, MaxPlayers
<1>7. ASSUME NEW j \in 1 .. m PROVE mem[rest[j]].slot = NoSlot
  <2>1. j \in 1 .. Len(rest) /\ from(j) \in 1 .. n
    BY <1>1, <1>2, <1>3, <1>4
  <2> QED BY <2>1, <1>2 DEF SeatedAs
<1>8. ASSUME SpectatorSlots # 0, NEW j \in m + 1 .. Len(rest), NEW k \in m + 1 .. Len(rest)
      PROVE  /\ mem[rest[j]].slot \in 0 .. SpectatorSlots - 1
             /\ j # k => mem[rest[j]].slot # mem[rest[k]].slot
  <2>1. /\ j \in 1 .. Len(rest) /\ from(j) \in n + 1 .. Len(seq)
        /\ k \in 1 .. Len(rest) /\ from(k) \in n + 1 .. Len(seq)
    <3>1. j \in 1 .. Len(rest) /\ k \in 1 .. Len(rest) /\ ~(j <= m) /\ ~(k <= m)
      BY <1>1, <1>2, <1>3
    <3>2. /\ from(j) \in 1 .. Len(seq) /\ ~(from(j) <= n)
          /\ from(k) \in 1 .. Len(seq) /\ ~(from(k) <= n)
      BY <3>1, <1>2, <1>4
    <3> HIDE DEF from
    <3> QED BY <3>1, <3>2, <1>1
  <2>2. j # k => from(j) # from(k)
    BY <2>1, <1>1, <1>2
  <2>3. rest[j] = seq[from(j)] /\ rest[k] = seq[from(k)]
    BY <2>1, <1>2
  <2> HIDE DEF from, rest
  <2>4. /\ mem[seq[from(j)]].slot \in 0 .. SpectatorSlots - 1
        /\ from(j) # from(k) => mem[seq[from(j)]].slot # mem[seq[from(k)]].slot
    BY <2>1, <1>8 DEF SeatedAs
  <2> QED BY <2>2, <2>3, <2>4
<1> HIDE DEF m, from
<1> QED BY <1>3, <1>5, <1>6, <1>7, <1>8 DEF SeatedAs, rest, m

(* A player goes in right behind the players.                              *)
LEMMA SeatsAfterPlayer ==
  ASSUME NEW seq \in Seq(Conns), NEW mem, NEW n, SeatedAs(seq, mem, n), n < MaxPlayers,
         NEW c \in Conns, ~mem[c].spectator, mem[c].slot = NoSlot
  PROVE  SeatedAs(InsertAt(seq, n + 1, c), mem, n + 1)
<1> DEFINE at == n + 1
           more == InsertAt(seq, at, c)
<1>1. Len(seq) \in Nat /\ n \in Nat /\ n <= Len(seq) /\ at = n + 1 /\ at \in 1 .. Len(seq) + 1
  BY LenProperties DEF SeatedAs
<1> HIDE DEF at
<1>9. /\ Len(more) = Len(seq) + 1
      /\ \A j \in 1 .. Len(seq) + 1 :
           more[j] = IF j < at THEN seq[j] ELSE IF j = at THEN c ELSE seq[j - 1]
  <2>1. at \in 1 .. Len(seq) + 1
    BY <1>1
  <2> HIDE DEF more
  <2>2. more = InsertAt(seq, at, c)
    BY DEF more
  <2> QED BY <2>1, <2>2, InsertedConn
<1> HIDE DEF more
<1>2. /\ Len(more) = Len(seq) + 1
      /\ \A j \in 1 .. Len(seq) + 1 :
           more[j] = IF j < n + 1 THEN seq[j] ELSE IF j = n + 1 THEN c ELSE seq[j - 1]
  BY <1>1, <1>9
<1>3. ASSUME NEW j \in 1 .. Len(more) PROVE ~mem[more[j]].spectator <=> j <= n + 1
  <2>1. CASE j < n + 1
    BY <1>1, <1>2, <2>1 DEF SeatedAs
  <2>2. CASE j = n + 1
    BY <1>1, <1>2, <2>2
  <2>3. CASE j > n + 1
    <3>1. j - 1 \in 1 .. Len(seq) /\ ~(j - 1 <= n) /\ more[j] = seq[j - 1]
      BY <1>1, <1>2, <2>3
    <3> QED BY <1>1, <2>3, <3>1 DEF SeatedAs
  <2> QED BY <1>1, <2>1, <2>2, <2>3
<1>4. n + 1 \in 0 .. Len(more) /\ n + 1 <= MaxPlayers /\ Len(more) - (n + 1) <= MaxSpectators
  BY <1>1, <1>2, ServerAssumption DEF SeatedAs, MaxPlayers
<1>5. ASSUME NEW j \in 1 .. n + 1 PROVE mem[more[j]].slot = NoSlot
  <2>1. j = n + 1 \/ j \in 1 .. n
    BY <1>1
  <2> QED BY <1>1, <1>2, <2>1 DEF SeatedAs
<1>6. ASSUME SpectatorSlots # 0, NEW j \in n + 1 + 1 .. Len(more), NEW k \in n + 1 + 1 .. Len(more)
      PROVE  /\ mem[more[j]].slot \in 0 .. SpectatorSlots - 1
             /\ j # k => mem[more[j]].slot # mem[more[k]].slot
  <2>1. /\ j - 1 \in n + 1 .. Len(seq) /\ more[j] = seq[j - 1]
        /\ k - 1 \in n + 1 .. Len(seq) /\ more[k] = seq[k - 1]
        /\ j # k => j - 1 # k - 1
    BY <1>1, <1>2
  <2> QED BY <2>1, <1>6 DEF SeatedAs
<1> QED BY <1>3, <1>4, <1>5, <1>6 DEF SeatedAs, more, at

(* A spectator goes last, with a pipe no other one holds.                  *)
LEMMA SeatsAfterSpectator ==
  ASSUME NEW seq \in Seq(Conns), NEW mem, NEW n, SeatedAs(seq, mem, n),
         Len(seq) - n < MaxSpectators, NEW c \in Conns, mem[c].spectator,
         SpectatorSlots # 0 => /\ mem[c].slot \in 0 .. SpectatorSlots - 1
                               /\ \A d \in Entries(seq) : mem[d].slot # mem[c].slot
  PROVE  SeatedAs(Append(seq, c), mem, n)
<1> DEFINE more == Append(seq, c)
<1>1. Len(seq) \in Nat /\ n \in Nat /\ n <= Len(seq)
  BY LenProperties DEF SeatedAs
<1>2. /\ Len(more) = Len(seq) + 1
      /\ \A j \in 1 .. Len(seq) + 1 : more[j] = IF j = Len(seq) + 1 THEN c ELSE seq[j]
  BY <1>1, AppendProperties
<1> HIDE DEF more
<1>3. ASSUME NEW j \in 1 .. Len(more) PROVE ~mem[more[j]].spectator <=> j <= n
  <2>1. CASE j = Len(seq) + 1
    BY <1>1, <1>2, <2>1
  <2>2. CASE j # Len(seq) + 1
    <3>1. j \in 1 .. Len(seq) /\ more[j] = seq[j]
      BY <1>1, <1>2, <2>2
    <3> QED BY <3>1 DEF SeatedAs
  <2> QED BY <2>1, <2>2
<1>4. n \in 0 .. Len(more) /\ n <= MaxPlayers /\ Len(more) - n <= MaxSpectators
  BY <1>1, <1>2, ServerAssumption DEF SeatedAs
<1>5. ASSUME NEW j \in 1 .. n PROVE mem[more[j]].slot = NoSlot
  BY <1>1, <1>2 DEF SeatedAs
<1>6. ASSUME SpectatorSlots # 0, NEW j \in n + 1 .. Len(more), NEW k \in n + 1 .. Len(more)
      PROVE  /\ mem[more[j]].slot \in 0 .. SpectatorSlots - 1
             /\ j # k => mem[more[j]].slot # mem[more[k]].slot
  <2>1. ASSUME NEW i \in n + 1 .. Len(more), i # Len(seq) + 1
        PROVE  i \in n + 1 .. Len(seq) /\ more[i] = seq[i] /\ more[i] \in Entries(seq)
    BY <1>1, <1>2, <2>1 DEF Entries
  <2>2. CASE j = Len(seq) + 1 /\ k = Len(seq) + 1
    BY <1>1, <1>2, <1>6, <2>2
  <2>3. CASE j = Len(seq) + 1 /\ k # Len(seq) + 1
    BY <1>1, <1>2, <1>6, <2>1, <2>3
  <2>4. CASE j # Len(seq) + 1 /\ k = Len(seq) + 1
    BY <1>1, <1>2, <1>6, <2>1, <2>4 DEF SeatedAs
  <2>5. CASE j # Len(seq) + 1 /\ k # Len(seq) + 1
    <3>1. /\ j \in n + 1 .. Len(seq) /\ more[j] = seq[j]
          /\ k \in n + 1 .. Len(seq) /\ more[k] = seq[k]
      BY <2>1, <2>5
    <3>2. /\ mem[seq[j]].slot \in 0 .. SpectatorSlots - 1
          /\ j # k => mem[seq[j]].slot # mem[seq[k]].slot
      BY <1>6, <3>1 DEF SeatedAs
    <3> QED BY <3>1, <3>2
  <2> QED BY <2>2, <2>3, <2>4, <2>5
<1> QED BY <1>3, <1>4, <1>5, <1>6 DEF SeatedAs, more

(* The lowest free pipe is no higher than the number of spectators: the    *)
(* ones below it are all held, and by different members.                   *)
LEMMA LowestFreeSlotIsLow ==
  ASSUME clients \in Seq(Conns), NEW n, SeatedAs(clients, member, n)
  PROVE  LowestFreeSlot \in Nat /\ LowestFreeSlot <= Len(clients) - n
<1> DEFINE len == Len(clients)
           k == LowestFreeSlot
           from == 0 .. k - 1
           to == n + 1 .. len
           holder == [j \in from |-> CHOOSE i \in 1 .. len : member[clients[i]].slot = j]
<1>1. len \in Nat /\ n \in Nat /\ n <= len
  BY LenProperties DEF SeatedAs
<1>2. /\ k \in 0 .. len
      /\ \A j \in from : \E d \in Members : member[d].slot = j
  BY LowestFreeSlotIsFree
<1> HIDE DEF k
<1>3. \A j \in from : \E i \in 1 .. len : member[clients[i]].slot = j
  BY <1>2 DEF Members
<1>4. \A j \in from : holder[j] \in 1 .. len /\ member[clients[holder[j]]].slot = j
  BY <1>3
<1>5. \A j \in from : holder[j] \in to
  <2> SUFFICES ASSUME NEW j \in from PROVE holder[j] \in to
    OBVIOUS
  <2>1. holder[j] \in 1 .. len /\ member[clients[holder[j]]].slot = j /\ j \in Nat
    BY <1>1, <1>2, <1>4
  <2> HIDE DEF holder
  <2>2. ~(holder[j] \in 1 .. n)
    BY <2>1 DEF SeatedAs, NoSlot
  <2> QED BY <1>1, <2>1, <2>2
<1>6. holder \in [from -> to]
  BY <1>5
<1> SUFFICES ASSUME k > len - n PROVE FALSE
  BY <1>1, <1>2 DEF k
<1> HIDE DEF holder
<1>7. IsFiniteSet(from) /\ Cardinality(from) = k
  <2> DEFINE last == k - 1
  <2>1. last \in Int /\ from = 0 .. last
    BY <1>2
  <2> HIDE DEF last, from
  <2>2. IsFiniteSet(0 .. last) /\ Cardinality(0 .. last) = IF 0 > last THEN 0 ELSE last - 0 + 1
    BY <2>1, FS_Interval
  <2>3. Cardinality(0 .. last) = k
    BY <1>1, <1>2, <2>2 DEF last
  <2> QED BY <2>1, <2>2, <2>3
<1>8. IsFiniteSet(to) /\ Cardinality(to) = len - n
  <2> DEFINE first == n + 1
  <2>1. first \in Int /\ len \in Int /\ to = first .. len
    BY <1>1
  <2> HIDE DEF first, to, len
  <2>2. /\ IsFiniteSet(first .. len)
        /\ Cardinality(first .. len) = IF first > len THEN 0 ELSE len - first + 1
    BY <2>1, FS_Interval
  <2>3. Cardinality(first .. len) = len - n
    BY <1>1, <2>2 DEF first
  <2> QED BY <2>1, <2>2, <2>3
<1> HIDE DEF from, to
<1>9. Cardinality(to) < Cardinality(from)
  BY <1>1, <1>2, <1>7, <1>8
<1>10. \E x, y \in from : x # y /\ holder[x] = holder[y]
  BY <1>6, <1>7, <1>8, <1>9, FS_PigeonHole
<1> QED BY <1>4, <1>10

(* The members are live, and seated as they should be.                     *)
SeatsHeld ==
  /\ Members \subseteq cidMap /\ \A c \in cidMap : accepted[c] # NoIp
  /\ SeatedAs(clients, member, PlayerCount)

(* However the number of players is arrived at.                            *)
LEMMA Reseated ==
  ASSUME clients' \in Seq(Conns), NEW n, SeatedAs(clients', member', n)
  PROVE  SeatedAs(clients', member', PlayerCount') /\ PlayerCount' = n
<1>1. Cardinality({i \in 1 .. Len(clients') : ~member'[clients'[i]].spectator}) = n
  BY PrefixCount
<1>2. PlayerCount' = n
  BY <1>1 DEF PlayerCount
<1> QED BY <1>2

LEMMA SeatsNext == TypeOK /\ OneLobby /\ SeatsHeld /\ [Next]_vars => SeatsHeld'
<1> SUFFICES ASSUME TypeOK, OneLobby, SeatsHeld, [Next]_vars PROVE SeatsHeld'
  OBVIOUS
<1> USE DEF lobbyVars, netVars
<1> DEFINE n == PlayerCount
<1>0. /\ clients \in Seq(Conns) /\ Len(clients) \in Nat /\ n \in Nat /\ n <= Len(clients)
      /\ Members \subseteq Conns /\ Members = Entries(clients) /\ Members' = Entries(clients')
      /\ NamesDiffer(clients) /\ SeatedAs(clients, member, n)
  BY PlayerCountType, LenProperties DEF TypeOK, Members, Entries, OneLobby, SeatsHeld
<1>00. clients' \in Seq(Conns) /\ cidMap' \subseteq Conns
  BY TypeNext DEF TypeOK
<1> HIDE DEF n
<1>1. ASSUME UNCHANGED clients, \A d \in Conns : SameSelf(member[d], member'[d])
      PROVE  SeatedAs(clients', member', PlayerCount')
  <2>1. \A d \in Entries(clients) : member'[d].spectator = member[d].spectator
                                    /\ member'[d].slot = member[d].slot
    BY <1>0, <1>1 DEF SameSelf
  <2>2. SeatedAs(clients', member', n)
    BY <1>0, <1>1, <2>1, SameSeats
  <2> QED BY <1>00, <2>2, Reseated
<1>2. CASE EmptyLobby
  <2>1. clients' = <<>> /\ cidMap' = {} /\ Members' = {}
    BY <1>2 DEF EmptyLobby, Members
  <2>2. SeatedAs(clients', member', 0)
    BY <2>1, ServerAssumption DEF SeatedAs, MaxPlayers
  <2> QED BY <1>00, <2>1, <2>2, Reseated DEF SeatsHeld
<1>3. ASSUME NEW c \in Conns, Close(c) PROVE SeatsHeld'
  <2>0. /\ cidMap' = cidMap \ {c} /\ accepted' = [accepted EXCEPT ![c] = NoIp]
        /\ \A d \in Conns : d # c => member'[d] = member[d]
    BY <1>3 DEF Close, TypeOK
  <2>1. /\ \A d \in cidMap' : accepted'[d] # NoIp
    BY <2>0 DEF SeatsHeld, TypeOK
  <2>2. CASE IsMember(c)
    <3>1. PlaceOf(c) \in 1 .. Len(clients) /\ clients[PlaceOf(c)] = c
      BY <2>2, PlaceOfMember
    <3>2. clients' = RemoveAt(clients, PlaceOf(c))
      BY <1>3, <2>2 DEF Close
    <3>3. Members' \subseteq Members \ {c}
      BY <1>0, <3>1, <3>2, RemovedIsOut
    <3>4. PICK m : SeatedAs(clients', member, m)
      BY <1>0, <3>1, <3>2, SeatsAfterLeaving
    <3>5. \A d \in Entries(clients') : member'[d].spectator = member[d].spectator
                                       /\ member'[d].slot = member[d].slot
      BY <1>0, <2>0, <3>3
    <3>6. SeatedAs(clients', member', m)
      BY <1>00, <3>4, <3>5, SameSeats
    <3> QED BY <1>00, <2>0, <2>1, <3>3, <3>6, Reseated DEF SeatsHeld
  <2>3. CASE ~IsMember(c)
    <3>1. clients' = clients /\ Members' = Members /\ c \notin Members
      BY <1>0, <1>3, <2>3 DEF Close, IsMember
    <3>2. \A d \in Entries(clients') : member'[d].spectator = member[d].spectator
                                       /\ member'[d].slot = member[d].slot
      BY <1>0, <2>0, <3>1
    <3>3. SeatedAs(clients', member', n)
      BY <1>0, <1>00, <3>1, <3>2, SameSeats
    <3> QED BY <1>00, <2>0, <2>1, <3>1, <3>3, Reseated DEF SeatsHeld
  <2> QED BY <2>2, <2>3
<1>4. ASSUME NEW c \in Conns, NEW spectator \in BOOLEAN, NEW secret \in Secrets \cup {NoSecret},
             JoinReq(c, spectator, secret)
      PROVE  SeatsHeld'
  <2>0. UNCHANGED netVars /\ c \in cidMap
    BY <1>4 DEF JoinReq
  <2>1. CASE JoinResult(c, spectator, secret) # "ok"
    <3>1. UNCHANGED lobbyVars
      BY <1>4, <2>1 DEF JoinReq
    <3>2. SeatedAs(clients', member', PlayerCount')
      BY <1>1, <3>1 DEF SameSelf
    <3> QED BY <2>0, <3>1, <3>2 DEF SeatsHeld, Members
  <2>2. CASE JoinResult(c, spectator, secret) = "ok"
    <3>1. /\ ~spectator => n < MaxPlayers
          /\ spectator => SpectatorCount < MaxSpectators
          /\ spectator /\ SpectatorSlots # 0 => SpectatorCount < SpectatorSlots
          /\ \A d \in Members : NameOf[d] # NameOf[c]
      <4>1. SpectatorCount \in Int
        BY <1>0 DEF SpectatorCount, n
      <4> QED BY <1>0, <2>2, <4>1, ServerAssumption DEF JoinResult, n, MaxPlayers
    <3>2. /\ TakePlace(c, spectator, secret)
          /\ member' = [member EXCEPT ![c] = NewMember(spectator, secret)]
      BY <1>4, <2>2 DEF JoinReq, Join, TakePlace
    <3>3. c \notin Members
      BY <3>1
    <3>4. /\ \A d \in Entries(clients) : member'[d].spectator = member[d].spectator
                                         /\ member'[d].slot = member[d].slot
          /\ member'[c] = NewMember(spectator, secret)
      BY <1>0, <3>2, <3>3 DEF TypeOK
    <3>5. SeatedAs(clients, member', n)
      BY <1>0, <3>4, SameSeats
    <3>6. member'[c].spectator = spectator
      BY <3>4 DEF NewMember, NoMember
    <3>7. CASE ~spectator
      <4>1. clients' = InsertAt(clients, n + 1, c)
        BY <3>2, <3>7 DEF TakePlace, n
      <4>2. member'[c].slot = NoSlot
        BY <3>4, <3>7 DEF NewMember, NoMember
      <4>3. SeatedAs(clients', member', n + 1)
        BY <1>0, <3>1, <3>5, <3>6, <3>7, <4>1, <4>2, SeatsAfterPlayer
      <4>4. n + 1 \in 1 .. Len(clients) + 1
        BY <1>0
      <4>5. Members' \subseteq Members \cup {c}
        BY <1>0, <3>1, <4>1, <4>4, InsertedIsNew
      <4> QED BY <1>00, <2>0, <4>3, <4>5, Reseated DEF SeatsHeld
    <3>8. CASE spectator
      <4>1. clients' = Append(clients, c)
        BY <3>2, <3>8 DEF TakePlace
      <4>2. ASSUME SpectatorSlots # 0
            PROVE  /\ member'[c].slot \in 0 .. SpectatorSlots - 1
                   /\ \A d \in Entries(clients) : member'[d].slot # member'[c].slot
        <5>1. member'[c].slot = LowestFreeSlot
          BY <3>4, <3>8, <4>2 DEF NewMember, NoMember
        <5>2. LowestFreeSlot \in Nat /\ LowestFreeSlot <= Len(clients) - n
          BY <1>0, LowestFreeSlotIsLow
        <5>3. Len(clients) - n < SpectatorSlots
          BY <3>1, <3>8, <4>2 DEF SpectatorCount, n
        <5>4. \A d \in Members : member[d].slot # LowestFreeSlot
          BY <1>0, LowestFreeSlotIsFree
        <5> QED BY <1>0, <3>4, <5>1, <5>2, <5>3, <5>4, ServerAssumption
      <4>3. Len(clients) - n < MaxSpectators
        BY <3>1, <3>8 DEF SpectatorCount, n
      <4>4. SeatedAs(clients', member', n)
        BY <1>0, <3>5, <3>6, <3>8, <4>1, <4>2, <4>3, SeatsAfterSpectator
      <4>5. Members' \subseteq Members \cup {c}
        <5>1. /\ Len(clients') = Len(clients) + 1
              /\ \A j \in 1 .. Len(clients) + 1 :
                   clients'[j] = IF j = Len(clients) + 1 THEN c ELSE clients[j]
          BY <1>0, <4>1, AppendProperties
        <5> QED BY <1>0, <5>1 DEF Entries
      <4> QED BY <1>00, <2>0, <4>4, <4>5, Reseated DEF SeatsHeld
    <3> QED BY <3>7, <3>8
  <2> QED BY <2>1, <2>2
<1>5. ASSUME NEW c \in Conns, NEW loser \in Sides, ReportResults(c, loser) PROVE SeatsHeld'
  <2>1. \A d \in Conns : SameSelf(member[d], member'[d])
    BY <1>5, SelfKept
  <2>2. UNCHANGED netVars
    BY <1>5 DEF ReportResults
  <2>3. CASE loser < n /\ n > 1
    <3> DEFINE moved == clients[loser + 1]
               rest  == RemoveAt(clients, loser + 1)
    <3>1. loser + 1 \in 1 .. Len(clients) /\ loser + 1 \in 1 .. n /\ n - 1 + 1 = n
      BY <1>0, <2>3 DEF Sides
    <3>2. moved \in Conns /\ moved \in Entries(clients)
      BY <1>0, <3>1 DEF Entries
    <3>3. /\ NamesDiffer(rest) /\ Entries(rest) \subseteq Entries(clients) \ {moved}
          /\ rest \in Seq(Conns) /\ Len(rest) = Len(clients) - 1
      BY <1>0, <3>1, RemovedIsOut, RemoveAtProperties
    <3>4. SeatedAs(rest, member, n - 1)
      <4>1. SeatedAs(rest, member, IF loser + 1 <= n THEN n - 1 ELSE n)
        BY <1>0, <3>1, SeatsAfterLeaving
      <4> QED BY <3>1, <4>1
    <3>5. clients' = InsertAt(rest, n - 1 + 1, moved)
      BY <1>5, <2>3, <3>1 DEF ReportResults, Rotate, n
    <3>6. ~member[moved].spectator /\ member[moved].slot = NoSlot
      BY <1>0, <3>1 DEF SeatedAs
    <3>7. n - 1 < MaxPlayers
      BY <1>0 DEF SeatedAs, MaxPlayers
    <3>8. Members' \subseteq Members
      <4>1. \A d \in Entries(rest) : NameOf[d] # NameOf[moved]
        BY <1>0, <3>1, <3>3 DEF Entries, NamesDiffer
      <4>2. n - 1 + 1 \in 1 .. Len(rest) + 1
        BY <1>0, <2>3, <3>1, <3>3
      <4> HIDE DEF moved, rest
      <4>3. Entries(InsertAt(rest, n - 1 + 1, moved)) \subseteq Entries(rest) \cup {moved}
        BY <3>2, <3>3, <4>1, <4>2, InsertedIsNew
      <4> QED BY <1>0, <3>2, <3>3, <3>5, <4>3
    <3> HIDE DEF moved, rest
    <3>9. SeatedAs(clients', member, n - 1 + 1)
      BY <3>2, <3>3, <3>4, <3>5, <3>6, <3>7, SeatsAfterPlayer
    <3>10. \A d \in Entries(clients') : member'[d].spectator = member[d].spectator
                                        /\ member'[d].slot = member[d].slot
      BY <1>0, <2>1, <3>8 DEF SameSelf
    <3>11. SeatedAs(clients', member', n - 1 + 1)
      BY <1>00, <3>9, <3>10, SameSeats
    <3> QED BY <1>00, <2>2, <3>8, <3>11, Reseated DEF SeatsHeld
  <2>4. CASE ~(loser < n /\ n > 1)
    <3>1. clients' = clients /\ Members' = Members
      BY <1>5, <2>4 DEF ReportResults, Rotate, n, Members
    <3>2. SeatedAs(clients', member', PlayerCount')
      BY <1>1, <2>1, <3>1
    <3> QED BY <2>2, <3>1, <3>2 DEF SeatsHeld
  <2> QED BY <2>3, <2>4
<1>6. ASSUME UNCHANGED clients, \A d \in Conns : SameSelf(member[d], member'[d]),
             cidMap \subseteq cidMap', \A c \in cidMap' : accepted'[c] # NoIp
      PROVE  SeatsHeld'
  <2>1. SeatedAs(clients', member', PlayerCount')
    BY <1>1, <1>6
  <2>2. Members' = Members
    BY <1>6 DEF Members
  <2> QED BY <1>6, <2>1, <2>2 DEF SeatsHeld
<1>7. ASSUME UNCHANGED netVars, UNCHANGED clients, \A d \in Conns : SameSelf(member[d], member'[d])
      PROVE  SeatsHeld'
  BY <1>6, <1>7 DEF SeatsHeld
<1>8. ASSUME NEW c \in Conns,
             \/ \E chara \in Charas : SetChara(c, chara)
             \/ Unready(c) \/ BattleLoaded(c) \/ Return(c) \/ DirectOffer(c)
      PROVE  SeatsHeld'
  <2>1. UNCHANGED netVars /\ UNCHANGED clients
    BY <1>8 DEF SetChara, Unready, BattleLoaded, Return, DirectOffer, Offer
  <2>2. \A d \in Conns : SameSelf(member[d], member'[d])
    BY <1>8, SelfKept
  <2> QED BY <1>7, <2>1, <2>2
<1>9. CASE FinishStep \/ ResetBattleSync
  <2>1. UNCHANGED netVars /\ UNCHANGED clients
    BY <1>9 DEF FinishStep, ResetBattleSync
  <2>2. ASSUME NEW d \in Conns PROVE SameSelf(member[d], member'[d])
    BY <1>9, SelfKept, Zenon
  <2> QED BY <1>7, <2>1, <2>2
<1>10. ASSUME NEW c \in Conns, Connect(c) \/ Hello(c) PROVE SeatsHeld'
  <2>1. UNCHANGED clients /\ \A d \in Conns : SameSelf(member[d], member'[d])
    BY <1>10 DEF Connect, Hello, SameSelf
  <2>2. cidMap \subseteq cidMap' /\ \A d \in cidMap' : accepted'[d] # NoIp
    BY <1>10, ServerAssumption DEF Connect, Hello, SeatsHeld, TypeOK
  <2> QED BY <1>6, <2>1, <2>2
<1>11. ASSUME NEW c \in Conns,
             \/ SnapshotMsg(c) \/ ReportDesync(c) \/ Forward(c)
             \/ \E seed \in Seeds : SetEnv(c, seed)
             \/ \E stage \in Stages : SetStage(c, stage)
             \/ \E req \in RequestsOf[c] : Ready(c, req)
      PROVE  SeatsHeld'
  BY <1>7, <1>11 DEF SnapshotMsg, ReportDesync, ReportUpTo, Forward, SetEnv, SetStage,
                     SetPreBattle, Ready, SameSelf
<1>12. CASE UNCHANGED vars
  BY <1>7, <1>12 DEF vars, SameSelf
<1> QED
  BY <1>2, <1>3, <1>4, <1>5, <1>8, <1>9, <1>10, <1>11, <1>12
     DEF Next, Owner, Handle, Assign, Release

LEMMA SeatsInit == Init => SeatsHeld
<1> SUFFICES ASSUME Init PROVE SeatsHeld
  OBVIOUS
<1>1. clients = <<>> /\ clients \in Seq(Conns) /\ Members = {} /\ cidMap = {}
  BY EmptySeq DEF Init, Members
<1>2. SeatedAs(clients, member, 0)
  BY <1>1, ServerAssumption DEF SeatedAs, MaxPlayers
<1>3. PlayerCount = 0
  BY <1>1, <1>2, PrefixCount DEF PlayerCount
<1> QED BY <1>1, <1>2, <1>3 DEF SeatsHeld

(* The members are distinct live connections, the players first and within *)
(* their limit, no pipe shared by two spectators.                          *)
THEOREM SeatsCorrect == Spec => []Seating
<1>1. TypeOK /\ OneLobby /\ SeatsHeld => Seating
  BY DEF SeatsHeld, SeatedAs, Seating, OneLobby, NamesDiffer, SpectatorCount
<1> QED BY <1>1, LobbyInit, SeatsInit, LobbyNext, SeatsNext, TypeCorrect, PTL DEF Spec

-----------------------------------------------------------------------------
(* The places of the players through joins and results.                    *)

(* Putting a new one last.                                                 *)
LEMMA AppendedIsNew ==
  ASSUME NEW seq \in Seq(Conns), NEW e \in Conns
  PROVE  /\ Entries(Append(seq, e)) = Entries(seq) \cup {e}
         /\ Len(Append(seq, e)) = Len(seq) + 1
         /\ \A j \in 1 .. Len(seq) : Append(seq, e)[j] = seq[j]
<1> DEFINE more == Append(seq, e)
<1>1. /\ Len(seq) \in Nat /\ Len(more) = Len(seq) + 1
      /\ \A j \in 1 .. Len(seq) + 1 : more[j] = IF j = Len(seq) + 1 THEN e ELSE seq[j]
  BY LenProperties, AppendProperties
<1> HIDE DEF more
<1>2. \A j \in 1 .. Len(seq) : more[j] = seq[j] /\ j \in 1 .. Len(more)
  BY <1>1
<1>3. Len(seq) + 1 \in 1 .. Len(more) /\ more[Len(seq) + 1] = e
  BY <1>1
<1>4. \A j \in 1 .. Len(more) : j = Len(seq) + 1 \/ j \in 1 .. Len(seq)
  BY <1>1
<1>5. Entries(more) = Entries(seq) \cup {e}
  BY <1>2, <1>3, <1>4 DEF Entries
<1> QED BY <1>1, <1>2, <1>5 DEF more

(* The places there are, in numbers.                                       *)
LEMMA Places ==
  ASSUME TypeOK, SeatsHeld
  PROVE  /\ clients \in Seq(Conns) /\ Len(clients) \in Nat
         /\ PlayerCount \in 0 .. 2 /\ PlayerCount <= Len(clients)
         /\ \A i \in 1 .. Len(clients) :
              clients[i] \in Conns /\ (~member[clients[i]].spectator <=> i <= PlayerCount)
BY LenProperties DEF TypeOK, SeatsHeld, SeatedAs, MaxPlayers

(* A result has the two players change places, or nobody.                  *)
LEMMA RotatedSeats ==
  ASSUME TypeOK, SeatsHeld, NEW loser \in Sides, Rotate(loser)
  PROVE  /\ Len(clients') = Len(clients)
         /\ \A i \in 1 .. Len(clients) :
              clients'[i] = clients[IF PlayerCount = 2 /\ loser = 0 /\ i <= 2 THEN 3 - i ELSE i]
<1> DEFINE n == PlayerCount
           at == loser + 1
           moved == clients[at]
           rest == RemoveAt(clients, at)
<1>0. /\ clients \in Seq(Conns) /\ Len(clients) \in Nat /\ n \in 0 .. 2 /\ n <= Len(clients)
      /\ loser \in 0 .. 1 /\ at = loser + 1
  BY Places DEF Sides
<1>1. CASE ~(loser < n /\ n > 1)
  <2>1. clients' = clients
    BY <1>1 DEF Rotate
  <2>2. ~(PlayerCount = 2 /\ loser = 0)
    BY <1>1
  <2> QED BY <2>1, <2>2
<1>2. CASE loser < n /\ n > 1
  <2>1. n = 2 /\ at \in 1 .. Len(clients) /\ Len(clients) >= 2
    BY <1>0, <1>2
  <2>2. clients' = InsertAt(rest, 2, moved)
    BY <1>2, <2>1 DEF Rotate
  <2>3. at \in 1 .. Len(clients)
    BY <2>1
  <2> HIDE DEF n, at
  <2>4. /\ rest \in Seq(Conns) /\ Len(rest) = Len(clients) - 1
        /\ \A j \in 1 .. Len(clients) - 1 : rest[j] = IF j < at THEN clients[j] ELSE clients[j + 1]
    BY <1>0, <2>3, RemoveAtProperties
  <2>5. moved \in Conns
    BY <1>0, <2>3, ElementOfSeq
  <2>6. 2 \in 1 .. Len(rest) + 1
    BY <1>0, <2>1, <2>4
  <2> HIDE DEF rest, moved
  <2>7. /\ Len(clients') = Len(rest) + 1
        /\ \A j \in 1 .. Len(rest) + 1 :
             clients'[j] = IF j < 2 THEN rest[j] ELSE IF j = 2 THEN moved ELSE rest[j - 1]
    BY <2>2, <2>4, <2>5, <2>6, InsertAtProperties
  <2>8. ASSUME NEW i \in 1 .. Len(clients)
        PROVE  clients'[i] = clients[IF loser = 0 /\ i <= 2 THEN 3 - i ELSE i]
    <3>1. CASE i = 1
      <4>1. clients'[1] = rest[1] /\ rest[1] = IF 1 < at THEN clients[1] ELSE clients[1 + 1]
        BY <1>0, <2>1, <2>4, <2>7
      <4> QED BY <1>0, <3>1, <4>1
    <3>2. CASE i = 2
      <4>1. clients'[2] = clients[at]
        BY <1>0, <2>1, <2>4, <2>7 DEF moved
      <4> QED BY <1>0, <3>2, <4>1
    <3>3. CASE i > 2
      <4>1. clients'[i] = rest[i - 1]
        BY <1>0, <2>1, <2>4, <2>7, <3>3
      <4>2. i - 1 \in 1 .. Len(clients) - 1 /\ ~(i - 1 < at) /\ i - 1 + 1 = i
        BY <1>0, <3>3
      <4>3. rest[i - 1] = clients[i - 1 + 1]
        BY <2>4, <4>2
      <4> QED BY <3>3, <4>1, <4>2, <4>3
    <3> QED BY <3>1, <3>2, <3>3
  <2>9. PlayerCount = 2
    BY <2>1 DEF n
  <2> QED BY <1>0, <2>4, <2>7, <2>8, <2>9
<1> QED BY <1>1, <1>2

(* The same players, in other seats.                                       *)
LEMMA RotatedMembers ==
  ASSUME TypeOK, SeatsHeld, NEW loser \in Sides, Rotate(loser)
  PROVE  Members' = Members
<1>1. Len(clients) \in Nat /\ (PlayerCount = 2 => 2 <= Len(clients))
  BY Places
<1>2. \A i \in 1 .. Len(clients) : PlayerCount = 2 /\ i <= 2 => 3 - i \in 1 .. Len(clients)
  BY <1>1
<1>3. /\ Len(clients') = Len(clients)
      /\ \A i \in 1 .. Len(clients) :
           clients'[i] = clients[IF PlayerCount = 2 /\ loser = 0 /\ i <= 2 THEN 3 - i ELSE i]
  BY RotatedSeats
<1>4. ASSUME NEW i \in 1 .. Len(clients) PROVE clients'[i] \in Members
  BY <1>2, <1>3 DEF Members
<1>5. ASSUME NEW i \in 1 .. Len(clients) PROVE clients[i] \in Members'
  <2>1. CASE PlayerCount = 2 /\ loser = 0 /\ i <= 2
    <3>1. 3 - i \in 1 .. Len(clients) /\ 3 - i <= 2 /\ 3 - (3 - i) = i
      BY <1>2, <2>1
    <3>2. clients'[3 - i] = clients[i]
      BY <1>3, <2>1, <3>1
    <3> QED BY <1>3, <3>1, <3>2 DEF Members
  <2>2. CASE ~(PlayerCount = 2 /\ loser = 0 /\ i <= 2)
    BY <1>3, <2>2 DEF Members
  <2> QED BY <2>1, <2>2
<1> QED BY <1>3, <1>4, <1>5 DEF Members

-----------------------------------------------------------------------------
(* Direct play.                                                            *)

(* Only players hold an endpoint; what has been exchanged is due and is    *)
(* each other's; what is due is exchanged by the end of the Step.          *)
Pairing ==
  /\ \A c \in Conns : ~IsPlayer(c) => peer[c] = Nobody
  /\ directExchanged =>
       PairDue(member) /\ peer[clients[1]] = clients[2] /\ peer[clients[2]] = clients[1]
  /\ PairDue(member) => directExchanged \/ inStep \/ dataDirty

(* Seats, offers and endpoints as they were.                               *)
LEMMA NoPairingNews ==
  ASSUME TypeOK, SeatsHeld, Pairing, UNCHANGED <<clients, peer, directExchanged>>,
         \A d \in Members : /\ SameSelf(member[d], member'[d])
                            /\ member'[d].offered = member[d].offered,
         inStep \/ dataDirty => inStep' \/ dataDirty'
  PROVE  Pairing'
<1>1. Members' = Members
  BY DEF Members
<1>2. \A i \in 1 .. Len(clients) : member'[clients[i]].spectator = member[clients[i]].spectator
                                  /\ member'[clients[i]].offered = member[clients[i]].offered
  BY DEF Members, SameSelf
<1>3. PlayerCount' = PlayerCount
  BY <1>2 DEF PlayerCount
<1>4. \A c \in Conns : IsPlayer(c)' = IsPlayer(c)
  BY <1>1 DEF IsPlayer, SameSelf
<1>5. PlayerCount \in Nat /\ PlayerCount <= Len(clients) /\ Len(clients) \in Nat
  BY Places
<1>6. PairDue(member)' = PairDue(member)
  BY <1>2, <1>3, <1>5 DEF PairDue, MaxPlayers
<1> QED BY <1>4, <1>6 DEF Pairing

(* Exchanging what is due.                                                 *)
LEMMA PairedNow ==
  ASSUME TypeOK, OneLobby, SeatsHeld, Pairing, NEW members, PairDue(members),
         peer' = Paired
  PROVE  /\ peer'[clients[1]] = clients[2] /\ peer'[clients[2]] = clients[1]
         /\ \A c \in Conns : ~IsPlayer(c) => peer'[c] = Nobody
<1>1. 1 \in 1 .. Len(clients) /\ 2 \in 1 .. Len(clients) /\ 2 <= PlayerCount
  BY Places DEF PairDue, MaxPlayers
<1>2. /\ clients[1] \in Conns /\ clients[2] \in Conns /\ clients[1] # clients[2]
      /\ IsPlayer(clients[1]) /\ IsPlayer(clients[2])
  <2>1. clients[1] # clients[2]
    BY <1>1 DEF OneLobby, NamesDiffer
  <2>2. ~member[clients[1]].spectator /\ ~member[clients[2]].spectator
    BY <1>1, Places
  <2> QED BY <1>1, <2>1, <2>2, Places DEF IsPlayer, Members
<1>3. peer \in [Conns -> Conns \cup {Nobody}]
  BY DEF TypeOK
<1> QED BY <1>2, <1>3 DEF Paired, Pairing

LEMMA PairingNext == TypeOK /\ OneLobby /\ SeatsHeld /\ Pairing /\ [Next]_vars => Pairing'
<1> SUFFICES ASSUME TypeOK, OneLobby, SeatsHeld, Pairing, [Next]_vars PROVE Pairing'
  OBVIOUS
<1> USE DEF lobbyVars, netVars, stepVars
<1>0. /\ clients \in Seq(Conns) /\ Len(clients) \in Nat
      /\ Members \subseteq Conns /\ Members = Entries(clients) /\ Members' = Entries(clients')
      /\ NamesDiffer(clients) /\ SeatsHeld' /\ TypeOK'
      /\ peer \in [Conns -> Conns \cup {Nobody}] /\ member \in [Conns -> MemberRecord]
  BY TypeNext, SeatsNext, LenProperties DEF TypeOK, Members, Entries, OneLobby
<1>1. ASSUME UNCHANGED <<clients, peer, directExchanged, member>>,
             inStep \/ dataDirty => inStep' \/ dataDirty'
      PROVE  Pairing'
  BY <1>1, NoPairingNews DEF SameSelf
<1>2. CASE EmptyLobby
  <2>1. clients # <<>> \/ ~directExchanged
    BY Places DEF Pairing, PairDue, MaxPlayers
  <2>2. /\ directExchanged' = FALSE /\ dataDirty'
        /\ \A c \in Conns : peer'[c] = Nobody
    BY <1>2, <2>1 DEF EmptyLobby
  <2> QED BY <2>2 DEF Pairing
<1>3. ASSUME NEW c \in Conns, Close(c) PROVE Pairing'
  <2>0. /\ peer' = [peer EXCEPT ![c] = Nobody]
        /\ \A d \in Conns : d # c => member'[d] = member[d]
    BY <1>0, <1>3 DEF Close
  <2>1. CASE IsMember(c)
    <3>1. PlaceOf(c) \in 1 .. Len(clients) /\ clients[PlaceOf(c)] = c
      BY <2>1, PlaceOfMember
    <3>2. clients' = RemoveAt(clients, PlaceOf(c)) /\ directExchanged' = FALSE /\ dataDirty'
      BY <1>3, <2>1 DEF Close
    <3>3. Members' = Members \ {c}
      BY <1>0, <3>1, <3>2, RemovedIsOut
    <3>4. ASSUME NEW d \in Conns, ~IsPlayer(d)' PROVE peer'[d] = Nobody
      <4>1. CASE d = c
        BY <1>0, <2>0, <4>1
      <4>2. CASE d # c
        <5>1. ~IsPlayer(d)
          BY <2>0, <3>3, <3>4, <4>2 DEF IsPlayer
        <5> QED BY <1>0, <2>0, <4>2, <5>1 DEF Pairing
      <4> QED BY <4>1, <4>2
    <3> QED BY <3>2, <3>4 DEF Pairing
  <2>2. CASE ~IsMember(c)
    <3>1. UNCHANGED <<clients, directExchanged, dataDirty, inStep>> /\ c \notin Members
      BY <1>3, <2>2 DEF Close, IsMember, TypeOK
    <3>2. peer[c] = Nobody
      BY <3>1 DEF Pairing, IsPlayer
    <3>3. peer' = peer
      BY <1>0, <2>0, <3>2
    <3>4. \A d \in Members : member'[d] = member[d]
      BY <1>0, <2>0, <3>1
    <3> QED BY <3>1, <3>3, <3>4, NoPairingNews DEF SameSelf
  <2> QED BY <2>1, <2>2
<1>4. ASSUME NEW c \in Conns, NEW spectator \in BOOLEAN, NEW secret \in Secrets \cup {NoSecret},
             JoinReq(c, spectator, secret)
      PROVE  Pairing'
  <2>0. UNCHANGED peer /\ inStep'
    BY <1>4 DEF JoinReq
  <2>1. CASE JoinResult(c, spectator, secret) # "ok"
    BY <1>1, <1>4, <2>0, <2>1 DEF JoinReq
  <2>2. CASE JoinResult(c, spectator, secret) = "ok"
    <3>1. \A d \in Members : NameOf[d] # NameOf[c]
      BY <2>2 DEF JoinResult
    <3>2. /\ TakePlace(c, spectator, secret)
          /\ member' = [member EXCEPT ![c] = NewMember(spectator, secret)]
      BY <1>4, <2>2 DEF JoinReq, Join, TakePlace
    <3>3. c \notin Members /\ (\A d \in Members : member'[d] = member[d])
      BY <1>0, <3>1, <3>2
    <3>4. Members' = Members \cup {c}
      <4>1. CASE spectator
        BY <1>0, <3>2, <4>1, AppendedIsNew DEF TakePlace
      <4>2. CASE ~spectator
        <5>1. PlayerCount + 1 \in 1 .. Len(clients) + 1
          BY Places
        <5> QED BY <1>0, <3>1, <3>2, <4>2, <5>1, InsertedIsNew DEF TakePlace
      <4> QED BY <4>1, <4>2
    <3>5. ASSUME NEW d \in Conns, ~IsPlayer(d)' PROVE peer'[d] = Nobody
      <4>1. ~IsPlayer(d)
        BY <3>3, <3>4, <3>5 DEF IsPlayer
      <4> QED BY <2>0, <4>1 DEF Pairing
    <3>6. ASSUME directExchanged'
          PROVE  PairDue(member)' /\ peer'[clients'[1]] = clients'[2]
                                  /\ peer'[clients'[2]] = clients'[1]
      <4>1. spectator /\ directExchanged /\ clients' = Append(clients, c)
        BY <3>2, <3>6 DEF TakePlace
      <4>2. 1 \in 1 .. Len(clients) /\ 2 \in 1 .. Len(clients) /\ 2 <= PlayerCount
        BY <4>1, Places DEF Pairing, PairDue, MaxPlayers
      <4>3. clients'[1] = clients[1] /\ clients'[2] = clients[2] /\ Len(clients') = Len(clients) + 1
        BY <1>0, <4>1, <4>2, AppendedIsNew
      <4>4. clients[1] \in Members /\ clients[2] \in Members
        BY <4>2 DEF Members
      <4>5. member'[clients'[1]] = member[clients[1]] /\ member'[clients'[2]] = member[clients[2]]
        BY <3>3, <4>3, <4>4
      <4>6. PlayerCount' >= 2
        <5>1. ~member'[clients'[2]].spectator /\ 2 \in 1 .. Len(clients')
          BY <1>0, <4>2, <4>3, <4>5, Places
        <5>2. ~member'[clients'[2]].spectator <=> 2 <= PlayerCount'
          BY <1>0, <5>1 DEF SeatsHeld, SeatedAs
        <5>3. PlayerCount' \in Nat
          BY <1>0 DEF SeatsHeld, SeatedAs
        <5> QED BY <5>1, <5>2, <5>3
      <4> QED BY <2>0, <4>1, <4>3, <4>5, <4>6 DEF Pairing, PairDue, MaxPlayers
    <3> QED BY <2>0, <3>5, <3>6 DEF Pairing
  <2> QED BY <2>1, <2>2
<1>5. ASSUME NEW c \in Conns, NEW loser \in Sides, ReportResults(c, loser) PROVE Pairing'
  <2>0. UNCHANGED <<peer, directExchanged>> /\ inStep' /\ Rotate(loser)
    BY <1>5 DEF ReportResults
  <2>1. ASSUME NEW d \in Conns
        PROVE  SameSelf(member[d], member'[d]) /\ member'[d].offered = member[d].offered
    BY <1>5, PhaseChanges, Zenon
  <2>2. Members' = Members
    BY <2>0, RotatedMembers
  <2>3. ASSUME NEW d \in Conns, ~IsPlayer(d)' PROVE peer'[d] = Nobody
    <3>1. ~IsPlayer(d)
      BY <2>1, <2>2, <2>3 DEF IsPlayer, SameSelf
    <3> QED BY <2>0, <3>1 DEF Pairing
  <2>4. ASSUME directExchanged'
        PROVE  PairDue(member)' /\ peer'[clients'[1]] = clients'[2]
                                /\ peer'[clients'[2]] = clients'[1]
    <3>1. PairDue(member) /\ peer[clients[1]] = clients[2] /\ peer[clients[2]] = clients[1]
      BY <2>0, <2>4 DEF Pairing
    <3>2. 1 \in 1 .. Len(clients) /\ 2 \in 1 .. Len(clients) /\ PlayerCount = 2
      BY <3>1, Places DEF PairDue, MaxPlayers
    <3>3. clients[1] \in Conns /\ clients[2] \in Conns
      BY <3>2, Places
    <3>4. /\ Len(clients') = Len(clients)
          /\ clients'[1] = clients[IF loser = 0 THEN 2 ELSE 1]
          /\ clients'[2] = clients[IF loser = 0 THEN 1 ELSE 2]
      BY <2>0, <3>2, RotatedSeats
    <3>5. PlayerCount' >= 2
      <4>1. ~member'[clients'[2]].spectator /\ 2 \in 1 .. Len(clients')
        BY <2>1, <3>2, <3>3, <3>4, Places DEF SameSelf
      <4>2. ~member'[clients'[2]].spectator <=> 2 <= PlayerCount'
        BY <1>0, <4>1 DEF SeatsHeld, SeatedAs
      <4>3. PlayerCount' \in Nat
        BY <1>0 DEF SeatsHeld, SeatedAs
      <4> QED BY <4>1, <4>2, <4>3
    <3>6. member'[clients'[1]].offered /\ member'[clients'[2]].offered
      BY <2>1, <3>1, <3>3, <3>4 DEF PairDue
    <3> QED BY <2>0, <3>1, <3>4, <3>5, <3>6 DEF PairDue, MaxPlayers
  <2> QED BY <2>0, <2>3, <2>4 DEF Pairing
<1>6. ASSUME NEW c \in Conns, DirectOffer(c) PROVE Pairing'
  <2>0. UNCHANGED clients /\ inStep'
    BY <1>6 DEF DirectOffer, Offer
  <2>1. \A d \in Conns : SameSelf(member[d], member'[d])
    BY <1>6, SelfKept
  <2>2. Members' = Members
    BY <2>0 DEF Members
  <2>3. \A d \in Conns : IsPlayer(d)' = IsPlayer(d)
    BY <2>1, <2>2 DEF IsPlayer, SameSelf
  <2>4. PlayerCount' = PlayerCount
    <3>1. \A i \in 1 .. Len(clients) : member'[clients[i]].spectator = member[clients[i]].spectator
      BY <2>1, Places DEF SameSelf
    <3> QED BY <2>0, <3>1 DEF PlayerCount
  <2>5. PairDue(member)' = PairDue(member')
    BY <2>0, <2>4 DEF PairDue
  <2>6. CASE PairDue(member')
    <3>1. directExchanged' = TRUE /\ peer' = Paired
      BY <1>6, <2>6 DEF DirectOffer
    <3>2. /\ peer'[clients[1]] = clients[2] /\ peer'[clients[2]] = clients[1]
          /\ \A d \in Conns : ~IsPlayer(d) => peer'[d] = Nobody
      BY <2>6, <3>1, PairedNow
    <3> QED BY <2>0, <2>3, <2>5, <2>6, <3>1, <3>2 DEF Pairing
  <2>7. CASE ~PairDue(member')
    <3>1. directExchanged' = FALSE /\ peer' = [peer EXCEPT ![c] = Nobody]
      BY <1>6, <2>7 DEF DirectOffer, Unpaired
    <3>2. \A d \in Conns : ~IsPlayer(d)' => peer'[d] = Nobody
      BY <1>0, <2>3, <3>1 DEF Pairing
    <3> QED BY <2>0, <3>1, <3>2 DEF Pairing
  <2> QED BY <2>6, <2>7
<1>7. CASE FinishStep
  <2>0. UNCHANGED clients
    BY <1>7 DEF FinishStep
  <2>1. ASSUME NEW d \in Conns
        PROVE  SameSelf(member[d], member'[d]) /\ member'[d].offered = member[d].offered
    BY <1>7, PhaseChanges, Zenon
  <2>2. \A d \in Conns : IsPlayer(d)' = IsPlayer(d)
    BY <2>0, <2>1 DEF IsPlayer, Members, SameSelf
  <2>3. PairDue(member)' = PairDue(member)
    <3>1. \A i \in 1 .. Len(clients) : member'[clients[i]].spectator = member[clients[i]].spectator
                                      /\ member'[clients[i]].offered = member[clients[i]].offered
      BY <2>1, Places DEF SameSelf
    <3>2. PlayerCount' = PlayerCount
      BY <2>0, <3>1 DEF PlayerCount
    <3>3. PlayerCount \in Nat /\ PlayerCount <= Len(clients) /\ Len(clients) \in Nat
      BY Places
    <3> QED BY <2>0, <3>1, <3>2, <3>3 DEF PairDue, MaxPlayers
  <2>4. CASE ~directExchanged /\ PairDue(member)
    <3>1. directExchanged' /\ peer' = Paired
      BY <1>7, <2>4 DEF FinishStep
    <3>2. /\ peer'[clients[1]] = clients[2] /\ peer'[clients[2]] = clients[1]
          /\ \A d \in Conns : ~IsPlayer(d) => peer'[d] = Nobody
      BY <2>4, <3>1, PairedNow
    <3> QED BY <2>0, <2>2, <2>3, <2>4, <3>1, <3>2 DEF Pairing
  <2>5. CASE ~(~directExchanged /\ PairDue(member))
    <3>1. directExchanged' = directExchanged /\ peer' = peer
      BY <1>7, <2>5 DEF FinishStep, TypeOK
    <3> QED BY <2>0, <2>2, <2>3, <2>5, <3>1 DEF Pairing
  <2> QED BY <2>4, <2>5
<1>8. ASSUME NEW c \in Conns,
             \/ \E chara \in Charas : SetChara(c, chara)
             \/ Unready(c) \/ BattleLoaded(c) \/ Return(c)
      PROVE  Pairing'
  <2>1. UNCHANGED <<clients, peer, directExchanged>>
    BY <1>8 DEF SetChara, Unready, BattleLoaded, Return
  <2>3. inStep \/ dataDirty => inStep' \/ dataDirty'
    <3>1. CASE Return(c)
      BY <3>1 DEF Return
    <3>2. CASE Unready(c) \/ BattleLoaded(c) \/ \E chara \in Charas : SetChara(c, chara)
      BY <3>2 DEF SetChara, Unready, BattleLoaded
    <3> QED BY <1>8, <3>1, <3>2
  <2>2. ASSUME NEW d \in Conns
        PROVE  SameSelf(member[d], member'[d]) /\ member'[d].offered = member[d].offered
    <3>1. CASE \E chara \in Charas : SetChara(c, chara)
      BY <3>1, PickChanges
    <3>2. CASE Unready(c) \/ BattleLoaded(c) \/ Return(c)
      BY <3>2, PhaseChanges, Zenon
    <3> QED BY <1>8, <3>1, <3>2
  <2> QED BY <1>0, <2>1, <2>2, <2>3, NoPairingNews
<1>9. CASE ResetBattleSync
  <2>1. UNCHANGED <<clients, peer, directExchanged, inStep, dataDirty>>
    BY <1>9 DEF ResetBattleSync
  <2>2. ASSUME NEW d \in Conns
        PROVE  SameSelf(member[d], member'[d]) /\ member'[d].offered = member[d].offered
    BY <1>9, PhaseChanges, Zenon
  <2> QED BY <1>0, <2>1, <2>2, NoPairingNews
<1>10. ASSUME NEW c \in Conns,
             \/ Connect(c) \/ Hello(c) \/ SnapshotMsg(c) \/ ReportDesync(c) \/ Forward(c)
             \/ \E seed \in Seeds : SetEnv(c, seed)
             \/ \E stage \in Stages : SetStage(c, stage)
             \/ \E req \in RequestsOf[c] : Ready(c, req)
      PROVE  Pairing'
  BY <1>1, <1>10 DEF Connect, Hello, SnapshotMsg, ReportDesync, ReportUpTo, Forward, SetEnv,
                    SetStage, SetPreBattle, Ready
<1>11. CASE UNCHANGED vars
  BY <1>1, <1>11 DEF vars
<1> QED
  BY <1>2, <1>3, <1>4, <1>5, <1>6, <1>7, <1>8, <1>9, <1>10, <1>11
     DEF Next, Owner, Handle, Assign, Release

(* Between Steps two players who both opted in hold each other's endpoint, *)
(* and nobody watching holds one.                                          *)
THEOREM DirectCorrect == Spec => []DirectPairing
<1>1. Init => Pairing
  <2> SUFFICES ASSUME Init PROVE Pairing
    OBVIOUS
  <2>1. /\ peer = [c \in Conns |-> Nobody] /\ directExchanged = FALSE /\ clients = <<>>
        /\ Len(clients) = 0 /\ clients \in Seq(Conns)
    BY EmptySeq DEF Init
  <2>2. ~PairDue(member)
    BY <2>1, PlayerCountType DEF PairDue, MaxPlayers
  <2> QED BY <2>1, <2>2 DEF Pairing
<1>2. TypeOK /\ Pairing => DirectPairing
  BY DEF Pairing, DirectPairing, IsPlayer, Settled, TypeOK, Members
<1> QED BY <1>1, <1>2, LobbyInit, SeatsInit, LobbyNext, SeatsNext, PairingNext, TypeCorrect,
           PTL DEF Spec

-----------------------------------------------------------------------------
(* Seats through the changes of places.                                    *)

(* A player has one seat.                                                  *)
LEMMA SeatOfPlayer ==
  ASSUME TypeOK, OneLobby, SeatsHeld, NEW c, IsPlayer(c)
  PROVE  /\ SideOf(c) \in Sides /\ SitsAt(c, SideOf(c))
         /\ \A s \in Sides : SitsAt(c, s) => s = SideOf(c)
<1>1. PlaceOf(c) \in 1 .. Len(clients) /\ clients[PlaceOf(c)] = c
  BY PlaceOfMember DEF IsPlayer, IsMember
<1>2. PlaceOf(c) <= PlayerCount /\ PlayerCount \in 0 .. 2 /\ Len(clients) \in Nat
  BY <1>1, Places DEF IsPlayer
<1>3. SideOf(c) \in Sides /\ SitsAt(c, SideOf(c))
  BY <1>1, <1>2 DEF SideOf, SitsAt, Sides
<1>4. ASSUME NEW s \in Sides, SitsAt(c, s) PROVE s = SideOf(c)
  <2>1. s + 1 \in 1 .. Len(clients) /\ clients[s + 1] = c
    BY <1>2, <1>4 DEF SitsAt, Sides
  <2>2. s + 1 = PlaceOf(c)
    BY <1>1, <2>1 DEF OneLobby, NamesDiffer
  <2> QED BY <1>1, <2>1, <2>2 DEF SideOf, Sides
<1> QED BY <1>3, <1>4

(* Nobody shares a seat, and who has one is a member.                      *)
LEMMA OneSeatEach ==
  ASSUME NEW s \in Sides, NEW c, SitsAt(c, s), TypeOK
  PROVE  c \in Members /\ \A d : SitsAt(d, s) => d = c
<1>1. Len(clients) \in Nat
  BY LenProperties DEF TypeOK
<1> QED BY <1>1 DEF SitsAt, Members, Sides

(* A player sits where it sat after somebody joined.                       *)
LEMMA JoinedSeats ==
  ASSUME TypeOK, OneLobby, SeatsHeld, NEW c \in Conns, NEW spectator, NEW secret,
         TakePlace(c, spectator, secret), NEW d, d # c, NEW s \in Sides
  PROVE  /\ SitsAt(d, s)' => SitsAt(d, s) \/ (d \in Members /\ ~IsPlayer(d))
         /\ IsPlayer(d) /\ SitsAt(d, s) => SitsAt(d, s)'
<1> DEFINE n == PlayerCount
           at == n + 1
<1>0. /\ clients \in Seq(Conns) /\ Len(clients) \in Nat /\ n \in 0 .. 2 /\ n <= Len(clients)
      /\ s \in 0 .. 1
  BY Places DEF Sides
<1>1. CASE spectator
  <2>1. clients' = Append(clients, c)
    BY <1>1 DEF TakePlace
  <2>2. /\ Len(clients') = Len(clients) + 1
        /\ \A j \in 1 .. Len(clients) + 1 :
             clients'[j] = IF j = Len(clients) + 1 THEN c ELSE clients[j]
    BY <1>0, <2>1, AppendProperties
  <2> QED BY <1>0, <2>2 DEF SitsAt
<1>2. CASE ~spectator
  <2>1. clients' = InsertAt(clients, at, c)
    BY <1>2 DEF TakePlace
  <2>2. at \in 1 .. Len(clients) + 1
    BY <1>0
  <2> HIDE DEF at
  <2>3. /\ Len(clients') = Len(clients) + 1
        /\ \A j \in 1 .. Len(clients) + 1 :
             clients'[j] = IF j < at THEN clients[j] ELSE IF j = at THEN c ELSE clients[j - 1]
    <3>1. clients \in Seq(Conns)
      BY <1>0
    <3> DEFINE more == InsertAt(clients, at, c)
    <3>2. /\ Len(more) = Len(clients) + 1
          /\ \A j \in 1 .. Len(clients) + 1 :
               more[j] = IF j < at THEN clients[j] ELSE IF j = at THEN c ELSE clients[j - 1]
      <4>1. more = InsertAt(clients, at, c)
        OBVIOUS
      <4> HIDE DEF more
      <4> QED BY <2>2, <3>1, <4>1, InsertedConn
    <3>3. clients' = more
      BY <2>1
    <3> HIDE DEF more
    <3> QED BY <3>2, <3>3
  <2>4. ASSUME SitsAt(d, s)' PROVE SitsAt(d, s) \/ (d \in Members /\ ~IsPlayer(d))
    <3>1. s + 1 \in 1 .. Len(clients) + 1 /\ clients'[s + 1] = d
      BY <1>0, <2>3, <2>4 DEF SitsAt
    <3>2. s + 1 # at
      BY <2>3, <3>1
    <3>3. CASE s + 1 < at
      BY <1>0, <2>2, <2>3, <3>1, <3>3 DEF SitsAt
    <3>4. CASE s + 1 > at
      <4>1. s \in 1 .. Len(clients) /\ d = clients[s] /\ s > n
        BY <1>0, <2>2, <2>3, <3>1, <3>4 DEF at
      <4>2. member[d].spectator
        BY <4>1, Places
      <4> QED BY <4>1, <4>2 DEF Members, IsPlayer
    <3> QED BY <1>0, <2>2, <3>2, <3>3, <3>4
  <2>5. ASSUME IsPlayer(d), SitsAt(d, s) PROVE SitsAt(d, s)'
    <3>1. s + 1 \in 1 .. Len(clients) /\ clients[s + 1] = d
      BY <1>0, <2>5 DEF SitsAt
    <3>2. s + 1 <= n
      BY <2>5, <3>1, Places DEF IsPlayer
    <3>3. clients'[s + 1] = d
      BY <1>0, <2>3, <3>1, <3>2 DEF at
    <3> QED BY <1>0, <2>3, <3>1, <3>3 DEF SitsAt
  <2> QED BY <2>4, <2>5
<1> QED BY <1>1, <1>2

(* What is kept by seat follows the players when they change seats.        *)
LEMMA RotatedMatch ==
  ASSUME TypeOK, SeatsHeld, NEW loser \in Sides, Rotate(loser), NEW s \in Sides
  PROVE  \E t \in Sides : /\ matchData'.chara[s] = matchData.chara[t]
                          /\ charaOwner'[s] = charaOwner[t]
                          /\ \A d : SitsAt(d, s)' <=> SitsAt(d, t)
                          /\ matchData'.ready[s] = Nobody
<1> DEFINE swap == PlayerCount = 2 /\ loser = 0
           t == IF swap THEN Other(s) ELSE s
<1>0. t \in Sides /\ s \in 0 .. 1 /\ (swap => t + 1 = 3 - (s + 1)) /\ (~swap => t = s)
  BY DEF Sides, Other
<1>1. /\ clients \in Seq(Conns) /\ Len(clients) \in Nat /\ PlayerCount \in 0 .. 2
      /\ PlayerCount <= Len(clients)
  BY Places
<1>2. /\ Len(clients') = Len(clients)
      /\ \A i \in 1 .. Len(clients) : clients'[i] = clients[IF swap /\ i <= 2 THEN 3 - i ELSE i]
  BY RotatedSeats, Zenon
<1>3. matchData'.chara[s] = matchData.chara[t] /\ charaOwner'[s] = charaOwner[t]
      /\ matchData'.ready[s] = Nobody
  <2>1. CASE swap
    <3>1. loser < PlayerCount /\ PlayerCount > 1
      BY <2>1
    <3>2. /\ matchData' = [matchData EXCEPT !.chara = [u \in Sides |-> matchData.chara[Other(u)]],
                                            !.ready = [u \in Sides |-> Nobody]]
          /\ charaOwner' = [u \in Sides |-> charaOwner[Other(u)]]
      BY <2>1, <3>1 DEF Rotate
    <3> QED BY <2>1, <3>2 DEF TypeOK, MatchDataOf
  <2>2. CASE ~swap
    <3>1. charaOwner' = charaOwner
      BY <2>2 DEF Rotate
    <3>2. matchData'.chara = matchData.chara /\ matchData'.ready = [u \in Sides |-> Nobody]
      BY <2>2 DEF Rotate, TypeOK, MatchDataOf
    <3> QED BY <1>0, <2>2, <3>1, <3>2
  <2> QED BY <2>1, <2>2
<1>4. ASSUME NEW d PROVE SitsAt(d, s)' <=> SitsAt(d, t)
  <2>1. CASE swap
    <3>1. 1 \in 1 .. Len(clients) /\ 2 \in 1 .. Len(clients) /\ s + 1 \in 1 .. Len(clients)
      BY <1>0, <1>1, <2>1
    <3>2. clients'[s + 1] = clients[t + 1]
      BY <1>0, <1>2, <2>1, <3>1
    <3>3. Len(clients') > s /\ Len(clients) > t
      <4>1. t \in 0 .. 1
        BY <1>0 DEF Sides
      <4> HIDE DEF t
      <4> QED BY <1>0, <1>1, <1>2, <2>1, <4>1
    <3> HIDE DEF t
    <3> QED BY <3>2, <3>3 DEF SitsAt
  <2>2. CASE ~swap
    <3>1. s + 1 \in 1 .. Len(clients) => clients'[s + 1] = clients[s + 1]
      BY <1>2, <2>2
    <3>2. Len(clients) > s => s + 1 \in 1 .. Len(clients)
      BY <1>0, <1>1
    <3> QED BY <1>0, <1>2, <2>2, <3>1, <3>2 DEF SitsAt
  <2> QED BY <2>1, <2>2
<1> HIDE DEF t
<1> QED BY <1>0, <1>3, <1>4

-----------------------------------------------------------------------------
(* Picks and readiness.                                                    *)

(* A pick is the last one its owner sent while the owner sits in its seat; *)
(* between Steps its owner can only have moved up; the connections that    *)
(* own one are players or gone for good; and with nothing left to do every *)
(* pick is the one of the player in its seat.                              *)
PickHeld(s) ==
  /\ SitsAt(charaOwner[s], s) => matchData.chara[s] = member[charaOwner[s]].picked
  /\ ~inStep => \A i \in 1 .. Len(clients) : clients[i] = charaOwner[s] => i <= s + 1
  /\ \A c \in Conns : charaOwner[s] = c /\ accepted[c] # NoIp => IsPlayer(c)
  /\ Settled => SeatTaken(s) /\ charaOwner[s] = clients[s + 1]
Picks ==
  /\ \A s \in Sides : matchData.chara[s] # ZeroChara => PickHeld(s)
  /\ \A c \in Conns : (accepted[c] # NoIp \/ \E s \in Sides : charaOwner[s] = c) => c \in spent

(* Picks, seats and connections as they were.                              *)
LEMMA NoPickNews ==
  ASSUME TypeOK, Picks,
         UNCHANGED <<clients, matchData.chara, charaOwner, accepted, spent>>,
         \A d \in Members : /\ SameSelf(member[d], member'[d])
                            /\ member'[d].picked = member[d].picked,
         inStep' \/ (~inStep /\ (Settled' => Settled))
  PROVE  Picks'
<1>0. Len(clients) \in Nat
  BY LenProperties DEF TypeOK
<1>1. Members' = Members
  BY DEF Members
<1>2. ASSUME NEW s \in Sides, matchData'.chara[s] # ZeroChara PROVE PickHeld(s)'
  <2>1. PickHeld(s)
    BY <1>2 DEF Picks
  <2>2. ASSUME SitsAt(charaOwner[s], s)' PROVE matchData'.chara[s] = member'[charaOwner'[s]].picked
    <3>1. SitsAt(charaOwner[s], s)
      BY <2>2 DEF SitsAt
    <3>2. charaOwner[s] \in Members
      BY <3>1, OneSeatEach
    <3> QED BY <2>1, <3>1, <3>2 DEF PickHeld
  <2>3. \A c \in Conns : IsPlayer(c)' = IsPlayer(c)
    BY <1>1 DEF IsPlayer, SameSelf
  <2>4. SeatTaken(s) => SeatTaken(s)'
    BY <1>0 DEF SeatTaken, Members, SameSelf, Sides
  <2>5. Settled' => Settled
    BY DEF Settled
  <2> QED BY <2>1, <2>2, <2>3, <2>4, <2>5 DEF PickHeld
<1> QED BY <1>2 DEF Picks

LEMMA PicksNext == TypeOK /\ OneLobby /\ SeatsHeld /\ Picks /\ [Next]_vars => Picks'
<1> SUFFICES ASSUME TypeOK, OneLobby, SeatsHeld, Picks, [Next]_vars PROVE Picks'
  OBVIOUS
<1> USE DEF lobbyVars, netVars, stepVars, matchVars
<1>0. /\ clients \in Seq(Conns) /\ Len(clients) \in Nat
      /\ Members \subseteq Conns /\ Members = Entries(clients) /\ Members' = Entries(clients')
      /\ NamesDiffer(clients) /\ SeatsHeld' /\ TypeOK'
      /\ member \in [Conns -> MemberRecord]
      /\ charaOwner \in [Sides -> Conns \cup {Nobody}]
      /\ \A d \in Members : accepted[d] # NoIp
  BY TypeNext, SeatsNext, LenProperties DEF TypeOK, Members, Entries, OneLobby, SeatsHeld
<1>1. CASE EmptyLobby
  <2>1. \A s \in Sides : matchData'.chara[s] = ZeroChara
    BY <1>1 DEF EmptyLobby, ClearMatchData
  <2>2. charaOwner' = charaOwner /\ spent' = spent /\ \A c \in Conns : accepted'[c] = NoIp
    BY <1>1 DEF EmptyLobby
  <2> QED BY <2>1, <2>2 DEF Picks
<1>2. ASSUME NEW c \in Conns, Connect(c) PROVE Picks'
  <2>1. /\ UNCHANGED <<clients, member, matchData, charaOwner, inStep, dataDirty>>
        /\ spent' = spent \cup {c} /\ c \notin spent
        /\ \A d \in Conns : d # c => accepted'[d] = accepted[d]
    BY <1>2 DEF Connect, TypeOK
  <2>2. ASSUME NEW s \in Sides, matchData'.chara[s] # ZeroChara PROVE PickHeld(s)'
    <3>1. PickHeld(s)
      BY <2>1, <2>2 DEF Picks
    <3>2. charaOwner[s] # c
      BY <2>1 DEF Picks
    <3>3. ASSUME NEW d \in Conns, charaOwner'[s] = d, accepted'[d] # NoIp PROVE IsPlayer(d)'
      <4>1. IsPlayer(d)
        BY <2>1, <3>1, <3>2, <3>3 DEF PickHeld
      <4> QED BY <2>1, <4>1 DEF IsPlayer, Members
    <3> QED BY <2>1, <3>1, <3>3 DEF PickHeld, SitsAt, SeatTaken, Settled
  <2> QED BY <2>1, <2>2 DEF Picks
<1>3. ASSUME NEW c \in Conns, Close(c) PROVE Picks'
  <2>0. /\ UNCHANGED <<matchData, charaOwner, spent, inStep>> /\ ~inStep
        /\ accepted' = [accepted EXCEPT ![c] = NoIp]
        /\ \A d \in Conns : d # c => member'[d] = member[d]
    BY <1>0, <1>3 DEF Close
  <2>1. CASE ~IsMember(c)
    <3>1. UNCHANGED <<clients, dataDirty>> /\ c \notin Members
      BY <1>3, <2>1 DEF Close, IsMember, TypeOK
    <3>2. \A d \in Members : member'[d] = member[d]
      BY <1>0, <2>0, <3>1
    <3>3. ASSUME NEW s \in Sides, matchData'.chara[s] # ZeroChara PROVE PickHeld(s)'
      <4>1. PickHeld(s)
        BY <2>0, <3>3 DEF Picks
      <4>2. SitsAt(charaOwner[s], s)' => matchData'.chara[s] = member'[charaOwner'[s]].picked
        <5>1. SitsAt(charaOwner[s], s) => charaOwner[s] \in Members
          BY OneSeatEach
        <5> QED BY <2>0, <3>1, <3>2, <4>1, <5>1 DEF PickHeld, SitsAt
      <4>3. \A d \in Conns : charaOwner'[s] = d /\ accepted'[d] # NoIp => IsPlayer(d)'
        <5>1. ASSUME NEW d \in Conns, charaOwner'[s] = d, accepted'[d] # NoIp PROVE IsPlayer(d)'
          <6>1. d # c /\ accepted[d] # NoIp
            BY <2>0, <5>1 DEF TypeOK
          <6>2. IsPlayer(d)
            BY <2>0, <4>1, <5>1, <6>1 DEF PickHeld
          <6> QED BY <3>1, <3>2, <6>2 DEF IsPlayer, Members
        <5> QED BY <5>1
      <4>4. Settled' => SeatTaken(s)' /\ charaOwner'[s] = clients'[s + 1]
        <5>1. SeatTaken(s) => SeatTaken(s)'
          BY <1>0, <3>1, <3>2 DEF SeatTaken, Members, Sides
        <5> QED BY <2>0, <3>1, <4>1, <5>1 DEF PickHeld, Settled
      <4> QED BY <2>0, <3>1, <4>1, <4>2, <4>3, <4>4 DEF PickHeld
    <3>4. \A d \in Conns : accepted'[d] # NoIp => accepted[d] # NoIp
      BY <2>0 DEF TypeOK
    <3> QED BY <2>0, <3>3, <3>4 DEF Picks
  <2>2. CASE IsMember(c)
    <3> DEFINE p == PlaceOf(c)
    <3>1. p \in 1 .. Len(clients) /\ clients[p] = c
      BY <2>2, PlaceOfMember
    <3>2. clients' = RemoveAt(clients, p) /\ dataDirty'
      BY <1>3, <2>2 DEF Close
    <3> HIDE DEF p
    <3>3. Members' = Members \ {c}
      BY <1>0, <3>1, <3>2, RemovedIsOut
    <3>4. /\ Len(clients') = Len(clients) - 1
          /\ \A j \in 1 .. Len(clients) - 1 :
               clients'[j] = IF j < p THEN clients[j] ELSE clients[j + 1]
      BY <1>0, <3>1, <3>2, RemoveAtProperties
    <3>5. ASSUME NEW s \in Sides, matchData'.chara[s] # ZeroChara PROVE PickHeld(s)'
      <4>1. PickHeld(s)
        BY <2>0, <3>5 DEF Picks
      <4>2. ASSUME NEW i \in 1 .. Len(clients'), clients'[i] = charaOwner[s]
            PROVE  i <= s + 1 /\ (i = s + 1 => clients[i] = charaOwner[s])
        <5>1. i \in 1 .. Len(clients) /\ i + 1 \in 1 .. Len(clients)
              /\ clients'[i] = IF i < p THEN clients[i] ELSE clients[i + 1]
          BY <1>0, <3>4
        <5>2. clients[i] = charaOwner[s] => i <= s + 1
          BY <2>0, <4>1, <5>1 DEF PickHeld
        <5>3. clients[i + 1] = charaOwner[s] => i + 1 <= s + 1
          BY <2>0, <4>1, <5>1 DEF PickHeld
        <5> QED BY <1>0, <4>2, <5>1, <5>2, <5>3 DEF Sides
      <4>3. ASSUME SitsAt(charaOwner[s], s)'
            PROVE  matchData'.chara[s] = member'[charaOwner'[s]].picked
        <5>1. s + 1 \in 1 .. Len(clients') /\ clients'[s + 1] = charaOwner[s]
          BY <1>0, <2>0, <3>4, <4>3 DEF SitsAt, Sides
        <5>2. clients[s + 1] = charaOwner[s] /\ Len(clients) > s
          BY <1>0, <3>4, <4>2, <5>1 DEF Sides
        <5>3. charaOwner[s] \in Members' /\ charaOwner[s] \in Conns /\ charaOwner[s] # c
          BY <1>0, <3>3, <5>1 DEF Entries
        <5> QED BY <2>0, <4>1, <5>2, <5>3 DEF PickHeld, SitsAt
      <4>4. ASSUME NEW d \in Conns, charaOwner'[s] = d, accepted'[d] # NoIp PROVE IsPlayer(d)'
        <5>1. d # c /\ accepted[d] # NoIp
          BY <2>0, <4>4 DEF TypeOK
        <5>2. IsPlayer(d)
          BY <2>0, <4>1, <4>4, <5>1 DEF PickHeld
        <5> QED BY <2>0, <3>3, <5>1, <5>2 DEF IsPlayer
      <4>5. ~Settled'
        BY <3>2 DEF Settled
      <4> QED BY <2>0, <4>2, <4>3, <4>4, <4>5 DEF PickHeld
    <3>6. \A d \in Conns : accepted'[d] # NoIp => accepted[d] # NoIp
      BY <2>0 DEF TypeOK
    <3> QED BY <2>0, <3>5, <3>6 DEF Picks
  <2> QED BY <2>1, <2>2
<1>4. ASSUME NEW c \in Conns, NEW spectator \in BOOLEAN, NEW secret \in Secrets \cup {NoSecret},
             JoinReq(c, spectator, secret)
      PROVE  Picks'
  <2>0. UNCHANGED <<accepted, spent, matchData, charaOwner>> /\ inStep' /\ c \in cidMap
    BY <1>4 DEF JoinReq
  <2>1. CASE JoinResult(c, spectator, secret) # "ok"
    <3>1. UNCHANGED lobbyVars
      BY <1>4, <2>1 DEF JoinReq
    <3> QED BY <2>0, <3>1, NoPickNews DEF SameSelf
  <2>2. CASE JoinResult(c, spectator, secret) = "ok"
    <3>1. \A d \in Members : NameOf[d] # NameOf[c]
      BY <2>2 DEF JoinResult
    <3>2. /\ TakePlace(c, spectator, secret)
          /\ member' = [member EXCEPT ![c] = NewMember(spectator, secret)]
      BY <1>4, <2>2 DEF JoinReq, Join, TakePlace
    <3>3. c \notin Members /\ (\A d \in Members : member'[d] = member[d]) /\ accepted[c] # NoIp
      BY <1>0, <2>0, <3>1, <3>2 DEF SeatsHeld
    <3>4. Members \subseteq Members'
      <4>1. CASE spectator
        BY <1>0, <3>2, <4>1, AppendedIsNew DEF TakePlace
      <4>2. CASE ~spectator
        <5>1. PlayerCount + 1 \in 1 .. Len(clients) + 1
          BY Places
        <5> QED BY <1>0, <3>1, <3>2, <4>2, <5>1, InsertedIsNew DEF TakePlace
      <4> QED BY <4>1, <4>2
    <3>5. ASSUME NEW s \in Sides, matchData'.chara[s] # ZeroChara PROVE PickHeld(s)'
      <4>1. PickHeld(s)
        BY <2>0, <3>5 DEF Picks
      <4>2. charaOwner[s] # c
        BY <3>3, <4>1 DEF PickHeld, IsPlayer
      <4>3. ASSUME SitsAt(charaOwner[s], s)'
            PROVE  matchData'.chara[s] = member'[charaOwner'[s]].picked
        <5>1. \/ SitsAt(charaOwner[s], s)
              \/ charaOwner[s] \in Members /\ ~IsPlayer(charaOwner[s])
          BY <2>0, <3>2, <4>2, <4>3, JoinedSeats
        <5>2. SitsAt(charaOwner[s], s)
          BY <1>0, <4>1, <5>1 DEF PickHeld
        <5>3. charaOwner[s] \in Members
          BY <5>2, OneSeatEach
        <5> QED BY <2>0, <3>3, <4>1, <5>2, <5>3 DEF PickHeld
      <4>4. ASSUME NEW d \in Conns, charaOwner'[s] = d, accepted'[d] # NoIp PROVE IsPlayer(d)'
        <5>1. IsPlayer(d)
          BY <2>0, <4>1, <4>4 DEF PickHeld
        <5> QED BY <3>3, <3>4, <5>1 DEF IsPlayer
      <4> QED BY <2>0, <4>3, <4>4 DEF PickHeld, Settled
    <3> QED BY <2>0, <3>5 DEF Picks
  <2> QED BY <2>1, <2>2
<1>5. ASSUME NEW c \in Conns, NEW chara \in Charas, SetChara(c, chara) PROVE Picks'
  <2> DEFINE t == SideOf(c)
  <2>0. /\ UNCHANGED <<clients, accepted, spent>> /\ inStep' /\ IsPlayer(c)
        /\ matchData' = [matchData EXCEPT !.chara[t] = chara]
        /\ charaOwner' = [charaOwner EXCEPT ![t] = c]
        /\ member' = [member EXCEPT ![c].phase = "waiting", ![c].picked = chara]
    BY <1>5 DEF SetChara, Plays
  <2>1. t \in Sides /\ SitsAt(c, t) /\ \A s \in Sides : SitsAt(c, s) => s = t
    BY <2>0, SeatOfPlayer
  <2> HIDE DEF t
  <2>2. /\ matchData'.chara = [matchData.chara EXCEPT ![t] = chara]
        /\ matchData.chara \in [Sides -> Charas \cup {ZeroChara}]
    BY <2>0 DEF TypeOK, MatchDataOf
  <2>3. /\ member'[c].picked = chara
        /\ \A d \in Conns : d # c => member'[d] = member[d]
    BY <1>0, <2>0 DEF MemberRecord
  <2>4. \A d \in Conns : IsPlayer(d)' = IsPlayer(d)
    <3>1. \A d \in Conns : member'[d].spectator = member[d].spectator
      BY <1>5, PickChanges DEF SameSelf
    <3> QED BY <2>0, <3>1 DEF IsPlayer, Members
  <2>5. ASSUME NEW s \in Sides, matchData'.chara[s] # ZeroChara PROVE PickHeld(s)'
    <3>1. CASE s = t
      <4>1. charaOwner'[s] = c /\ matchData'.chara[s] = chara
        BY <1>0, <2>0, <2>1, <2>2, <3>1
      <4> QED BY <2>0, <2>3, <2>4, <4>1 DEF PickHeld, Settled
    <3>2. CASE s # t
      <4>1. charaOwner'[s] = charaOwner[s] /\ matchData'.chara[s] = matchData.chara[s]
        BY <1>0, <2>0, <2>1, <2>2, <3>2
      <4>2. PickHeld(s)
        BY <2>5, <4>1 DEF Picks
      <4>3. ASSUME SitsAt(charaOwner[s], s)'
            PROVE  matchData'.chara[s] = member'[charaOwner'[s]].picked
        <5>1. SitsAt(charaOwner[s], s)
          BY <2>0, <4>1, <4>3 DEF SitsAt
        <5>2. charaOwner[s] # c /\ charaOwner[s] \in Conns
          BY <1>0, <2>1, <3>2, <5>1, OneSeatEach
        <5> QED BY <2>3, <4>1, <4>2, <5>1, <5>2 DEF PickHeld
      <4> QED BY <2>0, <2>4, <4>1, <4>2, <4>3 DEF PickHeld, Settled
    <3> QED BY <3>1, <3>2
  <2>6. c \in spent
    BY <1>0, <2>0 DEF IsPlayer, Picks
  <2>7. \A d \in Conns : (\E s \in Sides : charaOwner'[s] = d) => d \in spent
    BY <1>0, <2>0, <2>1, <2>6 DEF Picks
  <2> QED BY <2>0, <2>5, <2>7 DEF Picks
<1>6. ASSUME NEW c \in Conns, NEW loser \in Sides, ReportResults(c, loser) PROVE Picks'
  <2>0. UNCHANGED <<accepted, spent>> /\ inStep' /\ Rotate(loser)
    BY <1>6 DEF ReportResults
  <2>1. ASSUME NEW d \in Conns
        PROVE  SameSelf(member[d], member'[d]) /\ member'[d].picked = member[d].picked
    BY <1>6, PhaseChanges, Zenon
  <2>2. \A d \in Conns : IsPlayer(d)' = IsPlayer(d)
    <3>1. Members' = Members
      BY <2>0, RotatedMembers
    <3> QED BY <2>1, <3>1 DEF IsPlayer, SameSelf
  <2>3. ASSUME NEW s \in Sides
        PROVE  \E t \in Sides : /\ matchData'.chara[s] = matchData.chara[t]
                                /\ charaOwner'[s] = charaOwner[t]
                                /\ \A d : SitsAt(d, s)' <=> SitsAt(d, t)
    BY <2>0, RotatedMatch
  <2>4. ASSUME NEW s \in Sides, matchData'.chara[s] # ZeroChara PROVE PickHeld(s)'
    <3>1. PICK t \in Sides : /\ matchData'.chara[s] = matchData.chara[t]
                             /\ charaOwner'[s] = charaOwner[t]
                             /\ \A d : SitsAt(d, s)' <=> SitsAt(d, t)
      BY <2>3
    <3>2. PickHeld(t)
      BY <2>4, <3>1 DEF Picks
    <3>3. ASSUME SitsAt(charaOwner[s], s)'
          PROVE  matchData'.chara[s] = member'[charaOwner'[s]].picked
      <4>1. SitsAt(charaOwner[t], t)
        BY <3>1, <3>3
      <4>2. charaOwner[t] \in Conns
        BY <1>0, <4>1, OneSeatEach
      <4> QED BY <2>1, <3>1, <3>2, <4>1, <4>2 DEF PickHeld
    <3> QED BY <2>0, <2>2, <3>1, <3>2, <3>3 DEF PickHeld, Settled
  <2>5. \A d \in Conns : (\E s \in Sides : charaOwner'[s] = d) => d \in spent
    BY <2>3 DEF Picks
  <2> QED BY <2>0, <2>4, <2>5 DEF Picks
<1>7. CASE FinishStep
  <2>0. /\ UNCHANGED <<clients, accepted, spent>>
        /\ matchData' = KeptMatch
        /\ charaOwner' = [s \in Sides |-> IF Vacated(s) THEN Nobody ELSE charaOwner[s]]
    BY <1>7 DEF FinishStep
  <2>1. ASSUME NEW d \in Conns
        PROVE  SameSelf(member[d], member'[d]) /\ member'[d].picked = member[d].picked
    BY <1>7, PhaseChanges, Zenon
  <2>2. \A d \in Conns : IsPlayer(d)' = IsPlayer(d)
    BY <2>0, <2>1 DEF IsPlayer, Members, SameSelf
  <2>3. matchData'.chara = [s \in Sides |-> IF Vacated(s) THEN ZeroChara ELSE matchData.chara[s]]
    BY <2>0 DEF KeptMatch, TypeOK, MatchDataOf
  <2>4. ASSUME NEW s \in Sides, matchData'.chara[s] # ZeroChara PROVE PickHeld(s)'
    <3>1. /\ ~Vacated(s) /\ matchData'.chara[s] = matchData.chara[s]
          /\ matchData.chara[s] # ZeroChara /\ charaOwner'[s] = charaOwner[s]
      BY <2>0, <2>3, <2>4
    <3>2. PickHeld(s) /\ SeatTaken(s) /\ charaOwner[s] = clients[s + 1]
      BY <3>1 DEF Picks, Vacated
    <3>3. s + 1 \in 1 .. Len(clients) /\ charaOwner[s] \in Conns /\ SitsAt(charaOwner[s], s)
      BY <1>0, <3>2 DEF SeatTaken, Sides, SitsAt, Entries
    <3>4. matchData'.chara[s] = member'[charaOwner'[s]].picked
      BY <2>1, <3>1, <3>2, <3>3 DEF PickHeld
    <3>5. \A i \in 1 .. Len(clients) : clients[i] = charaOwner[s] => i = s + 1
      BY <1>0, <3>2, <3>3 DEF NamesDiffer
    <3>6. SeatTaken(s)'
      BY <2>0, <2>1, <3>2, <3>3 DEF SeatTaken, SameSelf
    <3>7. \A i \in 1 .. Len(clients) : clients[i] = charaOwner[s] => i <= s + 1
      BY <1>0, <3>5 DEF Sides
    <3> QED BY <2>0, <2>2, <3>1, <3>2, <3>4, <3>6, <3>7 DEF PickHeld
  <2>5. \A d \in Conns : (\E s \in Sides : charaOwner'[s] = d) => d \in spent
    BY <2>0, ServerAssumption DEF Picks
  <2> QED BY <2>0, <2>4, <2>5 DEF Picks
<1>8. ASSUME NEW c \in Conns, Unready(c) \/ BattleLoaded(c) PROVE Picks'
  <2>1. UNCHANGED <<clients, matchData.chara, charaOwner, accepted, spent>> /\ inStep'
    BY <1>8 DEF Unready, BattleLoaded, TypeOK, MatchDataOf
  <2>2. ASSUME NEW d \in Conns
        PROVE  SameSelf(member[d], member'[d]) /\ member'[d].picked = member[d].picked
    BY <1>8, PhaseChanges, Zenon
  <2> QED BY <1>0, <2>1, <2>2, NoPickNews
<1>9. ASSUME NEW c \in Conns, DirectOffer(c) PROVE Picks'
  <2>1. UNCHANGED <<clients, matchData, charaOwner, accepted, spent>> /\ inStep'
    BY <1>9 DEF DirectOffer, Offer
  <2> QED BY <1>0, <1>9, <2>1, OfferChanges, NoPickNews
<1>10. ASSUME NEW c \in Conns, Return(c) PROVE Picks'
  <2>1. UNCHANGED <<clients, matchData, charaOwner, accepted, spent, inStep, dataDirty>> /\ ~inStep
    BY <1>10 DEF Return
  <2>2. ASSUME NEW d \in Conns
        PROVE  SameSelf(member[d], member'[d]) /\ member'[d].picked = member[d].picked
    BY <1>10, PhaseChanges, Zenon
  <2> QED BY <1>0, <2>1, <2>2, NoPickNews DEF Settled
<1>13. CASE ResetBattleSync
  <2>1. UNCHANGED <<clients, matchData, charaOwner, accepted, spent, inStep, dataDirty>> /\ ~inStep
    BY <1>13 DEF ResetBattleSync
  <2>2. ASSUME NEW d \in Conns
        PROVE  SameSelf(member[d], member'[d]) /\ member'[d].picked = member[d].picked
    BY <1>13, PhaseChanges, Zenon
  <2> QED BY <1>0, <2>1, <2>2, NoPickNews DEF Settled
<1>11. ASSUME NEW c \in Conns,
             \/ Hello(c) \/ SnapshotMsg(c) \/ ReportDesync(c) \/ Forward(c)
             \/ \E seed \in Seeds : SetEnv(c, seed)
             \/ \E stage \in Stages : SetStage(c, stage)
             \/ \E req \in RequestsOf[c] : Ready(c, req)
       PROVE  Picks'
  <2>1. /\ UNCHANGED <<clients, member, matchData.chara, charaOwner, accepted, spent>>
        /\ inStep'
    BY <1>11 DEF Hello, SnapshotMsg, ReportDesync, ReportUpTo, Forward, SetEnv, SetStage,
                 SetPreBattle, Ready, TypeOK, MatchDataOf
  <2> QED BY <2>1, NoPickNews DEF SameSelf
<1>12. CASE UNCHANGED vars
  <2>1. UNCHANGED <<clients, member, matchData, charaOwner, accepted, spent, inStep, dataDirty>>
    BY <1>12 DEF vars
  <2> QED BY <2>1, NoPickNews DEF SameSelf, Settled
<1> QED
  BY <1>1, <1>2, <1>3, <1>4, <1>5, <1>6, <1>7, <1>8, <1>9, <1>10, <1>11, <1>12,
     <1>13 DEF Next, Owner, Handle, Assign, Release

(* A client whose pick is in and whose READY follows owns its seat's pick, *)
(* whichever it is; a ready flag beside a pick is that of the pick's owner *)
(* or about to be.                                                         *)
Readiness ==
  /\ ~inStep => readying = {}
  /\ \A c \in readying : IsPlayer(c)
  /\ \A s \in Sides :
       /\ \A c \in readying : SitsAt(c, s) =>
            charaOwner[s] = c /\ matchData.chara[s] = member[c].picked
       /\ matchData.ready[s] # Nobody /\ matchData.chara[s] # ZeroChara =>
            \/ charaOwner[s] = matchData.ready[s]
            \/ charaOwner[s] \in readying /\ SitsAt(charaOwner[s], s)

(* Between Steps nobody is readying, and picks and flags may only go.      *)
LEMMA QuietReadiness ==
  ASSUME Readiness, ~inStep, readying' = {}, UNCHANGED charaOwner,
         \/ UNCHANGED matchData
         \/ \A s \in Sides : matchData'.ready[s] = Nobody
  PROVE  Readiness'
BY DEF Readiness

(* Seats, picks and flags as they were.                                    *)
LEMMA NoReadyNews ==
  ASSUME TypeOK, SeatsHeld, Readiness, inStep',
         UNCHANGED <<clients, charaOwner, matchData.chara, matchData.ready, readying>>,
         \A d \in Conns : SameSelf(member[d], member'[d]) /\ member'[d].picked = member[d].picked
  PROVE  Readiness'
<1>1. \A d \in Conns : IsPlayer(d)' = IsPlayer(d)
  BY DEF IsPlayer, Members, SameSelf
<1>2. readying \subseteq Conns
  BY DEF TypeOK
<1> QED BY <1>1, <1>2 DEF Readiness, SitsAt

LEMMA ReadinessNext ==
  ASSUME ReadyInOnePoll
  PROVE  TypeOK /\ OneLobby /\ SeatsHeld /\ Readiness /\ [Next]_vars => Readiness'
<1> SUFFICES ASSUME TypeOK, OneLobby, SeatsHeld, Readiness, [Next]_vars PROVE Readiness'
  OBVIOUS
<1> USE DEF lobbyVars, netVars, stepVars, matchVars
<1>0. /\ clients \in Seq(Conns) /\ readying \subseteq Conns
      /\ Members \subseteq Conns /\ Members = Entries(clients) /\ Members' = Entries(clients')
      /\ NamesDiffer(clients) /\ member \in [Conns -> MemberRecord]
      /\ charaOwner \in [Sides -> Conns \cup {Nobody}]
      /\ matchData.chara \in [Sides -> Charas \cup {ZeroChara}]
      /\ matchData.ready \in [Sides -> Conns \cup {Nobody}]
  BY DEF TypeOK, MatchDataOf, Members, Entries, OneLobby
<1>1. ASSUME EmptyLobby, ~inStep PROVE Readiness'
  <2>1. readying' = {} /\ UNCHANGED charaOwner /\ \A s \in Sides : matchData'.ready[s] = Nobody
    BY <1>1 DEF EmptyLobby, ClearMatchData
  <2> QED BY <1>1, <2>1, QuietReadiness
<1>2. ASSUME NEW c \in Conns, Connect(c) \/ Close(c) \/ Return(c) PROVE Readiness'
  <2>1. ~inStep /\ readying' \subseteq readying /\ UNCHANGED <<matchData, charaOwner>>
    BY <1>2 DEF Connect, Close, Return
  <2> QED BY <2>1, QuietReadiness DEF Readiness
<1>3. CASE ResetBattleSync
  <2>1. ~inStep /\ UNCHANGED <<readying, matchData, charaOwner>>
    BY <1>3 DEF ResetBattleSync
  <2> QED BY <2>1, QuietReadiness DEF Readiness
<1>4. ASSUME NEW c \in Conns, NEW spectator \in BOOLEAN, NEW secret \in Secrets \cup {NoSecret},
             JoinReq(c, spectator, secret)
      PROVE  Readiness'
  <2>0. UNCHANGED <<matchData, charaOwner, readying>> /\ inStep'
    BY <1>4 DEF JoinReq
  <2>1. CASE JoinResult(c, spectator, secret) # "ok"
    <3>1. UNCHANGED lobbyVars
      BY <1>4, <2>1 DEF JoinReq
    <3> QED BY <2>0, <3>1, NoReadyNews DEF SameSelf
  <2>2. CASE JoinResult(c, spectator, secret) = "ok"
    <3>1. \A d \in Members : NameOf[d] # NameOf[c]
      BY <2>2 DEF JoinResult
    <3>2. /\ TakePlace(c, spectator, secret)
          /\ member' = [member EXCEPT ![c] = NewMember(spectator, secret)]
      BY <1>4, <2>2 DEF JoinReq, Join, TakePlace
    <3>3. c \notin Members /\ \A d \in Members : member'[d] = member[d]
      BY <1>0, <3>1, <3>2
    <3>4. Members \subseteq Members'
      <4>1. CASE spectator
        BY <1>0, <3>2, <4>1, AppendedIsNew DEF TakePlace
      <4>2. CASE ~spectator
        <5>1. PlayerCount + 1 \in 1 .. Len(clients) + 1
          BY Places
        <5> QED BY <1>0, <3>1, <3>2, <4>2, <5>1, InsertedIsNew DEF TakePlace
      <4> QED BY <4>1, <4>2
    <3>5. ASSUME NEW d \in readying
          PROVE  /\ IsPlayer(d)' /\ member'[d] = member[d]
                 /\ \A s \in Sides : SitsAt(d, s)' <=> SitsAt(d, s)
      <4>1. IsPlayer(d) /\ d # c /\ member'[d] = member[d]
        BY <3>3 DEF Readiness, IsPlayer
      <4>2. IsPlayer(d)'
        BY <3>3, <3>4, <4>1 DEF IsPlayer
      <4>3. \A s \in Sides : SitsAt(d, s)' <=> SitsAt(d, s)
        BY <3>2, <4>1, JoinedSeats
      <4> QED BY <4>1, <4>2, <4>3
    <3> QED BY <2>0, <3>5 DEF Readiness
  <2> QED BY <2>1, <2>2
<1>5. ASSUME NEW c \in Conns, NEW chara \in Charas, SetChara(c, chara) PROVE Readiness'
  <2> DEFINE t == SideOf(c)
  <2>0. /\ UNCHANGED clients /\ inStep' /\ IsPlayer(c) /\ readying' = readying \cup {c}
        /\ matchData' = [matchData EXCEPT !.chara[t] = chara]
        /\ charaOwner' = [charaOwner EXCEPT ![t] = c]
        /\ member' = [member EXCEPT ![c].phase = "waiting", ![c].picked = chara]
    BY <1>5 DEF SetChara, Plays
  <2>1. t \in Sides /\ SitsAt(c, t) /\ \A s \in Sides : SitsAt(c, s) => s = t
    BY <2>0, SeatOfPlayer
  <2> HIDE DEF t
  <2>2. /\ matchData'.chara = [matchData.chara EXCEPT ![t] = chara]
        /\ matchData'.ready = matchData.ready
    BY <2>0 DEF TypeOK, MatchDataOf
  <2>3. /\ member'[c].picked = chara
        /\ \A d \in Conns : d # c => member'[d] = member[d]
    BY <1>0, <2>0 DEF MemberRecord
  <2>4. \A d \in Conns : IsPlayer(d)' = IsPlayer(d)
    <3>1. \A d \in Conns : member'[d].spectator = member[d].spectator
      BY <1>5, PickChanges DEF SameSelf
    <3> QED BY <2>0, <3>1 DEF IsPlayer, Members
  <2>5. \A d \in readying' : IsPlayer(d)'
    BY <1>0, <2>0, <2>4 DEF Readiness
  <2>6. \A d, s : SitsAt(d, s)' <=> SitsAt(d, s)
    BY <2>0 DEF SitsAt
  <2>7. ASSUME NEW s \in Sides
        PROVE  /\ \A d \in readying' : SitsAt(d, s)' =>
                    charaOwner'[s] = d /\ matchData'.chara[s] = member'[d].picked
               /\ matchData'.ready[s] # Nobody /\ matchData'.chara[s] # ZeroChara =>
                    \/ charaOwner'[s] = matchData'.ready[s]
                    \/ charaOwner'[s] \in readying' /\ SitsAt(charaOwner[s], s)'
    <3>1. CASE s = t
      <4>1. charaOwner'[s] = c /\ matchData'.chara[s] = chara /\ c \in readying'
        BY <1>0, <2>0, <2>1, <2>2, <3>1
      <4>2. \A d : SitsAt(d, s)' => d = c
        BY <2>1, <2>6, <3>1, OneSeatEach
      <4>3. SitsAt(charaOwner[s], s)'
        BY <2>1, <2>6, <3>1, <4>1 DEF SitsAt
      <4> QED BY <2>3, <4>1, <4>2, <4>3
    <3>2. CASE s # t
      <4>1. charaOwner'[s] = charaOwner[s] /\ matchData'.chara[s] = matchData.chara[s]
            /\ matchData'.ready[s] = matchData.ready[s] /\ readying \subseteq readying'
        BY <1>0, <2>0, <2>1, <2>2, <3>2
      <4>2. \A d \in readying' : SitsAt(d, s)' =>
              d \in readying /\ SitsAt(d, s) /\ member'[d] = member[d]
        BY <1>0, <2>0, <2>1, <2>3, <2>6, <3>2
      <4>3. SitsAt(charaOwner[s], s)' <=> SitsAt(charaOwner[s], s)
        BY <2>0, <4>1 DEF SitsAt
      <4> QED BY <4>1, <4>2, <4>3 DEF Readiness
    <3> QED BY <3>1, <3>2
  <2> QED BY <2>0, <2>5, <2>7 DEF Readiness
<1>6. ASSUME NEW c \in Conns, NEW req \in RequestsOf[c], Ready(c, req) PROVE Readiness'
  <2> DEFINE t == SideOf(c)
  <2>0. /\ UNCHANGED <<clients, member, charaOwner>> /\ inStep' /\ c \in readying
        /\ readying' = readying \ {c}
    BY <1>6 DEF Ready
  <2>1. IsPlayer(c)
    BY <2>0 DEF Readiness
  <2>2. t \in Sides /\ SitsAt(c, t) /\ \A s \in Sides : SitsAt(c, s) => s = t
    BY <2>1, SeatOfPlayer
  <2>3. /\ matchData'.chara = matchData.chara
        /\ matchData'.ready = [matchData.ready EXCEPT ![t] = c]
    BY <1>6 DEF Ready, TypeOK, MatchDataOf
  <2> HIDE DEF t
  <2>4. \A d, s : SitsAt(d, s)' <=> SitsAt(d, s)
    BY <2>0 DEF SitsAt
  <2>5. \A d \in readying' : IsPlayer(d)'
    BY <2>0 DEF Readiness, IsPlayer, Members
  <2>6. ASSUME NEW s \in Sides
        PROVE  /\ \A d \in readying' : SitsAt(d, s)' =>
                    charaOwner'[s] = d /\ matchData'.chara[s] = member'[d].picked
               /\ matchData'.ready[s] # Nobody /\ matchData'.chara[s] # ZeroChara =>
                    \/ charaOwner'[s] = matchData'.ready[s]
                    \/ charaOwner'[s] \in readying' /\ SitsAt(charaOwner[s], s)'
    <3>1. \A d \in readying' : SitsAt(d, s)' =>
                    charaOwner'[s] = d /\ matchData'.chara[s] = member'[d].picked
      BY <2>0, <2>3, <2>4 DEF Readiness
    <3>2. CASE s = t
      <4>1. matchData'.ready[s] = c /\ charaOwner'[s] = c
        BY <1>0, <2>0, <2>2, <2>3, <3>2 DEF Readiness
      <4> QED BY <3>1, <4>1
    <3>3. CASE s # t
      <4>1. matchData'.ready[s] = matchData.ready[s] /\ matchData'.chara[s] = matchData.chara[s]
            /\ charaOwner'[s] = charaOwner[s]
        BY <1>0, <2>0, <2>2, <2>3, <3>3
      <4>2. SitsAt(charaOwner[s], s)' <=> SitsAt(charaOwner[s], s)
        BY <2>0 DEF SitsAt
      <4>3. SitsAt(charaOwner[s], s) => charaOwner[s] # c
        BY <2>2, <3>3
      <4> QED BY <2>0, <3>1, <4>1, <4>2, <4>3 DEF Readiness
    <3> QED BY <3>2, <3>3
  <2> QED BY <2>0, <2>5, <2>6 DEF Readiness
<1>7. ASSUME NEW c \in Conns, Unready(c) PROVE Readiness'
  <2>0. UNCHANGED <<clients, charaOwner, readying>> /\ inStep'
    BY <1>7 DEF Unready
  <2>1. ASSUME NEW d \in Conns
        PROVE  SameSelf(member[d], member'[d]) /\ member'[d].picked = member[d].picked
    BY <1>7, PhaseChanges, Zenon
  <2>2. matchData'.chara = matchData.chara
    BY <1>7 DEF Unready, TypeOK, MatchDataOf
  <2>3. \A s \in Sides : matchData'.ready[s] # Nobody => matchData'.ready[s] = matchData.ready[s]
    <3>1. CASE UNCHANGED matchData
      BY <3>1
    <3>2. CASE matchData' = [matchData EXCEPT !.ready[SideOf(c)] = Nobody,
                                              !.inputDelay[SideOf(c)] = NoDelay]
      BY <3>2 DEF TypeOK, MatchDataOf
    <3> QED BY <1>7, <3>1, <3>2 DEF Unready
  <2>4. \A d \in Conns : IsPlayer(d)' = IsPlayer(d)
    BY <2>0, <2>1 DEF IsPlayer, Members, SameSelf
  <2> QED BY <1>0, <2>0, <2>1, <2>2, <2>3, <2>4 DEF Readiness, SitsAt
<1>8. ASSUME NEW c \in Conns, NEW loser \in Sides, ReportResults(c, loser) PROVE Readiness'
  <2>0. UNCHANGED readying /\ inStep' /\ Rotate(loser)
    BY <1>8 DEF ReportResults
  <2>1. ASSUME NEW d \in Conns
        PROVE  SameSelf(member[d], member'[d]) /\ member'[d].picked = member[d].picked
    BY <1>8, PhaseChanges, Zenon
  <2>2. \A d \in Conns : IsPlayer(d)' = IsPlayer(d)
    <3>1. Members' = Members
      BY <2>0, RotatedMembers
    <3> QED BY <2>1, <3>1 DEF IsPlayer, SameSelf
  <2>3. ASSUME NEW s \in Sides
        PROVE  /\ \A d \in readying' : SitsAt(d, s)' =>
                    charaOwner'[s] = d /\ matchData'.chara[s] = member'[d].picked
               /\ matchData'.ready[s] = Nobody
    <3>1. PICK t \in Sides : /\ matchData'.chara[s] = matchData.chara[t]
                             /\ charaOwner'[s] = charaOwner[t]
                             /\ \A d : SitsAt(d, s)' <=> SitsAt(d, t)
                             /\ matchData'.ready[s] = Nobody
      BY <2>0, RotatedMatch
    <3> QED BY <1>0, <2>0, <2>1, <3>1 DEF Readiness
  <2> QED BY <1>0, <2>0, <2>2, <2>3 DEF Readiness
<1>9. CASE FinishStep
  <2>0. /\ readying = {} /\ readying' = {} /\ matchData' = KeptMatch
        /\ charaOwner' = [s \in Sides |-> IF Vacated(s) THEN Nobody ELSE charaOwner[s]]
    BY <1>9, ReadyInOnePoll DEF FinishStep
  <2>1. \A s \in Sides :
          /\ Vacated(s) => matchData'.ready[s] = Nobody /\ matchData'.chara[s] = ZeroChara
          /\ ~Vacated(s) => /\ matchData'.ready[s] = matchData.ready[s]
                            /\ matchData'.chara[s] = matchData.chara[s]
                            /\ charaOwner'[s] = charaOwner[s]
    BY <2>0 DEF KeptMatch, TypeOK, MatchDataOf
  <2> QED BY <2>0, <2>1 DEF Readiness
<1>10. ASSUME NEW c \in Conns, BattleLoaded(c) \/ DirectOffer(c) PROVE Readiness'
  <2>1. UNCHANGED <<clients, charaOwner, matchData, readying>> /\ inStep'
    BY <1>10 DEF BattleLoaded, DirectOffer, Offer
  <2>2. ASSUME NEW d \in Conns
        PROVE  SameSelf(member[d], member'[d]) /\ member'[d].picked = member[d].picked
    BY <1>10, PhaseChanges, OfferChanges, Zenon
  <2> QED BY <2>1, <2>2, NoReadyNews
<1>11. ASSUME NEW c \in Conns,
              \/ Hello(c) \/ SnapshotMsg(c) \/ ReportDesync(c) \/ Forward(c)
              \/ \E seed \in Seeds : SetEnv(c, seed)
              \/ \E stage \in Stages : SetStage(c, stage)
       PROVE  Readiness'
  <2>1. /\ UNCHANGED <<clients, member, charaOwner, matchData.chara, matchData.ready, readying>>
        /\ inStep'
    BY <1>11 DEF Hello, SnapshotMsg, ReportDesync, ReportUpTo, Forward, SetEnv, SetStage,
                 SetPreBattle, TypeOK, MatchDataOf
  <2> QED BY <2>1, NoReadyNews DEF SameSelf
<1>12. CASE UNCHANGED vars
  BY <1>12 DEF vars, Readiness, IsPlayer, Members, SitsAt
<1> QED
  BY <1>1, <1>2, <1>3, <1>4, <1>5, <1>6, <1>7, <1>8, <1>9, <1>10, <1>11, <1>12
     DEF Next, Owner, Handle, Assign, Release

(* A ready flag belongs to a player that has connected; while it has not   *)
(* left it plays and can only have moved up since; and in the seat it      *)
(* readied its pick is the one shown.                                      *)
FlagHeld(c, s) ==
  /\ c \in spent
  /\ accepted[c] # NoIp => IsPlayer(c)
  /\ \A t \in Sides : SitsAt(c, t) => t <= s
  /\ SitsAt(c, s) => matchData.chara[s] = member[c].picked
Flags == \A c \in Conns, s \in Sides : matchData.ready[s] = c => FlagHeld(c, s)

(* Seats, picks and connections as they were, and no new flag.             *)
LEMMA NoFlagNews ==
  ASSUME TypeOK, Flags, UNCHANGED <<clients, matchData.chara, accepted>>,
         spent \subseteq spent',
         \A s \in Sides : matchData'.ready[s] \in {matchData.ready[s], Nobody},
         \A d \in Conns : SameSelf(member[d], member'[d]) /\ member'[d].picked = member[d].picked
  PROVE  Flags'
<1> SUFFICES ASSUME NEW c \in Conns, NEW s \in Sides, matchData'.ready[s] = c
             PROVE  FlagHeld(c, s)'
  BY DEF Flags
<1>1. FlagHeld(c, s)
  BY ServerAssumption DEF Flags
<1>2. IsPlayer(c)' = IsPlayer(c)
  BY DEF IsPlayer, Members, SameSelf
<1>3. \A t \in Sides : SitsAt(c, t)' <=> SitsAt(c, t)
  BY DEF SitsAt
<1> QED BY <1>1, <1>2, <1>3 DEF FlagHeld

LEMMA FlagsNext ==
  TypeOK /\ OneLobby /\ SeatsHeld /\ Picks /\ Readiness /\ Flags /\ [Next]_vars => Flags'
<1> SUFFICES ASSUME TypeOK, OneLobby, SeatsHeld, Picks, Readiness, Flags, [Next]_vars
             PROVE  Flags'
  OBVIOUS
<1> USE DEF lobbyVars, netVars, stepVars, matchVars
<1>0. /\ clients \in Seq(Conns) /\ Len(clients) \in Nat /\ readying \subseteq Conns
      /\ Members \subseteq Conns /\ Members = Entries(clients) /\ Members' = Entries(clients')
      /\ NamesDiffer(clients) /\ member \in [Conns -> MemberRecord]
      /\ matchData.chara \in [Sides -> Charas \cup {ZeroChara}]
      /\ matchData.ready \in [Sides -> Conns \cup {Nobody}]
      /\ \A d \in Members : accepted[d] # NoIp
  BY LenProperties DEF TypeOK, MatchDataOf, Members, Entries, OneLobby, SeatsHeld
<1>1. ASSUME \A s \in Sides : matchData'.ready[s] = Nobody PROVE Flags'
  BY <1>1, ServerAssumption DEF Flags
<1>2. CASE EmptyLobby
  BY <1>1, <1>2 DEF EmptyLobby, ClearMatchData
<1>3. ASSUME NEW c \in Conns, Connect(c) PROVE Flags'
  <2>1. /\ UNCHANGED <<clients, member, matchData>>
        /\ spent' = spent \cup {c} /\ c \notin spent
        /\ \A d \in Conns : d # c => accepted'[d] = accepted[d]
    BY <1>3 DEF Connect, TypeOK
  <2>2. ASSUME NEW d \in Conns, NEW s \in Sides, matchData'.ready[s] = d PROVE FlagHeld(d, s)'
    <3>1. FlagHeld(d, s) /\ d # c
      BY <2>1, <2>2 DEF Flags, FlagHeld
    <3>2. accepted'[d] = accepted[d]
      BY <2>1, <3>1
    <3> QED BY <2>1, <3>1, <3>2 DEF FlagHeld, IsPlayer, Members, SitsAt
  <2> QED BY <2>2 DEF Flags
<1>4. ASSUME NEW c \in Conns, Close(c) PROVE Flags'
  <2>0. /\ UNCHANGED <<matchData, spent>>
        /\ accepted' = [accepted EXCEPT ![c] = NoIp]
        /\ \A d \in Conns : d # c => member'[d] = member[d]
    BY <1>0, <1>4 DEF Close
  <2>1. /\ Members' = Members \ {c}
        /\ \A d \in Members', t \in Sides :
              SitsAt(d, t)' => SitsAt(d, t) \/ PlaceOf(d) = t + 2
    <3>1. CASE ~IsMember(c)
      <4>1. clients' = clients
        BY <1>4, <3>1 DEF Close, IsMember
      <4> QED BY <3>1, <4>1 DEF IsMember, Members, SitsAt
    <3>2. CASE IsMember(c)
      <4> DEFINE p == PlaceOf(c)
      <4>1. p \in 1 .. Len(clients) /\ clients[p] = c
        BY <3>2, PlaceOfMember
      <4>2. clients' = RemoveAt(clients, p)
        BY <1>4, <3>2 DEF Close
      <4> HIDE DEF p
      <4>3. Members' = Members \ {c}
        BY <1>0, <4>1, <4>2, RemovedIsOut
      <4>4. /\ Len(clients') = Len(clients) - 1
            /\ \A j \in 1 .. Len(clients) - 1 :
                 clients'[j] = IF j < p THEN clients[j] ELSE clients[j + 1]
        BY <1>0, <4>1, <4>2, RemoveAtProperties
      <4>5. ASSUME NEW d \in Members', NEW t \in Sides, SitsAt(d, t)'
            PROVE  SitsAt(d, t) \/ PlaceOf(d) = t + 2
        <5>1. t + 1 \in 1 .. Len(clients) - 1 /\ t + 2 \in 1 .. Len(clients) /\ t \in Nat
              /\ clients'[t + 1] = d
          BY <1>0, <4>4, <4>5 DEF SitsAt, Sides
        <5>2. clients'[t + 1] = IF t + 1 < p THEN clients[t + 1] ELSE clients[t + 1 + 1]
          BY <4>4, <5>1
        <5>3. CASE clients[t + 1] = d
          BY <1>0, <5>1, <5>3 DEF SitsAt
        <5>4. CASE clients[t + 2] = d
          <6>1. IsMember(d)
            BY <4>3 DEF IsMember
          <6>2. PlaceOf(d) \in 1 .. Len(clients) /\ clients[PlaceOf(d)] = d
            BY <6>1, PlaceOfMember
          <6> QED BY <1>0, <5>1, <5>4, <6>2 DEF NamesDiffer
        <5> QED BY <5>1, <5>2, <5>3, <5>4
      <4> QED BY <4>3, <4>5
    <3> QED BY <3>1, <3>2
  <2>2. ASSUME NEW d \in Conns, NEW s \in Sides, matchData'.ready[s] = d PROVE FlagHeld(d, s)'
    <3>1. FlagHeld(d, s)
      BY <2>0, <2>2 DEF Flags
    <3>2. accepted'[d] # NoIp => IsPlayer(d)'
      BY <2>0, <2>1, <3>1 DEF FlagHeld, IsPlayer, TypeOK
    <3>3. ASSUME NEW t \in Sides, SitsAt(d, t)'
          PROVE  t <= s /\ (t = s => SitsAt(d, s)) /\ member'[d] = member[d]
      <4>1. d \in Members' /\ d \in Members /\ d # c
        <5>1. t + 1 \in 1 .. Len(clients') /\ clients'[t + 1] = d
          <6>1. Len(clients') \in Nat
            BY TypeNext, LenProperties DEF TypeOK
          <6> QED BY <3>3, <6>1 DEF SitsAt, Sides
        <5> QED BY <1>0, <2>1, <5>1 DEF Entries
      <4>2. IsPlayer(d)
        BY <1>0, <3>1, <4>1 DEF FlagHeld
      <4>3. SideOf(d) \in Sides /\ SitsAt(d, SideOf(d))
        BY <4>2, SeatOfPlayer
      <4>4. CASE SitsAt(d, t)
        BY <2>0, <3>1, <4>1, <4>4 DEF FlagHeld
      <4>5. CASE PlaceOf(d) = t + 2
        <5>1. SideOf(d) = t + 1 /\ t \in Nat /\ s \in Nat
          BY <4>5 DEF SideOf, Sides
        <5>2. t + 1 <= s
          BY <3>1, <4>3, <5>1 DEF FlagHeld
        <5> QED BY <2>0, <4>1, <5>1, <5>2
      <4> QED BY <2>1, <3>3, <4>1, <4>4, <4>5
    <3> QED BY <2>0, <3>1, <3>2, <3>3 DEF FlagHeld
  <2> QED BY <2>2 DEF Flags
<1>5. ASSUME NEW c \in Conns, NEW spectator \in BOOLEAN, NEW secret \in Secrets \cup {NoSecret},
             JoinReq(c, spectator, secret)
      PROVE  Flags'
  <2>0. UNCHANGED <<accepted, spent, matchData>> /\ c \in cidMap
    BY <1>5 DEF JoinReq
  <2>1. CASE JoinResult(c, spectator, secret) # "ok"
    <3>1. UNCHANGED lobbyVars
      BY <1>5, <2>1 DEF JoinReq
    <3> QED BY <2>0, <3>1, NoFlagNews DEF SameSelf
  <2>2. CASE JoinResult(c, spectator, secret) = "ok"
    <3>1. \A d \in Members : NameOf[d] # NameOf[c]
      BY <2>2 DEF JoinResult
    <3>2. /\ TakePlace(c, spectator, secret)
          /\ member' = [member EXCEPT ![c] = NewMember(spectator, secret)]
      BY <1>5, <2>2 DEF JoinReq, Join, TakePlace
    <3>3. c \notin Members /\ (\A d \in Members : member'[d] = member[d]) /\ accepted[c] # NoIp
      BY <1>0, <2>0, <3>1, <3>2 DEF SeatsHeld
    <3>4. Members \subseteq Members'
      <4>1. CASE spectator
        BY <1>0, <3>2, <4>1, AppendedIsNew DEF TakePlace
      <4>2. CASE ~spectator
        <5>1. PlayerCount + 1 \in 1 .. Len(clients) + 1
          BY Places
        <5> QED BY <1>0, <3>1, <3>2, <4>2, <5>1, InsertedIsNew DEF TakePlace
      <4> QED BY <4>1, <4>2
    <3>5. ASSUME NEW d \in Conns, NEW s \in Sides, matchData'.ready[s] = d PROVE FlagHeld(d, s)'
      <4>1. FlagHeld(d, s)
        BY <2>0, <3>5 DEF Flags
      <4>2. d # c
        BY <3>3, <4>1 DEF FlagHeld, IsPlayer
      <4>3. accepted'[d] # NoIp => IsPlayer(d)'
        BY <2>0, <3>3, <3>4, <4>1 DEF FlagHeld, IsPlayer
      <4>4. ASSUME NEW t \in Sides, SitsAt(d, t)' PROVE SitsAt(d, t) /\ member'[d] = member[d]
        <5>1. SitsAt(d, t) \/ (d \in Members /\ ~IsPlayer(d))
          BY <3>2, <4>2, <4>4, JoinedSeats
        <5>2. SitsAt(d, t)
          BY <1>0, <4>1, <5>1 DEF FlagHeld
        <5> QED BY <3>3, <5>2, OneSeatEach
      <4> QED BY <2>0, <4>1, <4>3, <4>4 DEF FlagHeld
    <3> QED BY <3>5 DEF Flags
  <2> QED BY <2>1, <2>2
<1>6. ASSUME NEW c \in Conns, NEW chara \in Charas, SetChara(c, chara) PROVE Flags'
  <2> DEFINE t == SideOf(c)
  <2>0. /\ UNCHANGED <<clients, accepted, spent>> /\ IsPlayer(c)
        /\ matchData' = [matchData EXCEPT !.chara[t] = chara]
        /\ member' = [member EXCEPT ![c].phase = "waiting", ![c].picked = chara]
    BY <1>6 DEF SetChara, Plays
  <2>1. t \in Sides /\ SitsAt(c, t) /\ \A s \in Sides : SitsAt(c, s) => s = t
    BY <2>0, SeatOfPlayer
  <2> HIDE DEF t
  <2>2. /\ matchData'.chara = [matchData.chara EXCEPT ![t] = chara]
        /\ matchData'.ready = matchData.ready
    BY <2>0 DEF TypeOK, MatchDataOf
  <2>3. /\ member'[c].picked = chara
        /\ \A d \in Conns : d # c => member'[d] = member[d]
    BY <1>0, <2>0 DEF MemberRecord
  <2>4. \A d \in Conns : IsPlayer(d)' = IsPlayer(d)
    <3>1. \A d \in Conns : member'[d].spectator = member[d].spectator
      BY <1>6, PickChanges DEF SameSelf
    <3> QED BY <2>0, <3>1 DEF IsPlayer, Members
  <2>5. ASSUME NEW d \in Conns, NEW s \in Sides, matchData'.ready[s] = d PROVE FlagHeld(d, s)'
    <3>1. FlagHeld(d, s)
      BY <2>2, <2>5 DEF Flags
    <3>2. \A u \in Sides : SitsAt(d, u)' <=> SitsAt(d, u)
      BY <2>0 DEF SitsAt
    <3>3. ASSUME SitsAt(d, s) PROVE matchData'.chara[s] = member'[d].picked
      <4>1. CASE d = c
        <5>1. s = t
          BY <2>1, <3>3, <4>1
        <5> QED BY <1>0, <2>1, <2>2, <2>3, <4>1, <5>1
      <4>2. CASE d # c
        <5>1. s # t
          BY <2>1, <3>3, <4>2, OneSeatEach
        <5> QED BY <1>0, <2>2, <2>3, <3>1, <3>3, <4>2, <5>1 DEF FlagHeld
      <4> QED BY <4>1, <4>2
    <3> QED BY <2>0, <2>4, <3>1, <3>2, <3>3 DEF FlagHeld
  <2> QED BY <2>5 DEF Flags
<1>7. ASSUME NEW c \in Conns, NEW req \in RequestsOf[c], Ready(c, req) PROVE Flags'
  <2> DEFINE t == SideOf(c)
  <2>0. UNCHANGED <<clients, member, accepted, spent>> /\ c \in readying
    BY <1>7 DEF Ready
  <2>1. IsPlayer(c)
    BY <2>0 DEF Readiness
  <2>2. t \in Sides /\ SitsAt(c, t) /\ \A s \in Sides : SitsAt(c, s) => s = t
    BY <2>1, SeatOfPlayer
  <2>3. /\ matchData'.chara = matchData.chara
        /\ matchData'.ready = [matchData.ready EXCEPT ![t] = c]
    BY <1>7 DEF Ready, TypeOK, MatchDataOf
  <2>4. accepted[c] # NoIp /\ c \in spent
    BY <1>0, <2>1 DEF IsPlayer, Picks
  <2>5. t \in Nat /\ matchData.chara[t] = member[c].picked
    BY <2>0, <2>2 DEF Readiness, Sides
  <2> HIDE DEF t
  <2>6. ASSUME NEW d \in Conns, NEW s \in Sides, matchData'.ready[s] = d PROVE FlagHeld(d, s)'
    <3>1. FlagHeld(d, s)
      <4>1. CASE s = t
        <5>1. d = c
          BY <1>0, <2>2, <2>3, <2>6, <4>1
        <5> QED BY <2>1, <2>2, <2>4, <2>5, <4>1, <5>1 DEF FlagHeld
      <4>2. CASE s # t
        BY <1>0, <2>2, <2>3, <2>6, <4>2 DEF Flags
      <4> QED BY <4>1, <4>2
    <3> QED BY <2>0, <2>3, <3>1 DEF FlagHeld, IsPlayer, Members, SitsAt
  <2> QED BY <2>6 DEF Flags
<1>8. ASSUME NEW c \in Conns, Unready(c) PROVE Flags'
  <2>1. UNCHANGED <<clients, accepted, spent>>
    BY <1>8 DEF Unready
  <2>2. ASSUME NEW d \in Conns
        PROVE  SameSelf(member[d], member'[d]) /\ member'[d].picked = member[d].picked
    BY <1>8, PhaseChanges, Zenon
  <2>3. matchData'.chara = matchData.chara
        /\ \A s \in Sides : matchData'.ready[s] \in {matchData.ready[s], Nobody}
    <3>1. CASE UNCHANGED matchData
      BY <3>1
    <3>2. CASE matchData' = [matchData EXCEPT !.ready[SideOf(c)] = Nobody,
                                              !.inputDelay[SideOf(c)] = NoDelay]
      BY <3>2 DEF TypeOK, MatchDataOf
    <3> QED BY <1>8, <3>1, <3>2 DEF Unready
  <2> QED BY <2>1, <2>2, <2>3, NoFlagNews
<1>9. ASSUME NEW c \in Conns, NEW loser \in Sides, ReportResults(c, loser) PROVE Flags'
  <2>1. Rotate(loser)
    BY <1>9 DEF ReportResults
  <2>2. \A s \in Sides : matchData'.ready[s] = Nobody
    BY <2>1, RotatedMatch
  <2> QED BY <1>1, <2>2
<1>10. CASE FinishStep
  <2>0. /\ UNCHANGED <<clients, accepted, spent>> /\ matchData' = KeptMatch
    BY <1>10 DEF FinishStep
  <2>1. ASSUME NEW d \in Conns
        PROVE  SameSelf(member[d], member'[d]) /\ member'[d].picked = member[d].picked
    BY <1>10, PhaseChanges, Zenon
  <2>2. \A s \in Sides :
          /\ Vacated(s) => matchData'.ready[s] = Nobody
          /\ ~Vacated(s) => /\ matchData'.ready[s] = matchData.ready[s]
                            /\ matchData'.chara[s] = matchData.chara[s]
    BY <2>0 DEF KeptMatch, TypeOK, MatchDataOf
  <2>3. ASSUME NEW d \in Conns, NEW s \in Sides, matchData'.ready[s] = d PROVE FlagHeld(d, s)'
    <3>1. ~Vacated(s)
      BY <2>2, <2>3, ServerAssumption
    <3>2. FlagHeld(d, s)
      BY <2>2, <2>3, <3>1 DEF Flags
    <3>3. IsPlayer(d)' = IsPlayer(d)
      BY <2>0, <2>1 DEF IsPlayer, Members, SameSelf
    <3>4. \A t \in Sides : SitsAt(d, t)' <=> SitsAt(d, t)
      BY <2>0 DEF SitsAt
    <3> QED BY <2>0, <2>1, <2>2, <3>1, <3>2, <3>3, <3>4 DEF FlagHeld
  <2> QED BY <2>3 DEF Flags
<1>11. ASSUME NEW c \in Conns, BattleLoaded(c) \/ Return(c) \/ DirectOffer(c) PROVE Flags'
  <2>1. UNCHANGED <<clients, matchData, accepted, spent>>
    BY <1>11 DEF BattleLoaded, Return, DirectOffer, Offer
  <2>2. ASSUME NEW d \in Conns
        PROVE  SameSelf(member[d], member'[d]) /\ member'[d].picked = member[d].picked
    BY <1>11, PhaseChanges, OfferChanges, Zenon
  <2> QED BY <2>1, <2>2, NoFlagNews
<1>12. CASE ResetBattleSync
  <2>1. UNCHANGED <<clients, matchData, accepted, spent>>
    BY <1>12 DEF ResetBattleSync
  <2>2. ASSUME NEW d \in Conns
        PROVE  SameSelf(member[d], member'[d]) /\ member'[d].picked = member[d].picked
    BY <1>12, PhaseChanges, Zenon
  <2> QED BY <2>1, <2>2, NoFlagNews
<1>13. ASSUME NEW c \in Conns,
              \/ Hello(c) \/ SnapshotMsg(c) \/ ReportDesync(c) \/ Forward(c)
              \/ \E seed \in Seeds : SetEnv(c, seed)
              \/ \E stage \in Stages : SetStage(c, stage)
       PROVE  Flags'
  <2>1. UNCHANGED <<clients, member, matchData.chara, matchData.ready, accepted, spent>>
    BY <1>13 DEF Hello, SnapshotMsg, ReportDesync, ReportUpTo, Forward, SetEnv, SetStage,
                 SetPreBattle, TypeOK, MatchDataOf
  <2> QED BY <2>1, NoFlagNews DEF SameSelf
<1>14. CASE UNCHANGED vars
  <2>1. UNCHANGED <<clients, member, matchData, accepted, spent>>
    BY <1>14 DEF vars
  <2> QED BY <2>1, NoFlagNews DEF SameSelf
<1> QED
  BY <1>2, <1>3, <1>4, <1>5, <1>6, <1>7, <1>8, <1>9, <1>10, <1>11, <1>12, <1>13, <1>14
     DEF Next, Owner, Handle, Assign, Release

LEMMA PicksInit == Init => Picks /\ Readiness /\ Flags
<1> SUFFICES ASSUME Init PROVE Picks /\ Readiness /\ Flags
  OBVIOUS
<1>1. /\ \A s \in Sides : /\ matchData.chara[s] = ZeroChara /\ matchData.ready[s] = Nobody
                          /\ charaOwner[s] = Nobody
      /\ \A c \in Conns : accepted[c] = NoIp
      /\ readying = {}
  BY DEF Init, ClearMatchData
<1> QED BY <1>1, ServerAssumption DEF Picks, Readiness, Flags

(* What the clients are told of a seat is about the player sitting in it,  *)
(* whatever the characters, in every lobby where READY follows its pick    *)
(* into one poll.                                                          *)
THEOREM PicksCorrect ==
  ASSUME ReadyInOnePoll
  PROVE  Spec => []SeatsDescribeTheirPlayers
<1>1. TypeOK /\ Picks /\ Readiness /\ Flags => SeatsDescribeTheirPlayers
  <2> SUFFICES ASSUME TypeOK, Picks, Readiness, Flags, Settled, NEW s \in Sides
               PROVE  /\ matchData.chara[s] # ZeroChara =>
                           /\ SeatTaken(s)
                           /\ matchData.chara[s] = member[clients[s + 1]].picked
                           /\ matchData.ready[s] \in {clients[s + 1], Nobody}
                      /\ SeatTaken(s) /\ matchData.ready[s] = clients[s + 1] =>
                           matchData.chara[s] = member[clients[s + 1]].picked
    BY DEF SeatsDescribeTheirPlayers
  <2>1. matchData.chara[s] # ZeroChara =>
          /\ SeatTaken(s) /\ charaOwner[s] = clients[s + 1]
          /\ SitsAt(charaOwner[s], s) => matchData.chara[s] = member[charaOwner[s]].picked
    BY DEF Picks, PickHeld
  <2>2. SeatTaken(s) => SitsAt(clients[s + 1], s)
    BY DEF SeatTaken, SitsAt
  <2>3. matchData.ready[s] # Nobody /\ matchData.chara[s] # ZeroChara =>
          charaOwner[s] = matchData.ready[s]
    BY DEF Readiness, Settled
  <2>4. SeatTaken(s) => clients[s + 1] \in Conns
    BY LenProperties DEF SeatTaken, TypeOK, Sides
  <2>5. SeatTaken(s) /\ matchData.ready[s] = clients[s + 1] => FlagHeld(clients[s + 1], s)
    BY <2>4 DEF Flags
  <2> QED BY <2>1, <2>2, <2>3, <2>5 DEF FlagHeld
<1> QED BY <1>1, PicksInit, LobbyInit, SeatsInit, LobbyNext, SeatsNext, PicksNext, ReadinessNext,
           FlagsNext, TypeCorrect, PTL DEF Spec

(* A player who readied up stays ready through every join and departure of *)
(* somebody else, where READY follows its pick into one poll.              *)
THEOREM ReadinessCorrect ==
  ASSUME ReadyInOnePoll
  PROVE  Spec => ReadinessSurvives
<1> DEFINE Survives ==
      \A c \in Conns, s \in Sides :
         /\ matchData.ready[s] = c /\ SitsAt(c, s) /\ SitsAt(c, s)'
         /\ matchData'.ready[s] # c
         => Unready(c) \/ \E d \in Conns, loser \in Sides : ReportResults(d, loser)
<1>1. TypeOK /\ OneLobby /\ SeatsHeld /\ Picks /\ Readiness /\ [Next]_vars => Survives
  <2> SUFFICES ASSUME TypeOK, OneLobby, SeatsHeld, Picks, Readiness, [Next]_vars,
                      NEW c \in Conns, NEW s \in Sides,
                      matchData.ready[s] = c, SitsAt(c, s), SitsAt(c, s)',
                      matchData'.ready[s] # c
               PROVE  Unready(c) \/ \E d \in Conns, loser \in Sides : ReportResults(d, loser)
    OBVIOUS
  <2>0. /\ matchData.ready \in [Sides -> Conns \cup {Nobody}]
        /\ c \in Members /\ accepted[c] # NoIp /\ c # Nobody
    BY OneSeatEach, ServerAssumption DEF TypeOK, MatchDataOf, SeatsHeld
  <2>1. ASSUME NEW d \in Conns, NEW req \in RequestsOf[d], Ready(d, req) PROVE FALSE
    <3>1. matchData'.ready = [matchData.ready EXCEPT ![SideOf(d)] = d]
      BY <2>1 DEF Ready, TypeOK, MatchDataOf
    <3>2. IsPlayer(d)
      BY <2>1 DEF Ready, Readiness
    <3>3. SideOf(d) \in Sides /\ SitsAt(d, SideOf(d))
      BY <3>2, SeatOfPlayer
    <3>4. s = SideOf(d) => d = c
      BY <3>3, OneSeatEach
    <3> QED BY <2>0, <3>1, <3>3, <3>4
  <2>2. ASSUME NEW d \in Conns, Unready(d) PROVE Unready(c)
    <3>1. IsPlayer(d)
      BY <2>2 DEF Unready, Plays
    <3>2. SideOf(d) \in Sides /\ SitsAt(d, SideOf(d))
      BY <3>1, SeatOfPlayer
    <3>3. s # SideOf(d) => matchData'.ready[s] = matchData.ready[s]
      <4>1. CASE UNCHANGED matchData
        BY <4>1
      <4>2. CASE matchData' = [matchData EXCEPT !.ready[SideOf(d)] = Nobody,
                                                !.inputDelay[SideOf(d)] = NoDelay]
        BY <4>2 DEF TypeOK, MatchDataOf
      <4> QED BY <2>2, <4>1, <4>2 DEF Unready
    <3>4. d = c
      BY <3>2, <3>3, OneSeatEach
    <3> QED BY <2>2, <3>4
  <2>3. CASE EmptyLobby
    <3>1. clients' = <<>>
      BY <2>3 DEF EmptyLobby
    <3> QED BY <3>1 DEF SitsAt, Sides
  <2>4. CASE FinishStep
    <3>1. readying = {} /\ matchData' = KeptMatch
      BY <2>4, ReadyInOnePoll DEF FinishStep
    <3>2. Vacated(s)
      BY <3>1 DEF KeptMatch, TypeOK, MatchDataOf
    <3>3. matchData.chara[s] # ZeroChara
      BY <3>2 DEF Vacated
    <3>4. charaOwner[s] = c
      BY <2>0, <3>1, <3>3 DEF Readiness
    <3>5. IsPlayer(c)
      BY <2>0, <3>3, <3>4 DEF Picks, PickHeld
    <3>6. SeatTaken(s) /\ charaOwner[s] = clients[s + 1]
      BY <3>4, <3>5 DEF SitsAt, SeatTaken, IsPlayer
    <3> QED BY <3>2, <3>6 DEF Vacated
  <2>5. ASSUME NEW d \in Conns,
               \/ Connect(d) \/ Close(d) \/ Hello(d) \/ BattleLoaded(d) \/ Return(d)
               \/ SnapshotMsg(d) \/ ReportDesync(d) \/ DirectOffer(d) \/ Forward(d)
               \/ \E spectator \in BOOLEAN, secret \in Secrets \cup {NoSecret} :
                    JoinReq(d, spectator, secret)
               \/ \E chara \in Charas : SetChara(d, chara)
               \/ \E seed \in Seeds : SetEnv(d, seed)
               \/ \E stage \in Stages : SetStage(d, stage)
        PROVE  UNCHANGED matchData.ready
    BY <2>5 DEF Connect, Close, Hello, BattleLoaded, Return, SnapshotMsg, ReportDesync,
                ReportUpTo, DirectOffer, Offer, Forward, JoinReq, SetChara, SetEnv, SetStage,
                SetPreBattle, matchVars, TypeOK, MatchDataOf
  <2>6. CASE ResetBattleSync \/ UNCHANGED vars
    BY <2>6 DEF ResetBattleSync, matchVars, vars
  <2> QED BY <2>1, <2>2, <2>3, <2>4, <2>5, <2>6 DEF Next, Owner, Handle, Assign, Release
<1> QED BY <1>1, PicksInit, LobbyInit, SeatsInit, LobbyNext, SeatsNext, PicksNext, ReadinessNext,
           TypeCorrect, PTL DEF Spec, ReadinessSurvives
=============================================================================
