---------------------------- MODULE SecureProofs ----------------------------
(***************************************************************************)
(* Proofs about Secure, for any number of challenges.                      *)
(***************************************************************************)
EXTENDS Secure, FiniteSetTheorems, TLAPS

LEMMA OtherNode ==
  ASSUME NEW n \in SecureNodes
  PROVE  PeerOf(n) \in SecureNodes /\ PeerOf(n) # n /\ \A m \in SecureNodes : m # n => m = PeerOf(n)
<1>1. IsFiniteSet(SecureNodes \ {n}) /\ Cardinality(SecureNodes \ {n}) = 1
  BY SecureAssumption, FS_RemoveElement
<1>2. PICK x : SecureNodes \ {n} = {x}
  BY <1>1, FS_Singleton
<1>3. x \in SecureNodes /\ x # n /\ \A m \in SecureNodes : m # n => m = x
  BY <1>2
<1> QED BY <1>3 DEF PeerOf

(* A new element of a bag of single ones.                                  *)
Single(b) == \A d \in DOMAIN b : b[d] = 1

LEMMA AddOne ==
  ASSUME NEW b, Single(b), NEW d, d \notin DOMAIN b, NEW c, c = b (+) SetToBag({d})
  PROVE  Single(c) /\ DOMAIN c = DOMAIN b \cup {d}
<1>1. DOMAIN c = DOMAIN b \cup {d}
  BY DEF (+), SetToBag
<1>2. \A x \in DOMAIN c : c[x] = (IF x \in DOMAIN b THEN b[x] ELSE 0) + (IF x \in {d} THEN 1 ELSE 0)
  BY DEF (+), SetToBag
<1> QED BY <1>1, <1>2 DEF Single

-----------------------------------------------------------------------------
Stamps == [known : BOOLEAN, challenge : Nat, validated : BOOLEAN, valtime_over : BOOLEAN, conftime_over : BOOLEAN]

IsState(S) ==
  /\ S = [stamp |-> S.stamp, carried |-> S.carried, challenges |-> S.challenges, rests_on |-> S.rests_on]
  /\ S.stamp \in [SecureNodes -> Stamps] /\ S.challenges \in Nat

(* A message as the nodes send them, when k challenges have been drawn: an *)
(* answer is to a challenge that was.                                      *)
Proper(m, k) ==
  /\ m.from \in SecureNodes /\ m.type \in {"CHALLENGE", "CRESPONSE", "RRESPONSE"} /\ m.challenge \in 0 .. k
  /\ m.type # "RRESPONSE" => m.challenge > 0
  /\ IF m.type = "CHALLENGE" THEN m.res_sig = <<>> ELSE \E c \in 1 .. k : m.res_sig = Digest(c, m.from)

(* The challenge that an entry waits for is not one it was validated on.   *)
Waits(n, e, b) == Digest(e.challenge, PeerOf(n)) \notin DOMAIN b

Backed(n, e, b) == e.validated => \E d \in DOMAIN b : d[2] = PeerOf(n)

Drawn(S) == \A n \in SecureNodes : S.stamp[n].challenge <= S.challenges

Sent(S) == \A m \in S.carried : Proper(m, S.challenges)

Answered(S) ==
  \A d \in DOMAIN S.rests_on : d[1] \in 1 .. S.challenges /\ \E m \in S.carried : m.from = d[2] /\ m.res_sig = d

Entries(S) == \A n \in SecureNodes : Waits(n, S.stamp[n], S.rests_on) /\ Backed(n, S.stamp[n], S.rests_on)

Confirmed(S) == \A m \in S.carried : m.type = "RRESPONSE" => \E d \in DOMAIN S.rests_on : d[2] # m.from

SecureInv(S) ==
  IsState(S) /\ Drawn(S) /\ Sent(S) /\ Single(S.rests_on) /\ Answered(S) /\ Entries(S) /\ Confirmed(S)

With(S, n, e, M, k, b) ==
  [stamp |-> [S.stamp EXCEPT ![n] = e], carried |-> S.carried \cup M, challenges |-> k, rests_on |-> b]

Changed(S, U, n, e, M, k, b) ==
  /\ IsState(U) /\ U.stamp[n] = e /\ \A x \in SecureNodes \ {n} : U.stamp[x] = S.stamp[x]
  /\ U.carried = S.carried \cup M /\ U.challenges = k /\ U.rests_on = b

LEMMA EntryOf ==
  ASSUME NEW S, IsState(S), NEW n \in SecureNodes, NEW e \in Stamps, NEW M, NEW k \in Nat, NEW b, NEW U, U = With(S, n, e, M, k, b)
  PROVE  Changed(S, U, n, e, M, k, b)
BY DEF IsState, With, Changed

(* The changes of the operations, as records.                              *)
Challenging(S, n, e, m, k) == [S EXCEPT !.challenges = k, !.carried = @ \cup {m}, !.stamp[n] = e]

Resting(S, n, e, b) == [S EXCEPT !.rests_on = b, !.stamp[n] = e]

LEMMA Challenged ==
  ASSUME NEW S, IsState(S), NEW n, NEW e, NEW m, NEW k
  PROVE  Challenging(S, n, e, m, k) = With(S, n, e, {m}, k, S.rests_on)
<1>1. PICK st, ca, ch, ro : S = [stamp |-> st, carried |-> ca, challenges |-> ch, rests_on |-> ro]
  BY DEF IsState
<1> DEFINE T == [S EXCEPT !.challenges = k]
           W == [T EXCEPT !.carried = S.carried \cup {m}]
<1>2. T = [stamp |-> st, carried |-> ca, challenges |-> k, rests_on |-> ro]
  BY <1>1
<1> HIDE DEF T
<1>3. W = [stamp |-> st, carried |-> ca \cup {m}, challenges |-> k, rests_on |-> ro]
  BY <1>1, <1>2
<1> HIDE DEF W
<1>4. [W EXCEPT !.stamp[n] = e] =
        [stamp |-> [st EXCEPT ![n] = e], carried |-> ca \cup {m}, challenges |-> k, rests_on |-> ro]
  BY <1>3
<1>5. [W EXCEPT !.stamp[n] = e] = With(S, n, e, {m}, k, S.rests_on)
  BY <1>1, <1>4 DEF With
<1> QED BY <1>5 DEF T, W, Challenging

LEMMA Kept ==
  ASSUME NEW S, IsState(S), NEW n, NEW e
  PROVE  [S EXCEPT !.stamp[n] = e] = With(S, n, e, {}, S.challenges, S.rests_on)
<1>1. S.carried \cup {} = S.carried
  OBVIOUS
<1> QED BY <1>1 DEF IsState, With

LEMMA Rested ==
  ASSUME NEW S, IsState(S), NEW n, NEW e, NEW b
  PROVE  Resting(S, n, e, b) = With(S, n, e, {}, S.challenges, b)
<1>1. S.carried \cup {} = S.carried
  OBVIOUS
<1>2. PICK st, ca, ch, ro : S = [stamp |-> st, carried |-> ca, challenges |-> ch, rests_on |-> ro]
  BY DEF IsState
<1> DEFINE T == [S EXCEPT !.rests_on = b]
<1>3. T = [stamp |-> st, carried |-> ca, challenges |-> ch, rests_on |-> b]
  BY <1>2
<1> HIDE DEF T
<1>4. [T EXCEPT !.stamp[n] = e] =
        [stamp |-> [st EXCEPT ![n] = e], carried |-> ca, challenges |-> ch, rests_on |-> b]
  BY <1>3
<1>5. [T EXCEPT !.stamp[n] = e] = With(S, n, e, {}, S.challenges, b)
  BY <1>1, <1>2, <1>4 DEF With
<1> QED BY <1>5 DEF T, Resting

LEMMA StillProper ==
  ASSUME NEW m, NEW k \in Nat, Proper(m, k)
  PROVE  Proper(m, k + 1)
BY DEF Proper

(* A new challenge is drawn and sent.                                      *)
LEMMA Fresh ==
  ASSUME NEW S, SecureInv(S), NEW n \in SecureNodes, NEW e \in Stamps, NEW k, k = S.challenges + 1, NEW m,
         e.challenge = k, ~e.validated, Proper(m, k), m.type # "RRESPONSE",
         NEW U, U = With(S, n, e, {m}, k, S.rests_on)
  PROVE  SecureInv(U)
<1>1. IsState(S) /\ Drawn(S) /\ Sent(S) /\ Single(S.rests_on) /\ Answered(S) /\ Entries(S) /\ Confirmed(S)
  BY DEF SecureInv
<1>2. S.challenges \in Nat /\ k \in Nat
  BY <1>1 DEF IsState
<1>3. Changed(S, U, n, e, {m}, k, S.rests_on)
  BY <1>1, <1>2, EntryOf
<1>4. /\ IsState(U) /\ U.stamp[n] = e /\ \A x \in SecureNodes \ {n} : U.stamp[x] = S.stamp[x]
      /\ U.carried = S.carried \cup {m} /\ U.challenges = k /\ U.rests_on = S.rests_on
  BY <1>3 DEF Changed
<1>5. Drawn(U)
  <2>1. \A x \in SecureNodes : S.stamp[x].challenge \in Nat
    BY <1>1 DEF IsState, Stamps
  <2>2. ASSUME NEW x \in SecureNodes PROVE U.stamp[x].challenge <= U.challenges
    <3>1. CASE x = n
      BY <3>1, <1>2, <1>4
    <3>2. CASE x # n
      <4>1. U.stamp[x] = S.stamp[x] /\ U.challenges = S.challenges + 1
        BY <3>2, <1>4
      <4>2. S.stamp[x].challenge <= S.challenges
        BY <1>1 DEF Drawn
      <4> QED BY <4>1, <4>2, <2>1, <1>2
    <3> QED BY <3>1, <3>2
  <2> QED BY <2>2 DEF Drawn
<1>6. Sent(U)
  <2>1. ASSUME NEW x \in S.carried PROVE Proper(x, k)
    BY <1>1, <1>2, StillProper DEF Sent
  <2> QED BY <2>1, <1>4 DEF Sent
<1>7. Answered(U)
  <2>1. ASSUME NEW d \in DOMAIN S.rests_on
        PROVE  d[1] \in 1 .. k /\ \E x \in U.carried : x.from = d[2] /\ x.res_sig = d
    <3>1. d[1] \in 1 .. S.challenges /\ \E x \in S.carried : x.from = d[2] /\ x.res_sig = d
      BY <1>1 DEF Answered
    <3>2. d[1] \in 1 .. k
      BY <3>1, <1>2
    <3> QED BY <3>1, <3>2, <1>4
  <2> QED BY <2>1, <1>4 DEF Answered
<1>8. Entries(U)
  <2>1. Waits(n, e, S.rests_on)
    BY <1>1, <1>2 DEF Waits, Answered, Digest
  <2>2. Backed(n, e, S.rests_on)
    BY DEF Backed
  <2> QED BY <1>1, <1>4, <2>1, <2>2 DEF Entries
<1>9. Confirmed(U)
  BY <1>1, <1>4 DEF Confirmed
<1> QED BY <1>1, <1>4, <1>5, <1>6, <1>7, <1>8, <1>9 DEF SecureInv

(* The other side has answered the challenge that the entry waits for.     *)
LEMMA Validated ==
  ASSUME NEW S, SecureInv(S), NEW n \in SecureNodes, NEW e \in Stamps, NEW m \in S.carried, NEW M,
         e.challenge = 0, m.from # n, NEW d0, m.res_sig = d0, d0 = Digest(S.stamp[n].challenge, PeerOf(n)),
         \A x \in M : Proper(x, S.challenges) /\ x.from = n,
         NEW b, b = S.rests_on (+) SetToBag({d0}),
         NEW U, U = With(S, n, e, M, S.challenges, b)
  PROVE  SecureInv(U)
<1> DEFINE p == PeerOf(n)
<1>1. IsState(S) /\ Drawn(S) /\ Sent(S) /\ Single(S.rests_on) /\ Answered(S) /\ Entries(S) /\ Confirmed(S)
  BY DEF SecureInv
<1>2. S.challenges \in Nat
  BY <1>1 DEF IsState
<1>3. Changed(S, U, n, e, M, S.challenges, b)
  BY <1>1, <1>2, EntryOf
<1>4. /\ IsState(U) /\ U.stamp[n] = e /\ \A x \in SecureNodes \ {n} : U.stamp[x] = S.stamp[x]
      /\ U.carried = S.carried \cup M /\ U.challenges = S.challenges /\ U.rests_on = b
  BY <1>3 DEF Changed
<1>5. p \in SecureNodes /\ p # n /\ \A x \in SecureNodes : x # n => x = p
  BY OtherNode
<1>6. d0 \notin DOMAIN S.rests_on
  BY <1>1 DEF Entries, Waits
<1>7. Single(b) /\ DOMAIN b = DOMAIN S.rests_on \cup {d0}
  BY <1>1, <1>6, AddOne
<1>8. d0[1] \in 1 .. S.challenges /\ d0[2] = p /\ m.from = p
  <2>1. Proper(m, S.challenges)
    BY <1>1 DEF Sent
  <2>2. m.from = p
    BY <2>1, <1>5 DEF Proper
  <2>3. d0 # <<>>
    BY DEF Digest
  <2>4. PICK c \in 1 .. S.challenges : d0 = Digest(c, m.from)
    BY <2>1, <2>3 DEF Proper
  <2> QED BY <2>2, <2>4 DEF Digest
<1>9. Drawn(U)
  <2>1. ASSUME NEW x \in SecureNodes PROVE U.stamp[x].challenge <= S.challenges
    <3>1. CASE x = n
      BY <3>1, <1>2, <1>4
    <3>2. CASE x # n
      BY <3>2, <1>1, <1>4 DEF Drawn
    <3> QED BY <3>1, <3>2
  <2> QED BY <2>1, <1>4 DEF Drawn
<1>10. Sent(U)
  BY <1>1, <1>4 DEF Sent
<1>11. Answered(U)
  <2>1. m \in U.carried /\ m.from = d0[2] /\ m.res_sig = d0
    BY <1>4, <1>8
  <2>2. ASSUME NEW d \in DOMAIN S.rests_on
        PROVE  d[1] \in 1 .. S.challenges /\ \E x \in U.carried : x.from = d[2] /\ x.res_sig = d
    BY <1>1, <1>4 DEF Answered
  <2> QED BY <1>4, <1>7, <1>8, <2>1, <2>2 DEF Answered
<1>12. Entries(U)
  <2>1. Waits(n, e, b)
    <3>1. ASSUME NEW d \in DOMAIN b PROVE d[1] # 0
      <4>1. d[1] \in 1 .. S.challenges
        BY <1>4, <1>11 DEF Answered
      <4> QED BY <4>1, <1>2
    <3> QED BY <3>1 DEF Waits, Digest
  <2>2. ASSUME NEW x \in SecureNodes \ {n} PROVE Waits(x, S.stamp[x], b)
    <3>1. Waits(x, S.stamp[x], S.rests_on)
      BY <1>1 DEF Entries
    <3>2. PeerOf(x) # p
      <4>1. x = p /\ PeerOf(x) # x
        BY <1>5, <2>2, OtherNode
      <4> QED BY <4>1
    <3>3. Digest(S.stamp[x].challenge, PeerOf(x)) # d0
      BY <3>2 DEF Digest
    <3> QED BY <3>1, <3>3, <1>7 DEF Waits
  <2>3. Backed(n, e, b)
    BY <1>7, <1>8 DEF Backed
  <2>4. ASSUME NEW x \in SecureNodes \ {n} PROVE Backed(x, S.stamp[x], b)
    BY <1>1, <1>7 DEF Entries, Backed
  <2> QED BY <1>4, <2>1, <2>2, <2>3, <2>4 DEF Entries
<1>13. Confirmed(U)
  <2>1. d0 \in DOMAIN b /\ d0[2] # n
    BY <1>5, <1>7, <1>8
  <2>2. ASSUME NEW x \in S.carried, x.type = "RRESPONSE" PROVE \E d \in DOMAIN b : d[2] # x.from
    BY <1>1, <1>7, <2>2 DEF Confirmed
  <2>3. ASSUME NEW x \in U.carried, x.type = "RRESPONSE" PROVE \E d \in DOMAIN b : d[2] # x.from
    <3>1. CASE x \in S.carried
      BY <3>1, <2>2, <2>3
    <3>2. CASE x \in M
      BY <3>2, <2>1
    <3> QED BY <3>1, <3>2, <1>4
  <2> QED BY <2>3, <1>4 DEF Confirmed
<1> QED BY <1>4, <1>7, <1>9, <1>10, <1>11, <1>12, <1>13 DEF SecureInv

(* An entry is only looked after, or forgotten.                            *)
LEMMA Touched ==
  ASSUME NEW S, SecureInv(S), NEW n \in SecureNodes, NEW e \in Stamps,
         e.challenge \in {0, S.stamp[n].challenge}, e.validated => S.stamp[n].validated,
         NEW U, U = With(S, n, e, {}, S.challenges, S.rests_on)
  PROVE  SecureInv(U)
<1>1. IsState(S) /\ Drawn(S) /\ Sent(S) /\ Single(S.rests_on) /\ Answered(S) /\ Entries(S) /\ Confirmed(S)
  BY DEF SecureInv
<1>2. S.challenges \in Nat
  BY <1>1 DEF IsState
<1>3. Changed(S, U, n, e, {}, S.challenges, S.rests_on)
  BY <1>1, <1>2, EntryOf
<1>4. /\ IsState(U) /\ U.stamp[n] = e /\ \A x \in SecureNodes \ {n} : U.stamp[x] = S.stamp[x]
      /\ U.carried = S.carried /\ U.challenges = S.challenges /\ U.rests_on = S.rests_on
  BY <1>3 DEF Changed
<1>5. Drawn(U)
  BY <1>1, <1>2, <1>4 DEF Drawn
<1>6. Entries(U)
  <2>1. Waits(n, e, S.rests_on)
    <3>1. CASE e.challenge = 0
      BY <3>1, <1>1, <1>2 DEF Answered, Waits, Digest
    <3>2. CASE e.challenge = S.stamp[n].challenge
      BY <3>2, <1>1 DEF Entries, Waits
    <3> QED BY <3>1, <3>2
  <2>2. Backed(n, e, S.rests_on)
    BY <1>1 DEF Entries, Backed
  <2> QED BY <1>1, <1>4, <2>1, <2>2 DEF Entries
<1> QED BY <1>1, <1>4, <1>5, <1>6 DEF SecureInv, Sent, Answered, Confirmed

-----------------------------------------------------------------------------
(* What the parts of the handling of a packet keep.                        *)
LEMMA SendChallenge ==
  ASSUME NEW S, SecureInv(S), NEW n \in SecureNodes, NEW garbage \in BOOLEAN
  PROVE  SecureInv(send_challenge(S, n, garbage))
<1> DEFINE k == S.challenges + 1
           e == [known |-> TRUE, challenge |-> k, validated |-> FALSE,
                 valtime_over |-> garbage, conftime_over |-> FALSE]
           m == [type |-> "CHALLENGE", from |-> n, challenge |-> k, res_sig |-> <<>>]
           U == send_challenge(S, n, garbage)
<1>1. IsState(S)
  BY DEF SecureInv
<1>2. k \in Nat /\ k > 0
  BY <1>1 DEF IsState
<1>3. e \in Stamps /\ e.challenge = k /\ ~e.validated
  BY <1>2 DEF Stamps
<1>4. Proper(m, k) /\ m.type # "RRESPONSE"
  BY <1>2 DEF Proper
<1>5. U = With(S, n, e, {m}, k, S.rests_on)
  <2>1. U = Challenging(S, n, e, m, k)
    BY DEF send_challenge, Challenging
  <2> HIDE DEF k, e, m, U
  <2> QED BY <1>1, <2>1, Challenged
<1>6. k = S.challenges + 1
  OBVIOUS
<1> HIDE DEF k, e, m, U
<1>7. SecureInv(U)
  BY <1>3, <1>4, <1>5, <1>6, Fresh
<1> QED BY <1>7 DEF U

LEMMA CheckTimestamp ==
  ASSUME NEW S, SecureInv(S), NEW n \in SecureNodes, NEW in_time \in BOOLEAN, NEW garbage \in BOOLEAN
  PROVE  SecureInv(check_timestamp(S, n, in_time, garbage))
<1> DEFINE e == [S.stamp[n] EXCEPT !.valtime_over = FALSE]
           U == [S EXCEPT !.stamp[n].valtime_over = FALSE]
<1>1. IsState(S)
  BY DEF SecureInv
<1>2. S.stamp[n] \in Stamps
  BY <1>1 DEF IsState
<1>3. e \in Stamps /\ e.challenge = S.stamp[n].challenge /\ e.validated = S.stamp[n].validated
  BY <1>2 DEF Stamps
<1>4. U = With(S, n, e, {}, S.challenges, S.rests_on)
  <2>1. U = [S EXCEPT !.stamp[n] = e]
    BY <1>1 DEF IsState
  <2> HIDE DEF e, U
  <2> QED BY <1>1, <2>1, Kept
<1>5. SecureInv(U)
  <2> HIDE DEF e, U
  <2> QED BY <1>3, <1>4, Touched
<1> HIDE DEF U
<1>6. check_timestamp(S, n, in_time, garbage) \in {S, U, send_challenge(S, n, garbage)}
  <2>1. S.stamp[n].known \in BOOLEAN /\ S.stamp[n].validated \in BOOLEAN
    BY <1>2 DEF Stamps
  <2>2. CASE ~S.stamp[n].known
    BY <2>2 DEF check_timestamp
  <2>3. CASE S.stamp[n].known /\ S.stamp[n].validated /\ in_time
    BY <2>3 DEF check_timestamp, U
  <2>4. CASE S.stamp[n].known /\ ~(S.stamp[n].validated /\ in_time)
    BY <2>4 DEF check_timestamp
  <2> QED BY <2>2, <2>3, <2>4
<1> QED BY <1>5, <1>6, SendChallenge

LEMMA ParseChallenge ==
  ASSUME NEW S, SecureInv(S), NEW n \in SecureNodes, NEW garbage \in BOOLEAN,
         NEW m \in S.carried, m.type = "CHALLENGE"
  PROVE  SecureInv(parse_challenge(S, n, m, garbage))
<1> DEFINE k == S.challenges + 1
           o == S.stamp[n]
           e == [known |-> TRUE, challenge |-> k, validated |-> FALSE,
                 valtime_over |-> IF o.known THEN o.valtime_over ELSE garbage, conftime_over |-> FALSE]
           a == [type |-> "CRESPONSE", from |-> n, challenge |-> k, res_sig |-> Digest(m.challenge, n)]
           U == parse_challenge(S, n, m, garbage)
<1>1. CASE o.known /\ ~o.conftime_over
  BY <1>1 DEF parse_challenge
<1>2. CASE ~(o.known /\ ~o.conftime_over)
  <2>1. IsState(S) /\ Proper(m, S.challenges)
    BY DEF SecureInv, Sent
  <2>2. S.challenges \in Nat /\ k \in Nat /\ k > 0
    BY <2>1 DEF IsState
  <2>3. o \in Stamps
    BY <2>1 DEF IsState
  <2>4. e \in Stamps /\ e.challenge = k /\ ~e.validated
    BY <2>2, <2>3 DEF Stamps
  <2>5. m.challenge \in 1 .. k
    BY <2>1, <2>2 DEF Proper
  <2>6. Proper(a, k) /\ a.type # "RRESPONSE"
    <3>1. \E c \in 1 .. k : a.res_sig = Digest(c, a.from)
      BY <2>5
    <3>2. a.from \in SecureNodes /\ a.type = "CRESPONSE" /\ a.challenge = k
      OBVIOUS
    <3> HIDE DEF a
    <3> QED BY <3>1, <3>2, <2>2 DEF Proper
  <2>7. U = With(S, n, e, {a}, k, S.rests_on)
    BY <1>2, <2>1 DEF parse_challenge, With, IsState
  <2>8. k = S.challenges + 1
    OBVIOUS
  <2> HIDE DEF k, e, a, U
  <2>9. SecureInv(U)
    BY <2>4, <2>6, <2>7, <2>8, Fresh
  <2> QED BY <2>9 DEF U
<1> QED BY <1>1, <1>2

LEMMA ParseResponse ==
  ASSUME NEW S, SecureInv(S), NEW n \in SecureNodes, NEW m \in S.carried, m.from # n
  PROVE  /\ m.type = "CRESPONSE" => SecureInv(parse_cres(S, n, m))
         /\ SecureInv(parse_rres(S, n, m))
<1> DEFINE d == Digest(S.stamp[n].challenge, PeerOf(n))
           e == [S.stamp[n] EXCEPT !.challenge = 0, !.validated = TRUE, !.valtime_over = FALSE]
           b == S.rests_on (+) SetToBag({d})
           a == [type |-> "RRESPONSE", from |-> n, challenge |-> 0, res_sig |-> Digest(m.challenge, n)]
           V == ValidateAndClear(S, n)
           W == [ValidateAndClear(S, n) EXCEPT !.carried = @ \cup {a}]
<1>1. CASE ~(S.stamp[n].known /\ m.res_sig = d)
  BY <1>1 DEF parse_cres, parse_rres
<1>2. CASE S.stamp[n].known /\ m.res_sig = d
  <2>1. IsState(S) /\ Proper(m, S.challenges)
    BY DEF SecureInv, Sent
  <2>2. S.challenges \in Nat /\ S.stamp[n] \in Stamps
    BY <2>1 DEF IsState
  <2>3. e \in Stamps /\ e.challenge = 0
    BY <2>2 DEF Stamps
  <2>4. V = With(S, n, e, {}, S.challenges, b)
    <3>1. V = Resting(S, n, e, b)
      BY <2>1, <2>2 DEF ValidateAndClear, IsState, Stamps, Resting
    <3> HIDE DEF e, b, V
    <3> QED BY <2>1, <3>1, Rested
  <2>5. W = With(S, n, e, {a}, S.challenges, b)
    BY <2>4 DEF With
  <2>6. ASSUME m.type = "CRESPONSE" PROVE Proper(a, S.challenges) /\ a.from = n
    <3>1. m.challenge \in 1 .. S.challenges
      BY <2>1, <2>2, <2>6 DEF Proper
    <3>2. \E c \in 1 .. S.challenges : a.res_sig = Digest(c, a.from)
      BY <3>1
    <3>3. a.from = n /\ a.type = "RRESPONSE" /\ a.challenge = 0
      OBVIOUS
    <3> HIDE DEF a
    <3> QED BY <3>2, <3>3, <2>2 DEF Proper
  <2>7. parse_rres(S, n, m) = V /\ parse_cres(S, n, m) = W
    BY <1>2 DEF parse_rres, parse_cres
  <2>8. d = Digest(S.stamp[n].challenge, PeerOf(n)) /\ b = S.rests_on (+) SetToBag({d})
    OBVIOUS
  <2> HIDE DEF a, b, d, e, V, W
  <2>9. SecureInv(V)
    BY <1>2, <2>3, <2>4, <2>8, Validated
  <2>10. ASSUME m.type = "CRESPONSE" PROVE SecureInv(W)
    <3>1. \A x \in {a} : Proper(x, S.challenges) /\ x.from = n
      BY <2>6, <2>10
    <3> QED BY <1>2, <2>3, <2>5, <2>8, <3>1, Validated
  <2> QED BY <2>7, <2>9, <2>10
<1> QED BY <1>1, <1>2

LEMMA CheckAuth ==
  ASSUME NEW S, SecureInv(S), NEW n \in SecureNodes, NEW garbage \in BOOLEAN,
         NEW m \in {x \in S.carried : x.from # n} \cup {[type |-> "other"]}
  PROVE  SecureInv(check_auth(S, n, m, garbage))
<1>1. CASE m = [type |-> "other"]
  BY <1>1 DEF check_auth
<1>2. CASE m \in S.carried /\ m.from # n
  <2>1. m.type \in {"CHALLENGE", "CRESPONSE", "RRESPONSE"}
    BY <1>2 DEF SecureInv, Sent, Proper
  <2>2. CASE m.type = "CHALLENGE"
    <3>1. check_auth(S, n, m, garbage) = parse_challenge(S, n, m, garbage)
      BY <2>2 DEF check_auth
    <3> QED BY <3>1, <1>2, <2>2, ParseChallenge
  <2>3. CASE m.type = "CRESPONSE"
    <3>1. check_auth(S, n, m, garbage) = parse_cres(S, n, m)
      BY <2>3 DEF check_auth
    <3> QED BY <3>1, <1>2, <2>3, ParseResponse
  <2>4. CASE m.type = "RRESPONSE"
    <3>1. check_auth(S, n, m, garbage) = parse_rres(S, n, m)
      BY <2>4 DEF check_auth
    <3> QED BY <3>1, <1>2, <2>4, ParseResponse
  <2> QED BY <2>1, <2>2, <2>3, <2>4
<1> QED BY <1>1, <1>2

-----------------------------------------------------------------------------
(* The state of the plugin, as a record, is as SecureInv says.             *)
Sound == SecureInv(SecureState)

LEMMA Becomes ==
  ASSUME NEW U, SecureInv(U), SecureBecome(U)
  PROVE  Sound'
<1>1. U = [stamp |-> U.stamp, carried |-> U.carried, challenges |-> U.challenges, rests_on |-> U.rests_on]
  BY DEF SecureInv, IsState
<1>2. SecureState' = U
  BY <1>1 DEF SecureBecome, SecureState
<1> QED BY <1>2 DEF Sound

(* A step that changes only the times of an entry, or forgets it.          *)
LEMMA TimesPass ==
  ASSUME Sound, NEW n \in SecureNodes, NEW e \in Stamps,
         e.challenge \in {0, stamp[n].challenge}, e.validated => stamp[n].validated,
         stamp' = [stamp EXCEPT ![n] = e], UNCHANGED <<carried, challenges, rests_on>>
  PROVE  Sound'
<1> DEFINE S == SecureState
           U == With(S, n, e, {}, S.challenges, S.rests_on)
<1>1. S.stamp = stamp /\ S.carried = carried /\ S.challenges = challenges /\ S.rests_on = rests_on
  BY DEF SecureState
<1>2. SecureInv(S)
  BY DEF Sound
<1>3. SecureInv(U)
  <2>1. PICK V : V = U
    OBVIOUS
  <2>2. PICK T : T = S
    OBVIOUS
  <2>3. V = With(T, n, e, {}, T.challenges, T.rests_on) /\ SecureInv(T) /\ T.stamp = stamp
    BY <1>1, <1>2, <2>1, <2>2
  <2>4. e.challenge \in {0, T.stamp[n].challenge} /\ (e.validated => T.stamp[n].validated)
    BY <2>3
  <2>5. SecureInv(V)
    BY <2>3, <2>4, Touched
  <2> QED BY <2>1, <2>5
<1>4. SecureState' = U
  <2>1. carried \cup {} = carried
    OBVIOUS
  <2> QED BY <1>1, <2>1 DEF SecureState, With
<1> QED BY <1>3, <1>4 DEF Sound

LEMMA SoundInit == secure_plugin_init => Sound
<1> SUFFICES ASSUME secure_plugin_init PROVE Sound
  OBVIOUS
<1>1. DOMAIN rests_on = {}
  BY DEF secure_plugin_init, EmptyBag, SetToBag
<1>2. NoStamp \in Stamps /\ NoStamp.challenge = 0 /\ ~NoStamp.validated
  BY DEF NoStamp, Stamps
<1>3. \A n \in SecureNodes : stamp[n] = NoStamp
  BY DEF secure_plugin_init
<1> DEFINE S == SecureState
<1>4. S.stamp = stamp /\ S.carried = carried /\ S.challenges = challenges /\ S.rests_on = rests_on
  BY DEF SecureState
<1>5. IsState(S)
  <2>1. S = [stamp |-> S.stamp, carried |-> S.carried, challenges |-> S.challenges, rests_on |-> S.rests_on]
    BY DEF SecureState
  <2>2. stamp \in [SecureNodes -> Stamps] /\ challenges \in Nat
    BY <1>2 DEF secure_plugin_init
  <2> QED BY <2>1, <2>2, <1>4 DEF IsState
<1>6. S.carried = {} /\ S.challenges = 0
  BY <1>4 DEF secure_plugin_init
<1>7. Drawn(S)
  BY <1>2, <1>3, <1>4, <1>6 DEF Drawn
<1>8. Sent(S) /\ Confirmed(S)
  BY <1>6 DEF Sent, Confirmed
<1>9. Answered(S) /\ Single(S.rests_on)
  BY <1>1, <1>4 DEF Answered, Single
<1>10. Entries(S)
  BY <1>1, <1>2, <1>3, <1>4 DEF Entries, Waits, Backed
<1> QED BY <1>5, <1>7, <1>8, <1>9, <1>10 DEF Sound, SecureInv

LEMMA SoundNext == Sound /\ [SecureNext]_secureVars => Sound'
<1> SUFFICES ASSUME Sound, [SecureNext]_secureVars PROVE Sound'
  OBVIOUS
<1>1. stamp \in [SecureNodes -> Stamps]
  BY DEF Sound, SecureInv, IsState, SecureState
<1>2. CASE UNCHANGED secureVars
  <2>1. SecureState' = SecureState
    BY <1>2 DEF secureVars, SecureState
  <2> QED BY <2>1 DEF Sound
<1>3. ASSUME NEW n \in SecureNodes, secure_preprocessor(n) PROVE Sound'
  <2>1. PICK S : S = SecureState
    OBVIOUS
  <2>2. SecureInv(S) /\ S.carried = carried
    BY <2>1 DEF Sound, SecureState
  <2>3. PICK m \in {x \in carried : x.from # n} \cup {[type |-> "other"]}, in_time \in BOOLEAN, garbage \in BOOLEAN :
          SecureBecome(check_timestamp(check_auth(S, n, m, garbage), n, in_time, garbage))
    BY <1>3, <2>1 DEF secure_preprocessor
  <2>4. SecureInv(check_auth(S, n, m, garbage))
    BY <2>2, CheckAuth
  <2>5. SecureInv(check_timestamp(check_auth(S, n, m, garbage), n, in_time, garbage))
    BY <2>4, CheckTimestamp
  <2> QED BY <2>3, <2>5, Becomes
<1>4. ASSUME NEW n \in SecureNodes, ConftimePasses(n) PROVE Sound'
  <2> DEFINE e == [stamp[n] EXCEPT !.conftime_over = TRUE]
  <2>1. e \in Stamps /\ e.challenge = stamp[n].challenge /\ e.validated = stamp[n].validated
    BY <1>1 DEF Stamps
  <2>2. stamp' = [stamp EXCEPT ![n] = e] /\ UNCHANGED <<carried, challenges, rests_on>>
    BY <1>4 DEF ConftimePasses
  <2> HIDE DEF e
  <2> QED BY <2>1, <2>2, TimesPass
<1>5. ASSUME NEW n \in SecureNodes, ValtimePasses(n) PROVE Sound'
  <2> DEFINE e == [stamp[n] EXCEPT !.valtime_over = TRUE]
  <2>1. e \in Stamps /\ e.challenge = stamp[n].challenge /\ e.validated = stamp[n].validated
    BY <1>1 DEF Stamps
  <2>2. stamp' = [stamp EXCEPT ![n] = e] /\ UNCHANGED <<carried, challenges, rests_on>>
    BY <1>5 DEF ValtimePasses
  <2> HIDE DEF e
  <2> QED BY <2>1, <2>2, TimesPass
<1>6. ASSUME NEW n \in SecureNodes, timeout_timestamps(n) PROVE Sound'
  <2>1. NoStamp \in Stamps /\ NoStamp.challenge = 0 /\ ~NoStamp.validated
    BY DEF NoStamp, Stamps
  <2>2. stamp' = [stamp EXCEPT ![n] = NoStamp] /\ UNCHANGED <<carried, challenges, rests_on>>
    BY <1>6 DEF timeout_timestamps
  <2> QED BY <2>1, <2>2, TimesPass
<1> QED BY <1>2, <1>3, <1>4, <1>5, <1>6 DEF SecureNext

(* The inductive invariant implies what the run checks: the record's       *)
(* conjuncts are those of the property, with what keeps them true (the     *)
(* challenge an entry waits for has validated none).                       *)
LEMMA SoundMeans == Sound => ValidatedOnce
<1> SUFFICES ASSUME Sound PROVE ValidatedOnce
  OBVIOUS
<1> DEFINE S == SecureState
<1>1. S.stamp = stamp /\ S.carried = carried /\ S.challenges = challenges /\ S.rests_on = rests_on
  BY DEF SecureState
<1>2. Single(S.rests_on) /\ Answered(S) /\ Entries(S) /\ Confirmed(S)
  BY DEF Sound, SecureInv
<1> HIDE DEF S
<1> QED BY <1>1, <1>2 DEF ValidatedOnce, Single, Answered, Entries, Backed, Confirmed

(* Over any number of challenges, and with every message lost, late or     *)
(* repeated: an entry of the plugin is validated only on an answer of the  *)
(* other node, each answer validates one exchange, and an answer to an     *)
(* answer means that its sender had validated (parse_cres, parse_rres).    *)
THEOREM ExchangeSound == SecureSpec => []ValidatedOnce
<1>1. secure_plugin_init => Sound
  BY SoundInit
<1>2. Sound /\ [SecureNext]_secureVars => Sound'
  BY SoundNext
<1>3. Sound => ValidatedOnce
  BY SoundMeans
<1> QED BY <1>1, <1>2, <1>3, PTL DEF SecureSpec
=============================================================================
