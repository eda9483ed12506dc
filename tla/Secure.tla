------------------------------- MODULE Secure -------------------------------
(***************************************************************************)
(* The timestamp exchange of the secure plugin (lib/secure) between two    *)
(* nodes with the same key: packets of a neighbor are taken only after a   *)
(* challenge, its answer and the answer to that have fixed the difference  *)
(* of their clocks.  The network loses, duplicates, delays and reorders.   *)
(* Signatures are right: both nodes follow the code and have the key.      *)
(***************************************************************************)
EXTENDS Integers, FiniteSets, Bags

CONSTANTS SecureNodes, MaxChallenges

ASSUME SecureAssumption == IsFiniteSet(SecureNodes) /\ Cardinality(SecureNodes) = 2 /\ MaxChallenges \in Nat

VARIABLES stamp,         \* timestamps: the entry of each node for the other one
          carried,       \* all messages sent, for each may arrive late or again
          challenges,    \* how many random challenges have been drawn
          rests_on       \* bag of the challenges on which an entry was validated

secureVars == <<stamp, carried, challenges, rests_on>>

PeerOf(n) == CHOOSE m \in SecureNodes : m # n

NoStamp == [known |-> FALSE, challenge |-> 0, validated |-> FALSE, valtime_over |-> TRUE, conftime_over |-> TRUE]

(* The digest of a challenge and the address of who answers it.            *)
Digest(challenge, node) == <<challenge, node>>

------------------------------------------------------------------------------
(* The state as a record S, changed by each part of the handling of a      *)
(* packet.  A challenge is a number drawn at random: a new one.            *)
SecureState == [stamp |-> stamp, carried |-> carried, challenges |-> challenges, rests_on |-> rests_on]

SecureBecome(S) ==
  /\ S.challenges <= MaxChallenges
  /\ stamp' = S.stamp /\ carried' = S.carried /\ challenges' = S.challenges /\ rests_on' = S.rests_on

(* The validity time of a new entry is whatever the memory holds.          *)
send_challenge(S, n, garbage) ==
  LET c == S.challenges + 1
  IN  [S EXCEPT !.challenges = c,
                !.carried = @ \cup {[type |-> "CHALLENGE", from |-> n, challenge |-> c, res_sig |-> <<>>]},
                !.stamp[n] = [known |-> TRUE, challenge |-> c, validated |-> FALSE,
                              valtime_over |-> garbage, conftime_over |-> FALSE]]

(* An entry for whom a packet has come in time is kept longer.             *)
check_timestamp(S, n, in_time, garbage) ==
  CASE ~S.stamp[n].known -> send_challenge(S, n, garbage)
    [] S.stamp[n].known /\ S.stamp[n].validated /\ in_time -> [S EXCEPT !.stamp[n].valtime_over = FALSE]
    [] OTHER -> S

(* While an exchange is young a challenge of the other side is refused.    *)
parse_challenge(S, n, m, garbage) ==
  LET c == S.challenges + 1
      e == S.stamp[n]
      answer == [type |-> "CRESPONSE", from |-> n, challenge |-> c, res_sig |-> Digest(m.challenge, n)]
  IN  IF e.known /\ ~e.conftime_over THEN S
      ELSE [S EXCEPT !.challenges = c, !.carried = @ \cup {answer},
                     !.stamp[n] = [known |-> TRUE, challenge |-> c, validated |-> FALSE,
                                   valtime_over |-> IF e.known THEN e.valtime_over ELSE garbage,
                                   conftime_over |-> FALSE]]

ValidateAndClear(S, n) ==
  [S EXCEPT !.rests_on = @ (+) SetToBag({Digest(S.stamp[n].challenge, PeerOf(n))}),
            !.stamp[n].challenge = 0, !.stamp[n].validated = TRUE, !.stamp[n].valtime_over = FALSE]

(* Mutant: the challenge of a validated entry stays.                       *)
ValidateAgain(S, n, m) ==
  IF S.stamp[n].known /\ m.res_sig = Digest(S.stamp[n].challenge, PeerOf(n))
  THEN [S EXCEPT !.rests_on = @ (+) SetToBag({m.res_sig}),
                 !.stamp[n].validated = TRUE, !.stamp[n].valtime_over = FALSE]
  ELSE S

parse_rres(S, n, m) ==
  IF S.stamp[n].known /\ m.res_sig = Digest(S.stamp[n].challenge, PeerOf(n)) THEN ValidateAndClear(S, n) ELSE S

parse_cres(S, n, m) ==
  LET answer == [type |-> "RRESPONSE", from |-> n, challenge |-> 0, res_sig |-> Digest(m.challenge, n)]
  IN  IF S.stamp[n].known /\ m.res_sig = Digest(S.stamp[n].challenge, PeerOf(n))
      THEN [ValidateAndClear(S, n) EXCEPT !.carried = @ \cup {answer}]
      ELSE S

check_auth(S, n, m, garbage) ==
  CASE m.type = "CHALLENGE" -> parse_challenge(S, n, m, garbage)
    [] m.type = "CRESPONSE" -> parse_cres(S, n, m)
    [] m.type = "RRESPONSE" -> parse_rres(S, n, m)
    [] m.type = "other" -> S

------------------------------------------------------------------------------
(* A packet arrives: an answer or challenge in it is handled first, then   *)
(* the packet itself is checked as every other.                            *)
secure_preprocessor(n) ==
  \E m \in {k \in carried : k.from # n} \cup {[type |-> "other"]}, in_time, garbage \in BOOLEAN :
    SecureBecome(check_timestamp(check_auth(SecureState, n, m, garbage), n, in_time, garbage))

(* Times pass.  An entry is validated after its exchange began, for six    *)
(* times as long.                                                          *)
ConftimePasses(n) ==
  /\ stamp[n].known /\ ~stamp[n].conftime_over
  /\ stamp' = [stamp EXCEPT ![n].conftime_over = TRUE]
  /\ UNCHANGED <<carried, challenges, rests_on>>

ValtimePasses(n) ==
  /\ stamp[n].known /\ ~stamp[n].valtime_over
  /\ stamp[n].validated => stamp[n].conftime_over
  /\ stamp' = [stamp EXCEPT ![n].valtime_over = TRUE]
  /\ UNCHANGED <<carried, challenges, rests_on>>

timeout_timestamps(n) ==
  /\ stamp[n].known /\ stamp[n].valtime_over /\ stamp[n].conftime_over
  /\ stamp' = [stamp EXCEPT ![n] = NoStamp]
  /\ UNCHANGED <<carried, challenges, rests_on>>

secure_plugin_init ==
  /\ stamp = [n \in SecureNodes |-> NoStamp]
  /\ carried = {} /\ challenges = 0 /\ rests_on = EmptyBag

SecureNext ==
  \E n \in SecureNodes :
    secure_preprocessor(n) \/ ConftimePasses(n) \/ ValtimePasses(n) \/ timeout_timestamps(n)

SecureSpec == secure_plugin_init /\ [][SecureNext]_secureVars

------------------------------------------------------------------------------
(* Whatever is lost, late or repeated, and whenever entries time out or    *)
(* both nodes begin at once: an entry is validated only on an answer of    *)
(* the other node, each answer validates once, so that an old timestamp    *)
(* never replaces the difference of the clocks (parse_cres, parse_rres),   *)
(* and an answer to an answer means that its sender had validated.         *)
ValidatedOnce ==
  /\ \A d \in DOMAIN rests_on : rests_on[d] = 1 /\ \E m \in carried : m.from = d[2] /\ m.res_sig = d
  /\ \A n \in SecureNodes : stamp[n].validated => \E d \in DOMAIN rests_on : d[2] = PeerOf(n)
  /\ \A m \in carried : m.type = "RRESPONSE" => \E d \in DOMAIN rests_on : d[2] # m.from
==============================================================================
