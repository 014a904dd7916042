------------------------------- MODULE Pairing -------------------------------
(***************************************************************************)
(* Pairing with a receiver (airplay-pairing): the pair-setup, transient,   *)
(* pair-verify and FairPlay machines, and the PairingSession that drives   *)
(* them.  Cryptography is symbolic: a secret is what went into it, a proof *)
(* or a sealed body is the secret it was made with.  The caller may hand   *)
(* the session an answer it has already used, call out of order, give up   *)
(* and begin again; the receiver may refuse, restart or answer garbage.    *)
(***************************************************************************)
EXTENDS Naturals, Sequences, FiniteSets

CONSTANTS
  Pins,        \* the codes a user may type
  RightPin,    \* the one the receiver shows
  Orders,      \* the orders in which a receiver may sign, the first tried first
  MaxAttempts, \* bound: sessions begun
  MaxFlows     \* bound: flows begun in one session

ASSUME PairingAssumption ==
  /\ RightPin \in Pins /\ 1 \in DOMAIN Orders /\ {MaxAttempts, MaxFlows} \subseteq Nat

VARIABLES
  pairing,    \* the PairingSession, see NewSession
  attempts,   \* sessions begun, also the client's ephemeral key
  accessory,  \* [nonce, secret, order, knows]: the receiver
  letter,     \* what was sent and not yet read, or Blank
  replies,    \* the last two answers, which the caller may hand in
  sealed      \* secrets the receiver has agreed to, ever

pairingVars == <<pairing, attempts, accessory, letter, replies, sealed>>

-----------------------------------------------------------------------------
(* Messages and machines.                                                  *)

\* One shape for every message: protocol, number, keys, seal, signing order.
Blank == [proto |-> "none", n |-> 0, c |-> 0, s |-> 0, mac |-> <<>>, order |-> "none"]
Refusal(proto) == [Blank EXCEPT !.proto = proto]

FreshSetup(pin, transient) ==
  [st |-> "Initial", pin |-> pin, transient |-> transient, c |-> attempts, proof |-> <<>>]
FreshVerify(known) ==
  [st |-> "Initial", c |-> attempts, s |-> 0, secret |-> <<>>, known |-> known,
   order |-> Orders[1]]

\* A step of a machine: the machine after it, whether it succeeded, what it
\* wants sent.
Step(m, ok, out) == [m |-> m, ok |-> ok, out |-> out]
Fails(m) == Step([m EXCEPT !.st = "Failed"], FALSE, Blank)

\* What SRP leaves with a client that typed pin and with the receiver, and what
\* a key exchange leaves with both.
SrpSecret(pin, c, s) == <<pin, c, s>>
VerifierSecret(c, s) == SrpSecret(RightPin, c, s)
EcdhSecret(c, s) == <<c, s>>

\* PairSetup: any call in the wrong state fails the machine for good.
GenerateM1(m) ==
  IF m.st # "Initial" THEN Fails(m)
  ELSE Step([m EXCEPT !.st = "M1Sent"], TRUE, [Blank EXCEPT !.proto = "setup", !.n = 1])

ProcessM2(m, r) ==
  IF m.st = "M1Sent" /\ r.proto = "setup" /\ r.n = 2
  THEN Step([m EXCEPT !.st = "M2Received", !.proof = SrpSecret(m.pin, m.c, r.s)], TRUE, Blank)
  ELSE Fails(m)

GenerateM3(m) ==
  IF m.st # "M2Received" THEN Fails(m)
  ELSE Step([m EXCEPT !.st = "M3Sent"], TRUE,
            [Blank EXCEPT !.proto = "setup", !.n = 3, !.c = m.c, !.mac = m.proof])

\* Faulty: the server's proof is not compared.
ProcessM4Blindly(m, r) ==
  IF m.st = "M3Sent" /\ r.proto = "setup" /\ r.n = 4
  THEN Step([m EXCEPT !.st = "M4Received"], TRUE, Blank)
  ELSE Fails(m)

ProcessM4(m, r) ==
  IF m.st = "M3Sent" /\ r.proto = "setup" /\ r.n = 4 /\ r.mac = m.proof
  THEN Step([m EXCEPT !.st = "M4Received"], TRUE, Blank)
  ELSE Fails(m)

\* A machine that is not transient keeps its state here.
CompleteTransient(m) ==
  IF m.st # "M4Received" THEN Fails(m)
  ELSE IF ~m.transient THEN Step(m, FALSE, Blank)
  ELSE Step([m EXCEPT !.st = "Complete"], TRUE, Blank)

GenerateM5(m) ==
  IF m.st # "M4Received" THEN Fails(m)
  ELSE Step([m EXCEPT !.st = "M5Sent"], TRUE,
            [Blank EXCEPT !.proto = "setup", !.n = 5, !.mac = m.proof])

ProcessM6(m, r) ==
  IF m.st = "M5Sent" /\ r.proto = "setup" /\ r.n = 6 /\ r.mac = m.proof
  THEN Step([m EXCEPT !.st = "Complete"], TRUE, Blank)
  ELSE Fails(m)

\* PairVerify: a call in the wrong state is refused and changes nothing.
VerifyM1(m) ==
  IF m.st # "Initial" THEN Step(m, FALSE, Blank)
  ELSE Step([m EXCEPT !.st = "M1Sent"], TRUE, [Blank EXCEPT !.proto = "verify", !.n = 1, !.c = m.c])

\* build_signed_message: the orders are tried until the signature verifies;
\* without a key to verify with, the first one stays.
SigningOrder(m, r) == IF m.known THEN r.order ELSE m.order

VerifyM2(m, r) ==
  LET secret == EcdhSecret(m.c, r.s)
      got == [m EXCEPT !.s = r.s, !.secret = secret]
  IN IF m.st # "M1Sent" THEN Step(m, FALSE, Blank)
     ELSE IF r.proto # "verify" \/ r.n # 2 THEN Fails(m)
     ELSE IF r.mac # secret THEN Fails(got)
     ELSE Step([got EXCEPT !.st = "M2Received", !.order = SigningOrder(m, r)], TRUE, Blank)

VerifyM3(m) ==
  IF m.st # "M2Received" THEN Step(m, FALSE, Blank)
  ELSE Step([m EXCEPT !.st = "M3Sent"], TRUE,
            [Blank EXCEPT !.proto = "verify", !.n = 3, !.mac = m.secret, !.order = m.order])

\* Any body that carries the number and no error will do.
VerifyM4(m, r) ==
  IF m.st # "M3Sent" THEN Step(m, FALSE, Blank)
  ELSE IF r.n = 4 THEN Step([m EXCEPT !.st = "Complete"], TRUE, Blank)
  ELSE Fails(m)

\* FairPlaySetup: two phases, each answered with a body of the right length.
Phase1(m) ==
  IF m.st # "Initial" THEN Fails(m)
  ELSE Step([m EXCEPT !.st = "Phase1Sent"], TRUE, [Blank EXCEPT !.proto = "fairplay", !.n = 1])
Phase1Response(m, r) ==
  IF m.st = "Phase1Sent" /\ r.proto = "fairplay" /\ r.n = 2
  THEN Step([m EXCEPT !.st = "Phase1Complete"], TRUE, Blank) ELSE Fails(m)
Phase3(m) ==
  IF m.st # "Phase1Complete" THEN Fails(m)
  ELSE Step([m EXCEPT !.st = "Phase3Sent"], TRUE, [Blank EXCEPT !.proto = "fairplay", !.n = 3])
Phase3Response(m, r) ==
  IF m.st = "Phase3Sent" /\ r.proto = "fairplay" /\ r.n = 4
  THEN Step([m EXCEPT !.st = "Complete"], TRUE, Blank) ELSE Fails(m)

\* A call that follows one that succeeded.
Then(first, Second(_)) == IF first.ok THEN Second(first.m) ELSE first

-----------------------------------------------------------------------------
(* The session.                                                            *)

Flows == {"setup", "transient", "verify", "fairplay"}
NoMachine == [st |-> "none"]

NewSession ==
  [machine |-> [f \in Flows |-> NoMachine], stage |-> [f \in Flows |-> "NotStarted"],
   secret |-> <<>>, keys |-> <<>>, taken |-> FALSE]

\* Applies a step of flow f; the stage moves only when it succeeded.
Apply(f, result, stage) ==
  [pairing EXCEPT !.machine[f] = result.m, !.stage[f] = IF result.ok THEN stage ELSE @]

\* start_*: the machine is created once per session.
StartFlow(f, result) ==
  /\ pairing.machine[f] = NoMachine /\ attempts > 0 /\ letter = Blank
  /\ Cardinality({g \in Flows : pairing.machine[g] # NoMachine}) < MaxFlows
  /\ pairing' = Apply(f, result, "WaitingM2")
  /\ letter' = result.out
  /\ UNCHANGED <<attempts, accessory, replies, sealed>>

StartPairSetup == \E pin \in Pins : StartFlow("setup", GenerateM1(FreshSetup(pin, FALSE)))
StartTransient == \E pin \in Pins : StartFlow("transient", GenerateM1(FreshSetup(pin, TRUE)))
StartPairVerify == \E known \in BOOLEAN : StartFlow("verify", VerifyM1(FreshVerify(known)))
StartFairPlay == StartFlow("fairplay", Phase1([st |-> "Initial"]))

\* continue_*: the answer meets the stage the session is in.
Continue(f, stage, Process(_, _), Generate(_), next) ==
  /\ pairing.stage[f] = stage /\ letter = Blank
  /\ \E i \in DOMAIN replies :
       LET result == Then(Process(pairing.machine[f], replies[i]), Generate)
       IN /\ pairing' = Apply(f, result, next)
          /\ letter' = result.out
  /\ UNCHANGED <<attempts, accessory, replies, sealed>>

ContinueSetupM2 == Continue("setup", "WaitingM2", ProcessM2, GenerateM3, "WaitingM4")
ContinueSetupM4 == Continue("setup", "WaitingM4", ProcessM4, GenerateM5, "WaitingM6")
ContinueTransientM2 == Continue("transient", "WaitingM2", ProcessM2, GenerateM3, "WaitingM4")
ContinueVerifyM2 == Continue("verify", "WaitingM2", VerifyM2, VerifyM3, "WaitingM4")
ContinueFairPlay1 == Continue("fairplay", "WaitingM2", Phase1Response, Phase3, "WaitingM4")

\* The last answer of a flow: what the session keeps of it.
Conclude(f, stage, Process(_, _), After(_), Kept(_, _)) ==
  /\ pairing.stage[f] = stage /\ letter = Blank
  /\ \E i \in DOMAIN replies :
       LET result == Then(Process(pairing.machine[f], replies[i]), After)
       IN pairing' = IF result.ok THEN Kept(Apply(f, result, "Complete"), result.m)
                     ELSE Apply(f, result, stage)
  /\ UNCHANGED <<attempts, accessory, letter, replies, sealed>>

Same(m) == Step(m, TRUE, Blank)
KeepSecret(p, m) == [p EXCEPT !.secret = m.proof]
KeepKeys(p, m) == [p EXCEPT !.secret = m.proof, !.keys = m.proof]
KeepVerified(p, m) == [p EXCEPT !.keys = m.secret]
KeepNothing(p, m) == p

ContinueSetupM6 == Conclude("setup", "WaitingM6", ProcessM6, Same, KeepSecret)
ContinueTransientM4 == Conclude("transient", "WaitingM4", ProcessM4, CompleteTransient, KeepKeys)
ContinueVerifyM4 == Conclude("verify", "WaitingM4", VerifyM4, Same, KeepVerified)
ContinueFairPlay3 == Conclude("fairplay", "WaitingM4", Phase3Response, Same, KeepNothing)

\* take_session_keys gives the keys away.
TakeSessionKeys ==
  /\ pairing.keys # <<>> /\ pairing' = [pairing EXCEPT !.keys = <<>>, !.taken = TRUE]
  /\ UNCHANGED <<attempts, accessory, letter, replies, sealed>>

\* A new session; what was on the way belongs to the old connection.
BeginSession ==
  /\ attempts < MaxAttempts /\ attempts' = attempts + 1
  /\ pairing' = NewSession /\ letter' = Blank /\ replies' = <<>>
  /\ UNCHANGED <<accessory, sealed>>

-----------------------------------------------------------------------------
(* The receiver.                                                           *)

Answer(a, reply) ==
  /\ letter' = Blank /\ accessory' = a /\ replies' = IF replies = <<>> THEN <<reply>> ELSE <<reply, Head(replies)>>
  /\ UNCHANGED <<pairing, attempts>>

\* generate_m2: a new key for every M1 of a pair-setup.
AnswerSetupM1 ==
  /\ letter.proto = "setup" /\ letter.n = 1
  /\ Answer([accessory EXCEPT !.nonce = @ + 1, !.secret = <<>>],
            [Blank EXCEPT !.proto = "setup", !.n = 2, !.s = accessory.nonce + 1])
  /\ UNCHANGED sealed

\* process_m3: the proof it sends is over its own code and keys.
AnswerSetupM3 ==
  /\ letter.proto = "setup" /\ letter.n = 3
  /\ LET secret == VerifierSecret(letter.c, accessory.nonce)
     IN /\ Answer([accessory EXCEPT !.secret = secret],
                  [Blank EXCEPT !.proto = "setup", !.n = 4, !.mac = secret])
        /\ sealed' = sealed \cup {secret}

\* process_m5 opens the body with its own secret or refuses.
AnswerSetupM5 ==
  /\ letter.proto = "setup" /\ letter.n = 5
  /\ IF letter.mac = accessory.secret
     THEN Answer([accessory EXCEPT !.knows = TRUE],
                 [Blank EXCEPT !.proto = "setup", !.n = 6, !.mac = letter.mac])
     ELSE Answer(accessory, Refusal("setup"))
  /\ UNCHANGED sealed

\* process_m1 of pair-verify: key, seal and signature over both keys.
AnswerVerifyM1 ==
  /\ letter.proto = "verify" /\ letter.n = 1
  /\ LET secret == EcdhSecret(letter.c, accessory.nonce + 1)
     IN /\ Answer([accessory EXCEPT !.nonce = @ + 1, !.secret = secret],
                  [Blank EXCEPT !.proto = "verify", !.n = 2, !.s = accessory.nonce + 1,
                                !.mac = secret, !.order = accessory.order])
        /\ UNCHANGED sealed

\* process_m3 of pair-verify.
AnswerVerifyM3 ==
  /\ letter.proto = "verify" /\ letter.n = 3
  /\ IF letter.mac = accessory.secret /\ letter.order = accessory.order
     THEN /\ Answer(accessory, [Blank EXCEPT !.proto = "verify", !.n = 4])
          /\ sealed' = sealed \cup {letter.mac}
     ELSE Answer(accessory, Refusal("verify")) /\ UNCHANGED sealed

AnswerFairPlay ==
  /\ letter.proto = "fairplay"
  /\ Answer(accessory, [Blank EXCEPT !.proto = "fairplay", !.n = letter.n + 1])
  /\ UNCHANGED sealed

\* An error, or a body that is not what was asked for.
RefusePairing == letter # Blank /\ Answer(accessory, Refusal(letter.proto)) /\ UNCHANGED sealed

\* The receiver restarts: it forgets the exchange.
Restart ==
  /\ accessory.secret # <<>>
  /\ accessory' = [accessory EXCEPT !.secret = <<>>]
  /\ UNCHANGED <<pairing, attempts, letter, replies, sealed>>

-----------------------------------------------------------------------------
PairingInit ==
  /\ pairing = NewSession /\ attempts = 0 /\ letter = Blank /\ replies = <<>> /\ sealed = {}
  /\ \E i \in DOMAIN Orders :
       accessory = [nonce |-> 0, secret |-> <<>>, order |-> Orders[i], knows |-> FALSE]

PairingNext ==
  \/ StartPairSetup \/ StartTransient \/ StartPairVerify \/ StartFairPlay
  \/ ContinueSetupM2 \/ ContinueSetupM4 \/ ContinueSetupM6
  \/ ContinueTransientM2 \/ ContinueTransientM4
  \/ ContinueVerifyM2 \/ ContinueVerifyM4 \/ ContinueFairPlay1 \/ ContinueFairPlay3
  \/ TakeSessionKeys \/ BeginSession
  \/ AnswerSetupM1 \/ AnswerSetupM3 \/ AnswerSetupM5 \/ AnswerVerifyM1 \/ AnswerVerifyM3
  \/ AnswerFairPlay \/ RefusePairing \/ Restart

PairingSpec == PairingInit /\ [][PairingNext]_pairingVars

-----------------------------------------------------------------------------
\* The machines of a session and their states; a stage without a machine has
\* not started.
PairSetupState ==
  {"Initial", "M1Sent", "M2Received", "M3Sent", "M4Received", "M5Sent", "Complete", "Failed"}
PairVerifyState == {"Initial", "M1Sent", "M2Received", "M3Sent", "Complete", "Failed"}
FairPlayState == {"Initial", "Phase1Sent", "Phase1Complete", "Phase3Sent", "Complete", "Failed"}
MachineStates ==
  [setup |-> PairSetupState, transient |-> PairSetupState, verify |-> PairVerifyState,
   fairplay |-> FairPlayState]
PairingSession ==
  /\ pairing.stage \in [Flows -> {"NotStarted", "WaitingM2", "WaitingM4", "WaitingM6", "Complete"}]
  /\ \A f \in Flows : IF pairing.machine[f] = NoMachine THEN pairing.stage[f] = "NotStarted"
                      ELSE pairing.machine[f].st \in MachineStates[f]

\* The receiver holds a secret only of an exchange it has answered.
Accessory ==
  /\ accessory.knows \in BOOLEAN /\ accessory.order \in {Orders[i] : i \in DOMAIN Orders}
  /\ (accessory.secret # <<>> => accessory.nonce > 0)

PairingTypeOK == PairingSession /\ Accessory /\ attempts \in 0 .. MaxAttempts

\* A pair-setup or a transient pairing that completed agreed on its secret with
\* the receiver, whatever answers the caller handed in and in which order.
SecretIsAgreed ==
  \A f \in {"setup", "transient"} :
    pairing.stage[f] = "Complete" => pairing.machine[f].proof \in sealed

\* ... and only with the code the receiver shows.
OnlyTheRightPin ==
  \A f \in {"setup", "transient"} :
    pairing.stage[f] = "Complete" => pairing.machine[f].pin = RightPin

\* Session and machine move together, or the machine has failed and the
\* session stays where it was.
StageFollowsMachine ==
  \A f \in Flows :
    LET st == pairing.machine[f].st
    IN st # "Failed" =>
         CASE pairing.stage[f] = "NotStarted" -> st = "none"
           [] pairing.stage[f] = "WaitingM2" -> st \in {"M1Sent", "Phase1Sent"}
           [] pairing.stage[f] = "WaitingM4" -> st \in {"M3Sent", "Phase3Sent"}
           [] pairing.stage[f] = "WaitingM6" -> st = "M5Sent"
           [] OTHER -> st = "Complete"

\* Keys come from a flow that completed in this session.
KeysHaveASource ==
  pairing.keys # <<>> =>
    \/ pairing.stage["transient"] = "Complete" /\ pairing.keys = pairing.machine["transient"].proof
    \/ pairing.stage["verify"] = "Complete" /\ pairing.keys = pairing.machine["verify"].secret

\* Knowing the receiver's key, the signing order is the receiver's own, which
\* is the one it accepts.
OrderIsLearned ==
  LET m == pairing.machine["verify"]
  IN m.st \in {"M2Received", "M3Sent", "Complete"} /\ m.known => m.order = accessory.order

\* What a finished pairing leaves behind.
PairingSafe ==
  /\ PairingTypeOK /\ SecretIsAgreed /\ OnlyTheRightPin /\ StageFollowsMachine
  /\ KeysHaveASource /\ OrderIsLearned
=============================================================================
