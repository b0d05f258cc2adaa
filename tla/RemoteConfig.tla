---------------------------- MODULE RemoteConfig ----------------------------
(***************************************************************************)
(* What a verifier refuses to be built with: Mode C's knobs and its        *)
(* optional keyring (_internal/remote_config.py), Mode A's keyring and     *)
(* both modes' cookie name (_internal/cookie_verifier.py). Durations are   *)
(* in tenths of a second; a value of the wrong type stands outside every   *)
(* range, as NaN and the infinities do.                                    *)
(***************************************************************************)
EXTENDS Integers

MaxConcurrency  == 256
MinQueueTimeout == 1
MaxNegativeTtl  == 3000
MaxRemembered   == 65536

IsRemoteConfig(c) ==
  /\ c.basePath \in {"root", "absolute"}
  /\ c.cap >= 1
  /\ c.concurrency \in 1 .. MaxConcurrency
  /\ c.queueTimeout >= MinQueueTimeout
  /\ c.negativeTtl \in 0 .. MaxNegativeTtl
  /\ c.maxRemembered \in 1 .. MaxRemembered

IsCookieName(posture) == posture \notin {"blank", "illegal"}

\* Every entry is a SharedSecret, which a weak value cannot become.
AreSecrets(keyring) == keyring # {} /\ "weak" \notin keyring

\* Exactly one of secret= and secrets=.
IsKeyring(given, keyring) == given \in {"secret", "secrets"} /\ AreSecrets(keyring)

\* At most one of them.
IsOptionalKeyring(given, keyring) ==
  \/ given = "neither" /\ keyring = {}
  \/ IsKeyring(given, keyring)
=============================================================================
