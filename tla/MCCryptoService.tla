-------------------------- MODULE MCCryptoService --------------------------
(***************************************************************************)
(* Instances of CryptoService.                                             *)
(***************************************************************************)
EXTENDS CryptoService

Call(op, algorithm, on, valid) ==
    [op |-> op, algorithm |-> algorithm, on |-> on, valid |-> valid,
     customer |-> "a"]

CallsAny ==
    <<{Call("generate", None, None, TRUE), Call("encrypt", "aes", None, TRUE),
       Call("encrypt_pqc", None, None, TRUE)},
      {Call("generate", None, None, TRUE), Call("wrap", None, None, TRUE),
       Call("sign", None, 1, TRUE), Call("encrypt", "chacha", 1, TRUE),
       Call("encrypt", "kyber768", 1, TRUE)},
      {Call("sign", None, 1, TRUE), Call("verify", None, 1, FALSE),
       Call("public_key", None, 1, TRUE), Call("health", None, None, TRUE),
       Call("encrypt", "xchacha", None, FALSE),
       Call("decrypt", "aes", 1, TRUE), Call("decrypt", "chacha", 2, TRUE),
       Call("decrypt_pqc", None, 1, TRUE)}>>

CallsRotation == <<{Call("generate", None, None, TRUE)}>>

MCTasks == 0..3
MCTasksRotation == 0..1
MCLocks == {"pairs", "metadata", "cache", "engine_rng"}
=============================================================================
