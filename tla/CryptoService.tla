--------------------------- MODULE CryptoService ---------------------------
(***************************************************************************)
(* The crypto engine service: the key manager with its two tables of       *)
(* signing keys, the engine with its cache of encryption keys, the ML-KEM  *)
(* key pairs in the sealed key store, the gauge of active operations, and  *)
(* the background task that rotates expired keys.                          *)
(*                                                                         *)
(* An operation is a script: the locks that it takes, in the code's order, *)
(* each with what the code does once it has it.  A task runs one step of   *)
(* its script at a time, so that tasks interleave at every await.  A lock  *)
(* that no task holds while it awaits another one cannot block anybody and *)
(* is left out (the master key, the key manager's generator, the metrics). *)
(***************************************************************************)
EXTENDS FairLocks, FiniteSets, Integers

CONSTANTS
    None,          \* no value
    Customers,
    Calls,         \* Calls[t]: the requests that worker t may start
    MaxKeys,       \* max_keys_per_customer
    Interval,      \* rotation_interval_hours
    MaxTime,       \* bound on the clock
    MaxFaults      \* bound on callers that give up, store errors and restarts

Rotator == 0
Workers == Tasks \ {Rotator}

ASSUME CryptoAssumption ==
    /\ Rotator \in Tasks /\ Tasks \subseteq Nat
    /\ Locks = {"pairs", "metadata", "cache", "engine_rng"}
    /\ MaxKeys \in Nat /\ Interval \in Nat \ {0}
    /\ {MaxTime, MaxFaults} \subseteq Nat

VARIABLES
    now,
    call,        \* what each worker was asked for
    todo,        \* the steps it still has to do
    result,      \* how it ended
    local,       \* the key it works with
    pairs,       \* key_pairs: when the key made by a task expires
    metadata,    \* key_metadata
    cache,       \* key_cache: the tasks whose encryption key it holds
    phase,       \* of the process: down, creating its master key, up, refused
    master,      \* the master key file of the sealed key store
    sealed,      \* sealed key store: the ML-KEM pair of an id
    disk,        \* what a restart may find for each id
    storing,     \* how far the store task of each encryption is
    made,        \* the ciphertexts that were answered
    active,      \* the gauge of active encryptions and decryptions
    due,         \* when the rotation interval ticks next
    faults,
    refusable,   \* history: the requests that had to be refused on arrival
    lost,        \* history: the encryption keys that a restart forgot
    leaked,      \* history: gauge counts whose request was dropped
    inserts,     \* history: whose pairs the store got for each id
    served       \* history: the service has been up

cryptoVars == <<held, queue, now, call, todo, result, local, pairs, metadata,
                cache, sealed, disk, storing, inserts, made, active, due,
                faults, refusable, lost, leaked, phase, master, served>>

Optional(S) == S \cup {None}

(***************************************************************************)
(* How long the nonce is that an encryption puts before the ciphertext,    *)
(* and the one that a decryption asks for.                                 *)
(***************************************************************************)
aes256_gcm == [written |-> 12, required |-> 12]
chacha20_poly1305 == [written |-> 12, required |-> 12]
xchacha20_poly1305 == [written |-> 24, required |-> 24]

Cipher == [aes |-> aes256_gcm, chacha |-> chacha20_poly1305,
           xchacha |-> xchacha20_poly1305]

EncryptionAlgorithm == DOMAIN Cipher \cup {"kyber768"}

-----------------------------------------------------------------------------
(***************************************************************************)
(* The scripts.                                                            *)
(***************************************************************************)
Step(l, m, e) == [lock |-> l, mode |-> m, then |-> e, key |-> None]
Plain(e) == Step(None, None, e)

(* Mutant: the two tables are locked in the other order.                   *)
generate_key_pair_Swapped ==
    <<Step("metadata", "read", "check_key_limits"),
      Step("metadata", "write", "hold"), Step("pairs", "write", "insert")>>

generate_key_pair ==
    <<Step("metadata", "read", "check_key_limits"),
      Step("pairs", "write", "hold"), Step("metadata", "write", "insert")>>

update_key_usage == <<Step("metadata", "write", "use")>>

sign_data == <<Step("pairs", "read", "find_live")>> \o update_key_usage

verify_signature(valid) ==
    <<Step("pairs", "read", "find_live")>>
        \o (IF valid THEN update_key_usage ELSE <<>>)

get_public_key == <<Step("pairs", "read", "find")>> \o update_key_usage

(* get_keys_by_customer and get_key_creation_info only read the table.     *)
get_keys == <<Step("pairs", "read", "look")>>

health_check ==
    <<Step("engine_rng", "write", "look"), Step("cache", "read", "look"),
      Step("pairs", "read", "look"), Step("metadata", "read", "look")>>

encrypt_aead ==
    <<Step("cache", "read", "get_key"), Step("engine_rng", "write", "hold"),
      Step("cache", "write", "cache_key"),
      Step("engine_rng", "write", "encrypt")>>

decrypt_aead == <<Step("cache", "read", "decrypt")>>

encrypt_with_mlkem ==
    <<Plain("store_kyber_keypair"), Plain("stored"), Plain("encapsulate")>>

decrypt_with_mlkem == <<Plain("decapsulate")>>

Measured(script) == <<Plain("begin")>> \o script \o <<Plain("finish")>>

encrypt_data_with_key(algorithm) ==
    Measured(IF algorithm = "kyber768" THEN encrypt_with_mlkem
                                       ELSE encrypt_aead)

(* The request carries no nonce, which ML-KEM decryption then misses: see  *)
(* Accepted.                                                               *)
decrypt_data(algorithm) ==
    Measured(IF algorithm = "kyber768" THEN <<>> ELSE decrypt_aead)

(* What wrapping a secret asks of the service: the plaintext is encrypted, *)
(* then a signing key is made for this one envelope, then it signs.        *)
wrap == encrypt_with_mlkem \o generate_key_pair \o sign_data

Script(q) ==
    CASE q.op = "generate"    -> generate_key_pair
      [] q.op = "sign"        -> sign_data
      [] q.op = "verify"      -> verify_signature(q.valid)
      [] q.op = "public_key"  -> get_public_key
      [] q.op = "keys"        -> get_keys
      [] q.op = "health"      -> health_check
      [] q.op = "encrypt"     -> encrypt_data_with_key(q.algorithm)
      [] q.op = "decrypt"     -> decrypt_data(q.algorithm)
      [] q.op = "encrypt_pqc" -> encrypt_with_mlkem
      [] q.op = "decrypt_pqc" -> decrypt_with_mlkem
      [] q.op = "wrap"        -> wrap

(* rotate_key keeps its read guards on both tables while it generates.     *)
rotate_key(k) ==
    <<[Step("pairs", "read", "rotate") EXCEPT !.key = k],
      Step("metadata", "read", "hold")>>
        \o generate_key_pair
        \o <<[Step("metadata", "write", "rotated") EXCEPT !.key = k]>>

rotate_expired_keys == <<Step("metadata", "read", "collect")>>

-----------------------------------------------------------------------------
is_key_expired(k) == pairs[k] < now

Counted(c) ==
    {k \in Tasks : metadata[k] # None /\ metadata[k].customer = c
                                      /\ metadata[k].status = "Active"}

check_key_limits(c) == Cardinality(Counted(c)) < MaxKeys

ExpiredKeys ==
    {k \in Tasks : metadata[k] # None /\ metadata[k].status = "Active"
                                      /\ metadata[k].expires_at < now}

-----------------------------------------------------------------------------
(***************************************************************************)
(* Running a script.  `Proceed' does the step at the head: what comes      *)
(* after it, and the guards that the code still holds.  `Fail' returns an  *)
(* error: every guard goes, the gauge is still lowered, and a rotation     *)
(* goes on with the next key.                                              *)
(***************************************************************************)
Busy(t) == todo[t] # <<>>
Doing(t) == Head(todo[t])

At(t, effects) ==
    /\ Busy(t)
    /\ Doing(t).then \in effects
    /\ Doing(t).lock # None => MayTake(t, Doing(t))

GuardOf(t) == [lock |-> Doing(t).lock, mode |-> Doing(t).mode]

Proceed(t, rest, guards) ==
    /\ todo' = [todo EXCEPT ![t] = rest]
    /\ held' = [held EXCEPT ![t] = IF rest = <<>> THEN <<>> ELSE guards]
    /\ queue' = QueuesWithout(t)
    /\ result' = [result EXCEPT ![t] =
                    IF rest = <<>> /\ @ = None THEN "ok" ELSE @]

Keeping(t) == Append(held[t], GuardOf(t))

NextKey(t) ==
    LET later == {i \in 2..Len(todo[t]) : todo[t][i].then = "rotate"} IN
    IF later = {} THEN <<>>
    ELSE SubSeq(todo[t], CHOOSE i \in later : \A j \in later : i <= j,
                Len(todo[t]))

(* Mutant: an error returns at once.                                       *)
AfterError_Early(t) == IF t = Rotator THEN NextKey(t) ELSE <<>>

AfterError(t) ==
    IF t = Rotator THEN NextKey(t)
    ELSE SelectSeq(todo[t], LAMBDA s : s.then = "finish")

FailAs(t, error) ==
    /\ todo' = [todo EXCEPT ![t] = AfterError(t)]
    /\ held' = [held EXCEPT ![t] = <<>>]
    /\ queue' = QueuesWithout(t)
    /\ result' = [result EXCEPT ![t] = error]

Fail(t) == FailAs(t, "error")

(* The disk fails under the sealed key store.                              *)
StoreError ==
    /\ faults < MaxFaults
    /\ faults' = faults + 1

history == <<refusable, lost, leaked, served>>
outside == <<now, due, phase, master>>
environment == <<outside, faults, history>>
store == <<sealed, disk, storing, inserts>>
tables == <<pairs, metadata, cache, store>>

-----------------------------------------------------------------------------
(***************************************************************************)
(* The steps.                                                              *)
(***************************************************************************)
Hold(t) ==
    /\ At(t, {"hold", "rotate"})
    /\ local' = IF Doing(t).then = "rotate"
                  THEN [local EXCEPT ![t].customer =
                            metadata[Doing(t).key].customer]
                  ELSE local
    /\ Proceed(t, Tail(todo[t]), Keeping(t))
    /\ UNCHANGED <<environment, tables, call, made, active>>

Look(t) ==
    /\ At(t, {"look"})
    /\ Proceed(t, Tail(todo[t]), held[t])
    /\ UNCHANGED <<environment, tables, call, local, made, active>>

(* The pair and its expiry are made next, before the tables are locked.    *)
CheckLimits(t) ==
    /\ At(t, {"check_key_limits"})
    /\ IF check_key_limits(local[t].customer)
         THEN /\ local' = [local EXCEPT ![t].key = t,
                                        ![t].expires_at = now + Interval]
              /\ Proceed(t, Tail(todo[t]), held[t])
         ELSE local' = local /\ Fail(t)
    /\ UNCHANGED <<environment, tables, call, made, active>>

Insert(t) ==
    /\ At(t, {"insert"})
    /\ pairs' = [pairs EXCEPT ![local[t].key] = local[t].expires_at]
    /\ metadata' = [metadata EXCEPT ![local[t].key] =
          [customer |-> local[t].customer,
           expires_at |-> local[t].expires_at,
           status |-> "Active", usage_count |-> 0]]
    /\ Proceed(t, Tail(todo[t]), Front(held[t]))
    /\ UNCHANGED <<environment, cache, store, call, local, made, active>>

(* Mutant: expiry is not looked at.                                        *)
FindLive_Expired(t) ==
    /\ At(t, {"find_live"})
    /\ LET k == local[t].key IN
       IF k # None /\ pairs[k] # None
         THEN Proceed(t, Tail(todo[t]), Keeping(t))
         ELSE Fail(t)
    /\ UNCHANGED <<environment, tables, call, local, made, active>>

(* sign_data and verify_signature: the key must exist and not be expired.  *)
FindLive(t) ==
    /\ At(t, {"find_live"})
    /\ LET k == local[t].key IN
       IF k # None /\ pairs[k] # None /\ ~is_key_expired(k)
         THEN Proceed(t, Tail(todo[t]), Keeping(t))
         ELSE Fail(t)
    /\ UNCHANGED <<environment, tables, call, local, made, active>>

Find(t) ==
    /\ At(t, {"find"})
    /\ LET k == local[t].key IN
       IF k # None /\ pairs[k] # None
         THEN Proceed(t, Tail(todo[t]), Keeping(t))
         ELSE Fail(t)
    /\ UNCHANGED <<environment, tables, call, local, made, active>>

(* Mutant: the count is set, not raised.                                   *)
WriteMetadata_Set(t) ==
    /\ At(t, {"use", "rotated"})
    /\ metadata' =
         IF Doing(t).then = "use"
           THEN [metadata EXCEPT ![local[t].key].usage_count = 1]
           ELSE [metadata EXCEPT ![Doing(t).key].status = "Rotated"]
    /\ Proceed(t, Tail(todo[t]), <<>>)
    /\ UNCHANGED <<environment, pairs, cache, store, call, local, made,
                   active>>

(* update_key_usage, and the end of rotate_key; both give back all guards. *)
WriteMetadata(t) ==
    /\ At(t, {"use", "rotated"})
    /\ metadata' =
         IF Doing(t).then = "use"
           THEN [metadata EXCEPT ![local[t].key].usage_count = @ + 1]
           ELSE [metadata EXCEPT ![Doing(t).key].status = "Rotated"]
    /\ Proceed(t, Tail(todo[t]), <<>>)
    /\ UNCHANGED <<environment, pairs, cache, store, call, local, made,
                   active>>

(* rotate_expired_keys collects under a read guard and drops it.           *)
Collect(t) ==
    /\ At(t, {"collect"})
    /\ LET order == SetToSeq(ExpiredKeys)
           script == FlattenSeq([i \in DOMAIN order |-> rotate_key(order[i])])
       IN  Proceed(t, script, <<>>)
    /\ UNCHANGED <<environment, tables, call, local, made, active>>

(* get_or_generate_key: an id that the cache does not know is ignored.     *)
GetKey(t) ==
    /\ At(t, {"get_key"})
    /\ Proceed(t, IF local[t].key \in cache THEN SubSeq(todo[t], 4, Len(todo[t]))
                                            ELSE Tail(todo[t]), held[t])
    /\ UNCHANGED <<environment, tables, call, local, made, active>>

(* generate_key: the generator is still locked when the cache is.          *)
CacheKey(t) ==
    /\ At(t, {"cache_key"})
    /\ cache' = cache \cup {t}
    /\ local' = [local EXCEPT ![t].key = t]
    /\ Proceed(t, Tail(todo[t]), Front(held[t]))
    /\ UNCHANGED <<environment, pairs, metadata, store, call, made, active>>

(* Every decryption takes the first 12 bytes for the nonce.                *)
SplitAt == 12

Opens(c, q) ==
    /\ c.algorithm = q.algorithm
    /\ c.algorithm \in DOMAIN Cipher
    /\ Cipher[c.algorithm] = [written |-> SplitAt, required |-> SplitAt]

Decrypt(t) ==
    /\ At(t, {"decrypt"})
    /\ IF local[t].key \in cache /\ Opens(made[call[t].on], call[t])
         THEN Proceed(t, Tail(todo[t]), held[t])
         ELSE Fail(t)
    /\ UNCHANGED <<environment, tables, call, local, made, active>>

Encrypt(t) ==
    /\ At(t, {"encrypt"})
    /\ made' = [made EXCEPT ![t] = [algorithm |-> call[t].algorithm,
                                    key |-> local[t].key,
                                    maker |-> local[t].key]]
    /\ Proceed(t, Tail(todo[t]), held[t])
    /\ UNCHANGED <<environment, tables, call, local, active>>

(***************************************************************************)
(* ML-KEM.  A new pair each time, stored under the id that the caller      *)
(* named, if any.  The store is a blocking task, which runs on when the    *)
(* caller has gone: it inserts the pair, then flushes the tree.            *)
(***************************************************************************)
storage_key_id(t) == IF local[t].key = None THEN t ELSE local[t].key

StoreKyberKeypair(t) ==
    /\ At(t, {"store_kyber_keypair"})
    /\ storing' = [storing EXCEPT ![t] = "queued"]
    /\ Proceed(t, Tail(todo[t]), held[t])
    /\ UNCHANGED <<environment, pairs, metadata, cache, sealed, disk, inserts,
                   call, local, made, active>>

StoreOnly ==
    UNCHANGED <<held, queue, pairs, metadata, cache, call, todo, result, local,
                made, active, history>>

InsertPair(t) ==
    LET id == storage_key_id(t)
        pair == [maker |-> t, under |-> master]
    IN  /\ storing[t] = "queued"
        /\ storing' = [storing EXCEPT ![t] = "inserted"]
        /\ sealed' = [sealed EXCEPT ![id] = pair]
        /\ disk' = [disk EXCEPT ![id] = @ \cup {pair}]
        /\ inserts' = [inserts EXCEPT ![id] = Append(@, t)]
        /\ StoreOnly
        /\ UNCHANGED <<outside, faults>>

FlushPair(t) ==
    /\ storing[t] = "inserted"
    /\ storing' = [storing EXCEPT ![t] = "stored"]
    /\ disk' = [id \in DOMAIN disk |-> {sealed[id]}]
    /\ StoreOnly
    /\ UNCHANGED <<sealed, inserts, outside, faults>>

(* The insert fails, or the flush after it.                                *)
StoreFails(t) ==
    /\ storing[t] \in {"queued", "inserted"}
    /\ StoreError
    /\ storing' = [storing EXCEPT ![t] = "failed"]
    /\ StoreOnly
    /\ UNCHANGED <<sealed, disk, inserts, outside>>

(* Mutant: the answer does not wait for the store.                         *)
Stored_Unawaited(t) ==
    /\ At(t, {"stored"})
    /\ Proceed(t, Tail(todo[t]), held[t])
    /\ UNCHANGED <<environment, tables, call, local, made, active>>

Stored(t) ==
    /\ At(t, {"stored"})
    /\ \/ storing[t] = "stored" /\ Proceed(t, Tail(todo[t]), held[t])
       \/ storing[t] = "failed" /\ FailAs(t, "store_error")
    /\ UNCHANGED <<environment, tables, call, local, made, active>>

(* A signing pair is stored too, which nothing reads; then the ciphertext  *)
(* is encapsulated for the public key that t has generated.                *)
mlkem_ciphertext(t) ==
    [algorithm |-> "kyber768", key |-> storage_key_id(t), maker |-> t]

Encapsulate(t) ==
    /\ At(t, {"encapsulate"})
    /\ \/ /\ made' = [made EXCEPT ![t] = mlkem_ciphertext(t)]
          /\ Proceed(t, Tail(todo[t]), held[t])
          /\ faults' = faults
       \/ StoreError /\ FailAs(t, "store_error") /\ made' = made
    /\ UNCHANGED <<outside, history, tables, call, local, active>>

(* The pair of an id, when it is there and was sealed by this master key.  *)
load_kyber_keypair(id) ==
    IF sealed[id] # None /\ sealed[id].under = master THEN sealed[id].maker
                                                     ELSE None

(* The wrong decapsulation key yields another secret, which AES-GCM finds. *)
Decapsulate(t) ==
    /\ At(t, {"decapsulate"})
    /\ \/ /\ IF load_kyber_keypair(local[t].key) = made[call[t].on].maker
               THEN Proceed(t, Tail(todo[t]), held[t])
               ELSE Fail(t)
          /\ faults' = faults
       \/ StoreError /\ FailAs(t, "store_error")
    /\ UNCHANGED <<outside, history, tables, call, local, made, active>>

Accepted(q) == q.valid /\ ~(q.op = "decrypt" /\ q.algorithm = "kyber768")

(* update_active_operations, before the request is looked at and after it. *)
Begin(t) ==
    /\ At(t, {"begin"})
    /\ active' = [active EXCEPT ![call[t].op] = @ + 1]
    /\ IF Accepted(call[t]) THEN Proceed(t, Tail(todo[t]), held[t])
                            ELSE Fail(t)
    /\ UNCHANGED <<environment, tables, call, local, made>>

(* Mutant: the count is taken back twice.                                  *)
Finish_Twice(t) ==
    /\ At(t, {"finish"})
    /\ active' = [active EXCEPT ![call[t].op] = @ - 2]
    /\ Proceed(t, Tail(todo[t]), held[t])
    /\ UNCHANGED <<environment, tables, call, local, made>>

Finish(t) ==
    /\ At(t, {"finish"})
    /\ active' = [active EXCEPT ![call[t].op] = @ - 1]
    /\ Proceed(t, Tail(todo[t]), held[t])
    /\ UNCHANGED <<environment, tables, call, local, made>>

-----------------------------------------------------------------------------
(***************************************************************************)
(* Requests, the rotation task, the clock and restarts.                    *)
(***************************************************************************)
UsesPair == {"sign", "verify", "public_key"}

Refusable(q, k) ==
    \/ q.op \in {"generate", "wrap"} /\ ~check_key_limits(q.customer)
    \/ q.op \in {"sign", "verify"}
         /\ (IF k = None THEN TRUE
             ELSE IF pairs[k] = None THEN TRUE ELSE is_key_expired(k))

(* Workers are interchangeable and start in order.                         *)
Start(t, q) ==
    /\ phase = "up"
    /\ call[t] = None
    /\ \A u \in Workers : u < t => call[u] # None
    /\ q.on # None =>
         /\ q.on < t
         /\ result[q.on] = "ok"
         /\ IF q.op \in UsesPair THEN call[q.on].op = "generate"
                                 ELSE made[q.on] # None
    /\ LET k == IF q.on = None THEN None
                ELSE IF q.op \in UsesPair THEN q.on ELSE made[q.on].key IN
       /\ local' = [local EXCEPT ![t].key = k, ![t].customer = q.customer]
       /\ refusable' = IF Refusable(q, k) THEN refusable \cup {t}
                                          ELSE refusable
    /\ call' = [call EXCEPT ![t] = q]
    /\ todo' = [todo EXCEPT ![t] = Script(q)]
    /\ UNCHANGED <<held, queue, tables, now, result, made, active, due,
                   faults, lost, leaked, phase, master,
                   served>>

(* The interval ticks at once when the service starts, then on schedule.   *)
StartRotation ==
    /\ phase = "up"
    /\ ~Busy(Rotator)
    /\ due <= now
    /\ due' = due + Interval
    /\ todo' = [todo EXCEPT ![Rotator] = rotate_expired_keys]
    /\ result' = [result EXCEPT ![Rotator] = None]
    /\ UNCHANGED <<held, queue, tables, now, call, local, made, active,
                   faults, refusable, lost, leaked, phase, master,
                   served>>

Wait(t) ==
    /\ Busy(t)
    /\ Doing(t).lock # None
    /\ MustWait(t, Doing(t))
    /\ queue' = Enqueued(t, Doing(t).lock)
    /\ UNCHANGED <<held, tables, environment, call, todo, result, local,
                   made, active>>

InGauge(t) ==
    /\ Busy(t)
    /\ call[t].op \in {"encrypt", "decrypt"}
    /\ Doing(t).then # "begin"

(* The transport drops the future of a request whose caller has gone.      *)
Drop(t) ==
    /\ faults < MaxFaults
    /\ Busy(t)
    /\ faults' = faults + 1
    /\ leaked' = IF InGauge(t) THEN [leaked EXCEPT ![call[t].op] = @ + 1]
                               ELSE leaked
    /\ todo' = [todo EXCEPT ![t] = <<>>]
    /\ held' = [held EXCEPT ![t] = <<>>]
    /\ queue' = QueuesWithout(t)
    /\ result' = [result EXCEPT ![t] = "dropped"]
    /\ UNCHANGED <<tables, now, call, local, made, active, due,
                   refusable, lost, phase, master, served>>

(* A unit of time is an hour: the rotation task runs when it is due.       *)
Tick ==
    /\ now < MaxTime
    /\ now < due /\ ~Busy(Rotator)
    /\ now' = now + 1
    /\ UNCHANGED <<held, queue, tables, call, todo, result, local, made,
                   active, due, faults, refusable, lost, leaked, phase, master,
                   served>>

(* Everything is in memory but the sealed key store, where what was not    *)
(* flushed may be lost.                                                    *)
Crash ==
    /\ faults < MaxFaults
    /\ phase \in {"creating", "up"}
    /\ faults' = faults + 1
    /\ phase' = "down"
    /\ result' = [t \in Tasks |-> IF Busy(t) THEN "dropped" ELSE result[t]]
    /\ todo' = [t \in Tasks |-> <<>>]
    /\ held' = [t \in Tasks |-> <<>>]
    /\ queue' = [l \in Locks |-> <<>>]
    /\ pairs' = [k \in Tasks |-> None]
    /\ metadata' = [k \in Tasks |-> None]
    /\ lost' = lost \cup cache
    /\ cache' = {}
    /\ active' = [o \in DOMAIN active |-> 0]
    /\ leaked' = [o \in DOMAIN leaked |-> 0]
    /\ sealed' \in {f \in [Tasks -> UNION Range(disk)] :
                       \A k \in Tasks : f[k] \in disk[k]}
    /\ disk' = [k \in Tasks |-> {sealed'[k]}]
    /\ storing' = [t \in Workers |->
          IF storing[t] \in {"queued", "inserted"} THEN "failed" ELSE storing[t]]
    /\ UNCHANGED <<now, due, master, inserts, call, local, made, refusable,
                   served>>

(* A restarted service rotates at once.                                    *)
Up ==
    /\ phase' = "up"
    /\ served' = TRUE
    /\ due' = now

FileOnly ==
    UNCHANGED <<held, queue, tables, now, call, todo, result, local, made,
                active, faults, refusable, lost, leaked>>

Short == [whole |-> FALSE, key |-> 0]

(* Mutant: the length check is inverted.                                   *)
OpenKeyStore_Inverted ==
    /\ phase = "down"
    /\ CASE master = None ->
              /\ master' = Short /\ phase' = "creating"
              /\ UNCHANGED <<served, due>>
         [] master # None /\ master.whole ->
              phase' = "refused" /\ UNCHANGED <<master, served, due>>
         [] OTHER -> Up /\ UNCHANGED master
    /\ FileOnly

(* load_or_create_master_key: the file appears before all of it is written *)
(* and a file of another length is refused from then on.                   *)
OpenKeyStore ==
    /\ phase = "down"
    /\ CASE master = None ->
              /\ master' = Short /\ phase' = "creating"
              /\ UNCHANGED <<served, due>>
         [] master # None /\ ~master.whole ->
              phase' = "refused" /\ UNCHANGED <<master, served, due>>
         [] OTHER -> Up /\ UNCHANGED master
    /\ FileOnly

CreateMasterKey ==
    /\ phase = "creating"
    /\ master' = [whole |-> TRUE, key |-> faults]
    /\ Up
    /\ FileOnly

Run(t) ==
    \/ Hold(t) \/ Look(t)
    \/ CheckLimits(t) \/ Insert(t)
    \/ FindLive(t) \/ Find(t) \/ WriteMetadata(t) \/ Collect(t)
    \/ GetKey(t) \/ CacheKey(t) \/ Encrypt(t) \/ Decrypt(t)
    \/ StoreKyberKeypair(t) \/ Stored(t) \/ Encapsulate(t) \/ Decapsulate(t)
    \/ Begin(t) \/ Finish(t)

StoreTask(t) == InsertPair(t) \/ FlushPair(t) \/ StoreFails(t)

Quiet ==
    /\ \A t \in Tasks : ~Busy(t)
    /\ UNCHANGED cryptoVars

Init ==
    /\ held = [t \in Tasks |-> <<>>]
    /\ queue = [l \in Locks |-> <<>>]
    /\ now = 0
    /\ call = [t \in Workers |-> None]
    /\ todo = [t \in Tasks |-> <<>>]
    /\ result = [t \in Tasks |-> None]
    /\ local = [t \in Tasks |->
                  [key |-> None, expires_at |-> None, customer |-> None]]
    /\ pairs = [k \in Tasks |-> None]
    /\ metadata = [k \in Tasks |-> None]
    /\ cache = {}
    /\ sealed = [k \in Tasks |-> None]
    /\ disk = [k \in Tasks |-> {None}]
    /\ storing = [t \in Workers |-> None]
    /\ inserts = [k \in Tasks |-> <<>>]
    /\ made = [t \in Workers |-> None]
    /\ active = [o \in {"encrypt", "decrypt"} |-> 0]
    /\ leaked = [o \in {"encrypt", "decrypt"} |-> 0]
    /\ due = 0
    /\ faults = 0
    /\ refusable = {} /\ lost = {}
    /\ phase = "down" /\ master = None /\ served = FALSE

Next ==
    \/ \E t \in Workers : \E q \in Calls[t] : Start(t, q)
    \/ StartRotation
    \/ \E t \in Tasks : Wait(t) \/ Run(t)
    \/ \E t \in Workers : StoreTask(t) \/ Drop(t)
    \/ OpenKeyStore \/ CreateMasterKey
    \/ Tick \/ Crash \/ Quiet

(* The runtime polls every task that can go on, and the clock advances.    *)
Fairness ==
    /\ WF_cryptoVars(OpenKeyStore \/ CreateMasterKey)
    /\ \A t \in Tasks : WF_cryptoVars(Wait(t) \/ Run(t))
    /\ \A t \in Workers : WF_cryptoVars(StoreTask(t))
    /\ WF_cryptoVars(StartRotation)
    /\ WF_cryptoVars(Tick)

Spec == Init /\ [][Next]_cryptoVars

FairSpec == Spec /\ Fairness

-----------------------------------------------------------------------------
Count == 0..Cardinality(Tasks)
Time == 0..(MaxTime + Interval)

KeyMetadata ==
    [customer : Customers, expires_at : Time,
     status : {"Active", "Rotated"}, usage_count : Count]

MasterFile == [whole : BOOLEAN, key : 0..MaxFaults]

(***************************************************************************)
(* Types; the gauges and counts stay natural numbers.                      *)
(***************************************************************************)
TypeOK ==
    /\ LocksTypeOK
    /\ now \in 0..MaxTime /\ due \in Time
    /\ \A t \in Workers : call[t] \in Optional(Calls[t])
    /\ result \in [Tasks -> {None, "ok", "error", "store_error", "dropped"}]
    /\ pairs \in [Tasks -> Optional(Time)]
    /\ metadata \in [Tasks -> Optional(KeyMetadata)]
    /\ cache \subseteq Workers /\ lost \subseteq Workers
    /\ phase \in {"down", "creating", "up", "refused"}
    /\ master \in Optional(MasterFile)
    /\ sealed \in [Tasks -> Optional([maker : Workers, under : MasterFile])]
    /\ \A k \in Tasks : sealed[k] \in disk[k]
    /\ storing \in [Workers -> {None, "queued", "inserted", "stored", "failed"}]
    /\ made \in [Workers -> Optional([algorithm : EncryptionAlgorithm,
                                      key : Workers, maker : Workers])]
    /\ active \in [{"encrypt", "decrypt"} -> Count]
    /\ leaked \in [{"encrypt", "decrypt"} -> Count]

(***************************************************************************)
(* The gauge of active operations (service.rs:147-171, 222-249) counts the *)
(* operations in progress, whatever way they end: only a request that its  *)
(* caller drops half way leaves its count behind.                          *)
(***************************************************************************)
GaugeBalanced ==
    \A o \in DOMAIN active :
        active[o] = leaked[o]
            + Cardinality({t \in Workers : call[t] # None /\ call[t].op = o
                                                          /\ InGauge(t)})

(***************************************************************************)
(* A request that had to be refused when it arrived is refused however the *)
(* others interleave with it: no key for a customer who is at the limit    *)
(* (key_manager.rs:666-685), no signature and no verification by a key     *)
(* that is expired or unknown (key_manager.rs:243-256, 289-306).           *)
(***************************************************************************)
RefusedStaysRefused == \A t \in refusable : result[t] # "ok"

(***************************************************************************)
(* A key's usage count is the number of answered signatures, verifications *)
(* and look-ups of it, across any overlap (key_manager.rs:724-735).        *)
(***************************************************************************)
UsageCounted ==
    \A k \in Tasks :
        metadata[k] # None =>
            metadata[k].usage_count = Cardinality({t \in Workers :
                /\ result[t] = "ok"
                /\ \/ call[t].op \in UsesPair /\ call[t].on = k /\ call[t].valid
                   \/ call[t].op = "wrap" /\ t = k})

(***************************************************************************)
(* A ciphertext that was answered can be decrypted with the key id that    *)
(* came with it: an AES-GCM or ChaCha20 one (engine.rs:154-235) for as     *)
(* long as the process lives, an ML-KEM one (quantum_resistant.rs:235-272) *)
(* also across restarts, unless another encryption that names the same id  *)
(* got its pair into the store later, one that failed or whose caller has  *)
(* gone included, or the disk fails.  (An XChaCha20 one cannot be          *)
(* decrypted at all: see SplitAt.)                                         *)
(***************************************************************************)
RoundTrip ==
    \A t \in Workers :
        (result[t] = "error" /\ call[t].valid) =>
            LET u == call[t].on
                later == inserts[made[u].key]
            IN  /\ (call[t].op = "decrypt" /\ call[t].algorithm # "xchacha"
                      /\ made[u].algorithm = call[t].algorithm)
                     => made[u].key \in lost
                /\ (call[t].op = "decrypt_pqc" /\ made[u].algorithm = "kyber768")
                     => \E i, j \in DOMAIN later : i < j /\ later[i] = u

(***************************************************************************)
(* A key store that was opened once opens again, whenever the process died *)
(* (sealed_key_store.rs:72-101).  Only a death in the middle of the very   *)
(* first start leaves a master key file that every later start refuses.    *)
(***************************************************************************)
OpensAgain == phase = "refused" => ~served

(***************************************************************************)
(* As long as an operation is in progress, one of them can take its next   *)
(* step, unless rotate_key holds its guards on both tables (key_manager.rs:*)
(* 611-629): the order in which the code takes its locks lets no tasks     *)
(* wait for each other in a circle that the rotation is not part of,       *)
(* requests that are dropped while they hold or await a lock included.     *)
(* Every step shortens a script, so all of them end when the runtime polls *)
(* each, and the blocking tasks of the store wait for nobody (Fairness).   *)
(***************************************************************************)
WorkGoesOn ==
    (\E t \in Tasks : Busy(t)) /\ held[Rotator] = <<>> =>
        \E t \in Tasks :
            Busy(t) /\ (Doing(t).lock # None => MayTake(t, Doing(t)))

(***************************************************************************)
(* key_manager.rs:579, "Rotate expired keys": a key that has expired is    *)
(* not active for ever.                                                    *)
(***************************************************************************)
ExpiredAreRotated ==
    \A k \in Workers : k \in ExpiredKeys ~> k \notin ExpiredKeys
=============================================================================
